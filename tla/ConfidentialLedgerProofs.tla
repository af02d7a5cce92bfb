---------------------- MODULE ConfidentialLedgerProofs ----------------------
(***************************************************************************)
(* The safety of concurrent calls on confidential balances, for every set  *)
(* of accounts and calls, every amount, limit and number of retries, and   *)
(* every mixture of TypeScript and Rust owners.                            *)
(***************************************************************************)
EXTENDS ConfidentialLedger, TLAPS

-----------------------------------------------------------------------------
(* The checks of a call.                                                   *)

Check == [fails: BOOLEAN, code: ErrorCodes]

Keys == {"match", "mismatch", "unavailable"}

LEMMA WhenType ==
    ASSUME NEW cond \in BOOLEAN, NEW code \in ErrorCodes
    PROVE  When(cond, code) \in Check
  BY DEF When, Check

LEMMA OneCheck ==
    ASSUME NEW x \in Check
    PROVE  << x >> \in Seq(Check)
  OBVIOUS

LEMMA TwoChecks ==
    ASSUME NEW x \in Check, NEW y \in Check
    PROVE  << x, y >> \in Seq(Check)
  OBVIOUS

LEMMA ThreeChecks ==
    ASSUME NEW x \in Check, NEW y \in Check, NEW z \in Check
    PROVE  << x, y, z >> \in Seq(Check)
  OBVIOUS

\* Checks made one after the other pass when each of them passes.
LEMMA PassParts ==
    ASSUME NEW s \in Seq(Check), NEW t \in Seq(Check), Pass(s \o t)
    PROVE  Pass(t)
  <1>1. SUFFICES ASSUME NEW i \in DOMAIN t
                 PROVE  ~t[i].fails
    BY DEF Pass
  <1>2. Len(s) + i \in DOMAIN (s \o t) /\ (s \o t)[Len(s) + i] = t[i]
    OBVIOUS
  <1>3. QED
    BY <1>2 DEF Pass

LEMMA RequestType ==
    ASSUME TypeOK, NEW c \in Calls
    PROVE  /\ req[c].op \in Operation \cup {"none"}
           /\ req[c].acct \in Accounts /\ req[c].to \in Accounts /\ req[c].amt \in Nat
  BY DEF TypeOK

\* What is read of an account, typed.
LEMMA AccountType ==
    ASSUME TypeOK, NEW a \in Accounts
    PROVE  /\ status[a] \in {"missing", "plain", "configured"}
           /\ approved[a] \in BOOLEAN /\ allow[a] \in BOOLEAN
           /\ public[a] \in Nat /\ counter[a] \in Nat /\ decryptable[a] \in Nat
           /\ pending[a] \in [lo: Nat, hi: Nat, rnd: SUBSET Opening]
           /\ available[a] \in Ciphertext
  BY DEF TypeOK

LEMMA JoinType ==
    ASSUME NEW p \in [lo: Nat, hi: Nat, rnd: SUBSET Opening]
    PROVE  Join(p) \in Nat
  <1>1. p.lo \in Nat /\ p.hi \in Nat /\ LoBase \in Nat
    BY BaseAssumption
  <1>2. ASSUME NEW x \in Nat, NEW y \in Nat, NEW z \in Nat
        PROVE  x * y + z \in Nat
    OBVIOUS
  <1>3. QED
    BY <1>1, <1>2 DEF Join

\* The parts of the checks are sequences of checks.
LEMMA PartsType ==
    ASSUME TypeOK, NEW a \in Accounts, NEW keys \in Keys, NEW amt \in Nat
    PROVE  /\ ReadChecks(a) \in Seq(Check)
           /\ ReceiveChecks(a) \in Seq(Check)
           /\ KeyChecks(keys) \in Seq(Check)
           /\ FundsChecks(a, amt) \in Seq(Check)
           /\ PendingChecks(a) \in Seq(Check)
           /\ PublicChecks(a, amt) \in Seq(Check)
           /\ Derived(keys) \in Seq(Check)
           /\ Matching(keys) \in Seq(Check)
  <1>a. /\ (status[a] = "missing") \in BOOLEAN /\ (status[a] = "plain") \in BOOLEAN
        /\ (~approved[a]) \in BOOLEAN /\ (~allow[a]) \in BOOLEAN
        /\ (counter[a] >= MaxCounter) \in BOOLEAN
        /\ (keys = "unavailable") \in BOOLEAN /\ (keys = "mismatch") \in BOOLEAN
        /\ (decryptable[a] < amt) \in BOOLEAN /\ (public[a] < amt) \in BOOLEAN
        /\ (pending[a].lo > DecryptMax) \in BOOLEAN /\ (pending[a].hi > DecryptMax) \in BOOLEAN
    BY AccountType, LimitAssumption
  <1>1. ReadChecks(a) \in Seq(Check)
    BY <1>a, WhenType, TwoChecks DEF ReadChecks, ErrorCodes
  <1>2. ReceiveChecks(a) \in Seq(Check)
    BY <1>a, WhenType, ThreeChecks DEF ReceiveChecks, ErrorCodes
  <1>3. KeyChecks(keys) \in Seq(Check)
    BY <1>a, WhenType, TwoChecks DEF KeyChecks, ErrorCodes
  <1>4. FundsChecks(a, amt) \in Seq(Check)
    BY <1>a, WhenType, OneCheck DEF FundsChecks, DecryptBalance, ErrorCodes
  <1>5. PendingChecks(a) \in Seq(Check)
    BY <1>a, WhenType, TwoChecks DEF PendingChecks, ErrorCodes
  <1>6. PublicChecks(a, amt) \in Seq(Check)
    BY <1>a, WhenType, OneCheck DEF PublicChecks, ErrorCodes
  <1>7. Derived(keys) \in Seq(Check)
    BY <1>a, WhenType, OneCheck DEF Derived, ErrorCodes
  <1>8. Matching(keys) \in Seq(Check)
    BY <1>a, WhenType, OneCheck DEF Matching, ErrorCodes
  <1>9. QED
    BY <1>1, <1>2, <1>3, <1>4, <1>5, <1>6, <1>7, <1>8

\* Every error a check gives is one of ErrorCodes.
LEMMA ChecksType ==
    ASSUME TypeOK, NEW c \in Calls, NEW keys \in Keys
    PROVE  Checks(c, keys) \in Seq(Check)
  <1> DEFINE r == req[c]
  <1>0. r.acct \in Accounts /\ r.to \in Accounts /\ r.amt \in Nat
    BY RequestType
  <1>1. ASSUME NEW s \in Seq(Check), NEW t \in Seq(Check)
        PROVE  s \o t \in Seq(Check)
    BY <1>1
  <1>2. /\ ReadChecks(r.acct) \in Seq(Check) /\ ReadChecks(r.to) \in Seq(Check)
        /\ ReceiveChecks(r.acct) \in Seq(Check) /\ ReceiveChecks(r.to) \in Seq(Check)
        /\ KeyChecks(keys) \in Seq(Check) /\ FundsChecks(r.acct, r.amt) \in Seq(Check)
        /\ PendingChecks(r.acct) \in Seq(Check) /\ PublicChecks(r.acct, r.amt) \in Seq(Check)
        /\ Derived(keys) \in Seq(Check) /\ Matching(keys) \in Seq(Check)
    BY <1>0, PartsType
  <1> HIDE DEF r
  <1>3. /\ DepositChecks(r) \in Seq(Check) /\ RustDepositChecks(r) \in Seq(Check)
    BY <1>1, <1>2 DEF DepositChecks, RustDepositChecks
  <1>4. /\ ApplyChecks(r, keys) \in Seq(Check) /\ RustApplyChecks(r, keys) \in Seq(Check)
    BY <1>1, <1>2 DEF ApplyChecks, RustApplyChecks
  <1>5. /\ WithdrawChecks(r, keys) \in Seq(Check) /\ RustWithdrawChecks(r, keys) \in Seq(Check)
    BY <1>1, <1>2 DEF WithdrawChecks, RustWithdrawChecks
  <1>6. RustTransferChecks(r, keys) \in Seq(Check)
    BY <1>1, <1>2 DEF RustTransferChecks
  <1>7. TransferChecks(r, keys) \in Seq(Check)
    <2>1. << When(r.amt > MaxAmount, "AMOUNT_TOO_LARGE") >> \in Seq(Check)
      <3>1. (r.amt > MaxAmount) \in BOOLEAN
        BY <1>0, AmountAssumption
      <3>2. QED
        BY <3>1, WhenType, OneCheck DEF ErrorCodes
    <2>2. QED
      BY <1>1, <1>2, <2>1 DEF TransferChecks
  <1>8. /\ ConfigureChecks(r, keys, tries[c]) \in Seq(Check)
        /\ RustConfigureChecks(r, keys) \in Seq(Check)
    <2>1. /\ (tries[c] = 0 /\ status[r.acct] = "configured") \in BOOLEAN
          /\ (tries[c] = 0 /\ keys = "unavailable") \in BOOLEAN
          /\ (status[r.acct] = "configured") \in BOOLEAN
      OBVIOUS
    <2>2. /\ When(tries[c] = 0 /\ status[r.acct] = "configured", "ACCOUNT_ALREADY_CONFIGURED") \in Check
          /\ When(tries[c] = 0 /\ keys = "unavailable", "CANNOT_SIGN_MESSAGES") \in Check
          /\ When(status[r.acct] = "configured", "ACCOUNT_ALREADY_CONFIGURED") \in Check
      BY <2>1, WhenType DEF ErrorCodes
    <2>3. ConfigureChecks(r, keys, tries[c]) \in Seq(Check)
      BY <2>2, TwoChecks DEF ConfigureChecks
    <2>4. RustConfigureChecks(r, keys) \in Seq(Check)
      BY <2>2, <1>1, <1>2, OneCheck DEF RustConfigureChecks
    <2>5. QED
      BY <2>3, <2>4
  <1>9. QED
    BY <1>3, <1>4, <1>5, <1>6, <1>7, <1>8 DEF Checks, r

\* transfer, withdraw: a spend is signed only when the balance suffices.
LEMMA FundsSuffice ==
    ASSUME TypeOK, NEW c \in Calls, req[c].op \in {"transfer", "withdraw"},
           Pass(Checks(c, "match"))
    PROVE  decryptable[req[c].acct] >= req[c].amt
  <1> DEFINE r == req[c]
             F == FundsChecks(r.acct, r.amt)
             keys == "match"
  <1>0. r.acct \in Accounts /\ r.to \in Accounts /\ r.amt \in Nat /\ keys \in Keys
    BY RequestType DEF Keys
  <1>1. Pass(F)
    <2>1. ASSUME NEW s \in Seq(Check), Pass(s \o F)
          PROVE  Pass(F)
      <3>1. F \in Seq(Check)
        BY <1>0, PartsType
      <3>2. QED
        BY <2>1, <3>1, PassParts
    <2>2. ASSUME NEW s \in Seq(Check), NEW t \in Seq(Check)
          PROVE  s \o t \in Seq(Check)
      BY <2>2
    <2>3. /\ ReadChecks(r.acct) \in Seq(Check) /\ ReadChecks(r.to) \in Seq(Check)
          /\ ReceiveChecks(r.to) \in Seq(Check) /\ KeyChecks(keys) \in Seq(Check)
          /\ Derived(keys) \in Seq(Check) /\ Matching(keys) \in Seq(Check)
          /\ << When(r.amt > MaxAmount, "AMOUNT_TOO_LARGE") >> \in Seq(Check)
      <3>1. (r.amt > MaxAmount) \in BOOLEAN
        BY <1>0, AmountAssumption
      <3>2. << When(r.amt > MaxAmount, "AMOUNT_TOO_LARGE") >> \in Seq(Check)
        BY <3>1, WhenType, OneCheck DEF ErrorCodes
      <3>3. QED
        BY <1>0, <3>2, PartsType
    <2> DEFINE A == ReadChecks(r.acct) \o ReadChecks(r.to) \o ReceiveChecks(r.to) \o KeyChecks(keys)
                      \o << When(r.amt > MaxAmount, "AMOUNT_TOO_LARGE") >>
               B == Derived(keys) \o ReadChecks(r.acct) \o Matching(keys) \o ReadChecks(r.to)
                      \o ReceiveChecks(r.to)
               C == ReadChecks(r.acct) \o KeyChecks(keys)
               D == Derived(keys) \o ReadChecks(r.acct) \o Matching(keys)
    <2>4. A \in Seq(Check) /\ B \in Seq(Check) /\ C \in Seq(Check) /\ D \in Seq(Check)
      <3> HIDE DEF r
      <3>1. QED
        BY <2>2, <2>3
    <2>5. \/ Checks(c, keys) = A \o F \/ Checks(c, keys) = B \o F
          \/ Checks(c, keys) = C \o F \/ Checks(c, keys) = D \o F
      <3>1. /\ TransferChecks(r, keys) = A \o F /\ RustTransferChecks(r, keys) = B \o F
            /\ WithdrawChecks(r, keys) = C \o F /\ RustWithdrawChecks(r, keys) = D \o F
        BY DEF TransferChecks, RustTransferChecks, WithdrawChecks, RustWithdrawChecks
      <3> HIDE DEF A, B, C, D, F
      <3>2. QED
        BY <3>1 DEF Checks
    <2> HIDE DEF A, B, C, D, F
    <2>6. QED
      BY <2>1, <2>4, <2>5
  <1>2. 1 \in DOMAIN F /\ F[1].fails = (decryptable[r.acct] < r.amt)
    BY DEF FundsChecks, When, DecryptBalance
  <1>3. ~(decryptable[r.acct] < r.amt)
    BY <1>1, <1>2 DEF Pass
  <1>4. QED
    BY <1>0, <1>3, AccountType

-----------------------------------------------------------------------------
(* The inductive invariant, in parts.                                      *)

\* The transactions of a call that landed, or may still land though the call does
\* not wait for them.
Copies(c) == landings[c] + inflight[c]

\* What a call has done, may still do and has answered: it leaves a transaction
\* behind for each attempt in Rust, and in TypeScript only when it gives up.
CallOK(c) ==
    LET rust == ClientOf[req[c].acct] = "rust" IN
    /\ pc[c] # "done" => result[c] = "none"
    /\ pc[c] \in {"idle", "reading"} => Copies(c) = 0
    /\ pc[c] = "sending" => Copies(c) <= IF rust THEN tries[c] ELSE 0
    /\ pc[c] = "done" =>
          /\ Copies(c) <= IF rust THEN tries[c] + 1 ELSE 1
          /\ result[c] # "none"
          /\ result[c] = "ok" => landings[c] >= 1
          /\ result[c] \notin {"ok"} \cup Unsure(c) => Copies(c) = 0

CallInv == \A c \in Calls : CallOK(c)

\* A transaction of the call may still land.
Live(c) == pc[c] = "sending" \/ inflight[c] > 0

\* What a call that goes on has asked for: of a transfer, an amount, for another
\* account than its own.
RequestInv ==
    \A c \in Calls :
        (pc[c] = "reading" \/ Live(c)) /\ req[c].op = "transfer" =>
            req[c].amt >= 1 /\ req[c].acct # req[c].to

\* A signed apply that was not overtaken by another call of the owner: every
\* credit since it read the account shows in the counter.
SignedInv ==
    \A c \in Calls :
        Live(c) /\ req[c].op = "apply" /\ c \notin touched =>
            LET a == req[c].acct IN
            /\ counter[a] >= signed[c].counter
            /\ counter[a] = signed[c].counter
                 => signed[c].dec = decryptable[a] + Join(pending[a])

\* A spend stores as decryptable balance what its proof says is left.
SpendInv ==
    \A c \in Calls :
        Live(c) /\ req[c].op \in {"transfer", "withdraw"} => signed[c].dec = signed[c].left

\* The opening of a transfer is on chain once it landed, and was not when it was
\* signed; an account that was configured stays so.
OnceInv ==
    \A c \in Calls :
        /\ \A a \in Accounts :
              c \in available[a].rnd \/ c \in pending[a].rnd => landings[c] > 0
        /\ Live(c) => c \notin signed[c].ct.rnd
        /\ landings[c] > 0 /\ req[c].op = "transfer" => c \in available[req[c].acct].rnd
        /\ landings[c] > 0 /\ req[c].op = "configure" => status[req[c].acct] = "configured"
        /\ req[c].op \notin Repeatable => landings[c] <= 1

LedgerInv ==
    TypeOK /\ CallInv /\ RequestInv /\ SignedInv /\ SpendInv /\ OnceInv /\ AgreesUnlessRaced

-----------------------------------------------------------------------------
(* What a landing does.                                                    *)

LEMMA SplitType ==
    ASSUME NEW x \in Nat
    PROVE  Split(x).lo \in Nat /\ Split(x).hi \in Nat
  <1>1. LoBase \in Nat \ {0}
    BY BaseAssumption
  <1>2. x % LoBase \in Nat /\ x \div LoBase \in Nat
    BY <1>1
  <1>3. QED
    BY <1>2 DEF Split

LEMMA SignedType ==
    ASSUME TypeOK, NEW c \in Calls
    PROVE  /\ signed[c].ct \in Ciphertext /\ signed[c].counter \in Nat
           /\ signed[c].dec \in Nat /\ signed[c].left \in Nat
           /\ tries[c] \in 0..Retries /\ landings[c] \in Nat /\ inflight[c] \in Nat
  BY DEF TypeOK

\* A credit keeps the types.
LEMMA CreditType ==
    ASSUME TypeOK, NEW a \in Accounts, NEW amt \in Nat, NEW rnd \in SUBSET Opening,
           Credit(a, amt, rnd)
    PROVE  /\ pending' \in [Accounts -> [lo: Nat, hi: Nat, rnd: SUBSET Opening]]
           /\ counter' \in [Accounts -> Nat]
  <1>1. /\ pending[a].lo + Split(amt).lo \in Nat /\ pending[a].hi + Split(amt).hi \in Nat
        /\ pending[a].rnd \cup rnd \in SUBSET Opening
        /\ counter[a] + 1 \in Nat
    BY SplitType, AccountType
  <1>2. QED
    BY <1>1 DEF Credit, TypeOK

\* What a spend takes from is what its proof was made for.
LEMMA SpendLeaves ==
    ASSUME TypeOK, NEW c \in Calls, SpendProofHolds(c)
    PROVE  available[req[c].acct].val - req[c].amt = signed[c].left
  BY AccountType, RequestType, SignedType DEF SpendProofHolds, Ciphertext

\* A spend keeps the types.
LEMMA DebitType ==
    ASSUME TypeOK, NEW c \in Calls, SpendProofHolds(c), NEW rnd \in SUBSET Opening, Debit(c, rnd)
    PROVE  /\ available' \in [Accounts -> Ciphertext] /\ decryptable' \in [Accounts -> Nat]
           /\ touched' \subseteq Calls /\ drifted' \subseteq Accounts
  <1> DEFINE a == req[c].acct
  <1>1. a \in Accounts /\ signed[c].dec \in Nat /\ signed[c].left \in Nat
    BY RequestType, SignedType
  <1>2. available[a].val - req[c].amt \in Nat /\ available[a].rnd \cup rnd \in SUBSET Opening
    BY <1>1, SpendLeaves, AccountType DEF Ciphertext
  <1>3. available' = [available EXCEPT ![a] =
                        [val |-> available[a].val - req[c].amt, rnd |-> available[a].rnd \cup rnd]]
    BY DEF Debit
  <1>4. available' \in [Accounts -> Ciphertext]
    BY <1>1, <1>2, <1>3 DEF TypeOK, Ciphertext
  <1>5. QED
    BY <1>1, <1>4 DEF Debit, TouchedBy, TypeOK

LEMMA LandType ==
    ASSUME TypeOK, NEW c \in Calls, Land(c)
    PROVE  /\ status' \in [Accounts -> {"missing", "plain", "configured"}]
           /\ approved' \in [Accounts -> BOOLEAN] /\ allow' \in [Accounts -> BOOLEAN]
           /\ public' \in [Accounts -> Nat]
           /\ pending' \in [Accounts -> [lo: Nat, hi: Nat, rnd: SUBSET Opening]]
           /\ counter' \in [Accounts -> Nat]
           /\ available' \in [Accounts -> Ciphertext] /\ decryptable' \in [Accounts -> Nat]
           /\ touched' \subseteq Calls /\ drifted' \subseteq Accounts
           /\ landings' \in [Calls -> Nat]
           /\ landings' = [landings EXCEPT ![c] = landings[c] + 1]
  <1> DEFINE a == req[c].acct
  <1>0. /\ a \in Accounts /\ req[c].to \in Accounts /\ req[c].amt \in Nat
        /\ signed[c].dec \in Nat
        /\ {c} \subseteq Opening
    BY RequestType, SignedType DEF Opening
  <1>1. landings' = [landings EXCEPT ![c] = landings[c] + 1] /\ landings' \in [Calls -> Nat]
    BY SignedType DEF Land, TypeOK
  <1>2. CASE LandConfigure(c)
    BY <1>0, <1>1, <1>2, FlagAssumption DEF LandConfigure, TypeOK
  <1>3. CASE LandDeposit(c)
    <2>1. public[a] - req[c].amt \in Nat
      BY <1>0, <1>3, AccountType DEF LandDeposit, Accepts
    <2>2. public' \in [Accounts -> Nat]
      BY <1>0, <1>3, <2>1 DEF LandDeposit, TypeOK
    <2>3. Credit(a, req[c].amt, {})
      BY <1>3 DEF LandDeposit
    <2>4. QED
      BY <1>0, <1>1, <1>3, <2>2, <2>3, CreditType DEF LandDeposit, TypeOK
  <1>4. CASE LandApply(c)
    <2>1. /\ available[a].val + Join(pending[a]) \in Nat
          /\ available[a].rnd \cup pending[a].rnd \in SUBSET Opening
      BY <1>0, AccountType, JoinType DEF Ciphertext
    <2>2. available' \in [Accounts -> Ciphertext]
      BY <1>0, <1>4, <2>1 DEF LandApply, TypeOK, Ciphertext
    <2>3. pending' \in [Accounts -> [lo: Nat, hi: Nat, rnd: SUBSET Opening]]
      BY <1>0, <1>4 DEF LandApply, TypeOK, NoPending
    <2>4. counter' \in [Accounts -> Nat] /\ decryptable' \in [Accounts -> Nat]
      BY <1>0, <1>4 DEF LandApply, TypeOK
    <2>5. touched' \subseteq Calls /\ drifted' \subseteq Accounts
      BY <1>0, <1>4 DEF LandApply, TypeOK, TouchedBy
    <2>6. QED
      BY <1>1, <1>4, <2>2, <2>3, <2>4, <2>5 DEF LandApply, TypeOK
  <1>5. CASE LandTransfer(c)
    <2>1. SpendProofHolds(c) /\ Debit(c, {c})
          /\ Credit(req[c].to, req[c].amt, {c})
      BY <1>5 DEF LandTransfer, Accepts
    <2>2. /\ pending' \in [Accounts -> [lo: Nat, hi: Nat, rnd: SUBSET Opening]]
          /\ counter' \in [Accounts -> Nat]
      BY <1>0, <2>1, CreditType
    <2>3. /\ available' \in [Accounts -> Ciphertext] /\ decryptable' \in [Accounts -> Nat]
          /\ touched' \subseteq Calls /\ drifted' \subseteq Accounts
      BY <1>0, <2>1, DebitType
    <2>4. QED
      BY <1>1, <1>5, <2>2, <2>3 DEF LandTransfer, TypeOK
  <1>6. CASE LandWithdraw(c)
    <2>1. SpendProofHolds(c) /\ Debit(c, {})
      BY <1>6 DEF LandWithdraw, Accepts
    <2>2. public[a] + req[c].amt \in Nat
      BY <1>0, AccountType
    <2>3. public' \in [Accounts -> Nat]
      BY <1>0, <1>6, <2>2 DEF LandWithdraw, TypeOK
    <2>4. QED
      BY <1>0, <1>1, <1>6, <2>1, <2>3, DebitType DEF LandWithdraw, TypeOK
  <1>7. QED
    BY <1>2, <1>3, <1>4, <1>5, <1>6 DEF Land

\* A landing of c either leaves what another owner's call d was computed from,
\* or shows in the counter; another call of the same owner is noted in touched.
LEMMA LandSeenByOthers ==
    ASSUME TypeOK, NEW c \in Calls, Land(c), NEW d \in Calls, d # c, d \notin touched'
    PROVE  LET a == req[d].acct IN
           /\ d \notin touched
           /\ decryptable'[a] = decryptable[a]
           /\ \/ counter'[a] = counter[a] /\ pending'[a] = pending[a]
              \/ counter'[a] = counter[a] + 1
  <1>0. req[c].acct \in Accounts /\ req[c].to \in Accounts /\ req[d].acct \in Accounts
    BY RequestType
  <1>1. CASE LandConfigure(c)
    BY <1>1 DEF LandConfigure
  <1>2. CASE LandDeposit(c)
    BY <1>0, <1>2 DEF LandDeposit, Credit, TypeOK
  <1>3. CASE LandApply(c)
    BY <1>0, <1>3 DEF LandApply, TouchedBy, TypeOK
  <1>4. CASE LandTransfer(c)
    BY <1>0, <1>4 DEF LandTransfer, Debit, Credit, TouchedBy, TypeOK
  <1>5. CASE LandWithdraw(c)
    BY <1>0, <1>5 DEF LandWithdraw, Debit, TouchedBy, TypeOK
  <1>6. QED
    BY <1>1, <1>2, <1>3, <1>4, <1>5 DEF Land

\* A landing keeps the two balances in agreement, or notes the drift.
LEMMA LandAgrees ==
    ASSUME TypeOK, SignedInv, SpendInv, AgreesUnlessRaced, NEW c \in Calls, Live(c), Land(c)
    PROVE  AgreesUnlessRaced'
  <1> DEFINE a == req[c].acct
  <1>0. a \in Accounts /\ req[c].to \in Accounts /\ signed[c].dec \in Nat
    BY RequestType, SignedType
  <1>1. CASE LandConfigure(c) \/ LandDeposit(c)
    BY <1>1 DEF LandConfigure, LandDeposit, AgreesUnlessRaced
  <1>2. CASE LandApply(c)
    <2>1. SUFFICES ASSUME NEW b \in Accounts, b \notin drifted'
                   PROVE  decryptable'[b] = available'[b].val
      BY DEF AgreesUnlessRaced
    <2>2. b \notin drifted
      BY <1>2, <2>1 DEF LandApply
    <2>3. CASE b # a
      BY <1>0, <1>2, <2>2, <2>3 DEF LandApply, AgreesUnlessRaced, TypeOK
    <2>4. CASE b = a
      <3>1. signed[c].counter = counter[a] /\ c \notin touched
        BY <1>2, <2>1, <2>4 DEF LandApply
      <3>2. signed[c].dec = decryptable[a] + Join(pending[a])
        BY <1>2, <3>1 DEF SignedInv, LandApply
      <3>3. decryptable[a] = available[a].val
        BY <1>0, <2>2, <2>4 DEF AgreesUnlessRaced
      <3>4. /\ decryptable'[a] = signed[c].dec
            /\ available'[a].val = available[a].val + Join(pending[a])
        BY <1>0, <1>2 DEF LandApply, TypeOK
      <3>5. QED
        BY <2>4, <3>2, <3>3, <3>4
    <2>5. QED
      BY <2>3, <2>4
  <1>3. ASSUME SpendProofHolds(c), NEW rnd, Debit(c, rnd), req[c].op \in {"transfer", "withdraw"}
        PROVE  AgreesUnlessRaced'
    <2>1. /\ decryptable' = [decryptable EXCEPT ![a] = signed[c].dec]
          /\ available' = [available EXCEPT ![a] =
                [val |-> available[a].val - req[c].amt, rnd |-> available[a].rnd \cup rnd]]
          /\ drifted' = drifted \ {a}
      BY <1>3 DEF Debit
    <2>2. decryptable'[a] = available'[a].val
      BY <1>0, <1>3, <2>1, SpendLeaves DEF TypeOK, SpendInv
    <2>3. ASSUME NEW b \in Accounts, b # a, b \notin drifted'
          PROVE  decryptable'[b] = available'[b].val
      BY <1>0, <2>1, <2>3 DEF AgreesUnlessRaced, TypeOK
    <2>4. QED
      BY <2>2, <2>3 DEF AgreesUnlessRaced
  <1>4. CASE LandTransfer(c)
    BY <1>3, <1>4 DEF LandTransfer, Accepts
  <1>5. CASE LandWithdraw(c)
    BY <1>3, <1>5 DEF LandWithdraw, Accepts
  <1>6. QED
    BY <1>1, <1>2, <1>4, <1>5 DEF Land

-----------------------------------------------------------------------------
(* Types.                                                                  *)

\* What a call signs is typed: a spend is checked against the balance first.
LEMMA SignType ==
    ASSUME TypeOK, NEW c \in Calls, Pass(Checks(c, "match"))
    PROVE  Sign(c) \in [ct: Ciphertext, left: Nat, dec: Nat, counter: Nat]
  <1> DEFINE a == req[c].acct
  <1>0. a \in Accounts /\ req[c].amt \in Nat
    BY RequestType
  <1>1. available[a] \in Ciphertext /\ counter[a] \in Nat
    BY <1>0, AccountType
  <1>2. decryptable[a] + Join(pending[a]) \in Nat
    BY <1>0, AccountType, JoinType
  <1>3. req[c].op \in {"transfer", "withdraw"} => decryptable[a] - req[c].amt \in Nat
    BY <1>0, AccountType, FundsSuffice
  <1>4. Sign(c).dec \in Nat /\ Sign(c).left \in Nat
    BY <1>2, <1>3 DEF Sign, LeftBy, DecryptBalance
  <1>5. QED
    BY <1>1, <1>4 DEF Sign

LEMMA TypeInit == Init => TypeOK
  <1> SUFFICES ASSUME Init PROVE TypeOK
    OBVIOUS
  <1>1. NoRequest \in [op: Operation \cup {"none"}, acct: Accounts, to: Accounts, amt: Nat]
    BY AccountsAssumption DEF NoRequest
  <1>2. NoPending \in [lo: Nat, hi: Nat, rnd: SUBSET Opening]
    BY DEF NoPending
  <1>3. Unsigned \in [ct: Ciphertext, left: Nat, dec: Nat, counter: Nat]
    BY DEF Unsigned, Ciphertext
  <1>4. [a \in Accounts |-> [val |-> InitAvailable[a], rnd |-> {}]] \in [Accounts -> Ciphertext]
    BY InitAssumption DEF Ciphertext
  <1>5. 0 \in 0..Retries
    BY RetryAssumption
  <1>6. QED
    BY <1>1, <1>2, <1>3, <1>4, <1>5, InitAssumption DEF Init, TypeOK, Results

LEMMA ReturnType ==
    ASSUME TypeOK, NEW c \in Calls, NEW code \in Results, Return(c, code)
    PROVE  /\ pc' \in [Calls -> {"idle", "reading", "sending", "done"}]
           /\ result' \in [Calls -> Results]
  BY DEF Return, TypeOK

LEMMA ArgumentErrorType ==
    ASSUME NEW op, NEW a, NEW amt
    PROVE  ArgumentError(op, a, amt) \in ErrorCodes \cup {"none"}
  BY DEF ArgumentError, ErrorCodes

\* The error of a failed check.
LEMMA ReadFailsCode ==
    ASSUME TypeOK, NEW c \in Calls, ReadFails(c)
    PROVE  \E code \in ErrorCodes : Return(c, code)
  <1>1. PICK keys \in Keys : \E i \in DOMAIN Checks(c, keys) : Return(c, Checks(c, keys)[i].code)
    BY DEF ReadFails, Keys
  <1>2. PICK i \in DOMAIN Checks(c, keys) : Return(c, Checks(c, keys)[i].code)
    BY <1>1
  <1>3. Checks(c, keys)[i] \in Check
    BY ChecksType
  <1>4. QED
    BY <1>2, <1>3 DEF Check

LEMMA TypeNext == TypeOK /\ [Next]_vars => TypeOK'
  <1> SUFFICES ASSUME TypeOK, [Next]_vars PROVE TypeOK'
    OBVIOUS
  <1>1. ASSUME NEW c \in Calls, Begin(c) PROVE TypeOK'
    <2>1. PICK op \in Ops, a \in Accounts, to \in Accounts, amt \in Amounts :
             /\ req' = [req EXCEPT ![c] = [op |-> op, acct |-> a, to |-> to, amt |-> amt]]
             /\ IF ArgumentError(op, a, amt) = "none"
                THEN pc' = [pc EXCEPT ![c] = "reading"] /\ UNCHANGED result
                ELSE Return(c, ArgumentError(op, a, amt))
      BY <1>1 DEF Begin
    <2>2. [op |-> op, acct |-> a, to |-> to, amt |-> amt]
             \in [op: Operation \cup {"none"}, acct: Accounts, to: Accounts, amt: Nat]
      BY AmountAssumption
    <2>3. req' \in [Calls -> [op: Operation \cup {"none"}, acct: Accounts, to: Accounts, amt: Nat]]
      BY <2>1, <2>2 DEF TypeOK
    <2>4. /\ pc' \in [Calls -> {"idle", "reading", "sending", "done"}]
          /\ result' \in [Calls -> Results]
      <3>1. CASE ArgumentError(op, a, amt) = "none"
        BY <2>1, <3>1 DEF TypeOK
      <3>2. CASE ArgumentError(op, a, amt) # "none"
        BY <2>1, <3>2, ReturnType, ArgumentErrorType DEF Results
      <3>3. QED
        BY <3>1, <3>2
    <2>5. QED
      BY <1>1, <2>3, <2>4 DEF Begin, TypeOK, chainVars, histVars
  <1>2. ASSUME NEW c \in Calls, Read(c) PROVE TypeOK'
    <2>1. signed' \in [Calls -> [ct: Ciphertext, left: Nat, dec: Nat, counter: Nat]]
      BY <1>2, SignType DEF Read, TypeOK
    <2>2. pc' \in [Calls -> {"idle", "reading", "sending", "done"}] /\ touched' \subseteq Calls
      BY <1>2 DEF Read, TypeOK
    <2>3. QED
      BY <1>2, <2>1, <2>2 DEF Read, TypeOK, chainVars
  <1>3. ASSUME NEW c \in Calls, ReadFails(c) PROVE TypeOK'
    BY <1>3, ReadFailsCode, ReturnType DEF Results, ReadFails, TypeOK, chainVars, histVars
  <1>4. ASSUME NEW c \in Calls, ReadUnanswered(c) PROVE TypeOK'
    BY <1>4, ReturnType DEF Results, ReadUnanswered, TypeOK, chainVars, histVars
  <1>5. ASSUME NEW c \in Calls, Confirm(c) PROVE TypeOK'
    <2>1. /\ pc' \in [Calls -> {"idle", "reading", "sending", "done"}]
          /\ result' \in [Calls -> Results]
      BY <1>5, ReturnType DEF Results, Confirm
    <2>2. Land(c)
      BY <1>5 DEF Confirm
    <2>3. QED
      BY <1>5, <2>1, <2>2, LandType DEF Confirm, TypeOK
  <1>6. ASSUME NEW c \in Calls, Fail(c) PROVE TypeOK'
    BY <1>6, ReturnType DEF Results, Fail, TypeOK, chainVars, histVars
  <1>i. ASSUME NEW c \in Calls, LeaveBehind(c) PROVE inflight' \in [Calls -> Nat]
    BY <1>i, SignedType DEF LeaveBehind, TypeOK
  <1>7. ASSUME NEW c \in Calls, LoseTrack(c) PROVE TypeOK'
    <2>1. NoAnswer(c) \in Results
      BY DEF NoAnswer, Results
    <2>2. QED
      BY <1>7, <1>i, <2>1, ReturnType DEF LoseTrack, TypeOK, chainVars, histVars
  <1>8. ASSUME NEW c \in Calls, Expire(c) PROVE TypeOK'
    <2>0. inflight' \in [Calls -> Nat]
      BY <1>8, <1>i DEF Expire, TypeOK
    <2>1. CASE tries[c] < Retries
      <3>1. tries[c] + 1 \in 0..Retries
        BY <2>1, SignedType, RetryAssumption
      <3>2. /\ pc' \in [Calls -> {"idle", "reading", "sending", "done"}]
            /\ tries' \in [Calls -> 0..Retries] /\ result' = result
        <4>1. /\ \E next \in {"sending", "reading"} : pc' = [pc EXCEPT ![c] = next]
              /\ tries' = [tries EXCEPT ![c] = tries[c] + 1] /\ result' = result
          BY <1>8, <2>1 DEF Expire
        <4>2. QED
          BY <3>1, <4>1 DEF TypeOK
      <3>3. QED
        BY <1>8, <2>0, <3>2 DEF Expire, TypeOK, chainVars, histVars
    <2>2. CASE ~(tries[c] < Retries)
      BY <1>8, <2>0, <2>2, ReturnType DEF Results, Expire, TypeOK, chainVars, histVars
    <2>3. QED
      BY <2>1, <2>2
  <1>9. ASSUME NEW c \in Calls, LandLate(c) PROVE TypeOK'
    <2>1. Land(c) /\ inflight' \in [Calls -> Nat]
      <3>1. inflight[c] - 1 \in Nat
        BY <1>9, SignedType DEF LandLate
      <3>2. QED
        BY <1>9, <3>1 DEF LandLate, TypeOK
    <2>2. QED
      BY <1>9, <2>1, LandType DEF LandLate, TypeOK
  <1>10. ASSUME NEW a \in Accounts, Approve(a) \/ ToggleCredits(a) PROVE TypeOK'
    BY <1>10 DEF Approve, ToggleCredits, TypeOK, callVars, histVars
  <1>11. CASE UNCHANGED vars
    BY <1>11 DEF TypeOK, vars, chainVars, callVars, histVars
  <1>12. QED
    BY <1>1, <1>2, <1>3, <1>4, <1>5, <1>6, <1>7, <1>8, <1>9, <1>10, <1>11 DEF Next, CallStep

\* Types: no balance of an account ever goes below zero, whatever calls run at
\* the same time.
THEOREM TypeCorrect == Spec => []TypeOK
  <1>1. Init => TypeOK
    BY TypeInit
  <1>2. TypeOK /\ [Next]_vars => TypeOK'
    BY TypeNext
  <1>3. QED
    BY <1>1, <1>2, PTL DEF Spec

-----------------------------------------------------------------------------
(* What each call has done and answered.                                   *)

\* A step of the call c leaves the other calls as they are.
OthersSame(c) ==
    \A d \in Calls \ {c} :
        /\ pc'[d] = pc[d] /\ result'[d] = result[d] /\ req'[d] = req[d]
        /\ tries'[d] = tries[d] /\ landings'[d] = landings[d] /\ inflight'[d] = inflight[d]

LEMMA OneCall ==
    ASSUME CallInv, NEW c \in Calls, OthersSame(c), CallOK(c)'
    PROVE  CallInv'
  <1>1. ASSUME NEW d \in Calls, d # c PROVE CallOK(d)'
    BY <1>1 DEF OthersSame, CallInv, CallOK, Copies, Unsure, NoAnswer
  <1>2. QED
    BY <1>1 DEF CallInv

\* What is known of a call that reads, and of one that waits.
LEMMA CallFacts ==
    ASSUME TypeOK, CallInv, NEW c \in Calls
    PROVE  /\ landings[c] \in Nat /\ inflight[c] \in Nat /\ tries[c] \in Nat
           /\ pc[c] \in {"idle", "reading", "sending", "done"}
           /\ pc[c] \in {"idle", "reading"} => landings[c] = 0 /\ inflight[c] = 0
           /\ pc[c] = "sending" /\ ClientOf[req[c].acct] = "rust" =>
                 landings[c] + inflight[c] <= tries[c]
           /\ pc[c] = "sending" /\ ClientOf[req[c].acct] # "rust" =>
                 landings[c] = 0 /\ inflight[c] = 0
  <1>1. /\ landings[c] \in Nat /\ inflight[c] \in Nat /\ tries[c] \in Nat
        /\ pc[c] \in {"idle", "reading", "sending", "done"}
    BY SignedType DEF TypeOK
  <1>2. CallOK(c)
    BY DEF CallInv
  <1>3. ASSUME NEW l \in Nat, NEW i \in Nat
        PROVE  (l + i = 0 => l = 0 /\ i = 0) /\ (l + i <= 0 => l = 0 /\ i = 0)
    OBVIOUS
  <1>4. QED
    BY <1>1, <1>2, <1>3 DEF CallOK, Copies

\* A call returns code with nothing landed or on its way.
LEMMA ReturnsClean ==
    ASSUME TypeOK, CallInv, NEW c \in Calls, NEW code, code \notin {"none", "ok"},
           pc' = [pc EXCEPT ![c] = "done"], result' = [result EXCEPT ![c] = code],
           \A d \in Calls \ {c} : req'[d] = req[d],
           UNCHANGED <<tries, inflight, landings>>, landings[c] = 0, inflight[c] = 0
    PROVE  CallInv'
  <1>1. OthersSame(c)
    BY DEF OthersSame, TypeOK
  <1>2. pc'[c] = "done" /\ result'[c] = code /\ landings'[c] = 0 /\ inflight'[c] = 0
        /\ tries'[c] \in Nat
    BY CallFacts DEF TypeOK
  <1>3. CallOK(c)'
    <2>1. Copies(c)' = 0
      BY <1>2 DEF Copies
    <2>2. 0 <= tries'[c] + 1
      BY <1>2
    <2>3. QED
      BY <1>2, <2>1, <2>2 DEF CallOK
  <1>4. QED
    BY <1>1, <1>3, OneCall

\* A call returns with an answer that leaves open what became of its transactions.
LEMMA ReturnsUnsure ==
    ASSUME TypeOK, CallInv, NEW c \in Calls, NEW code \in Unsure(c), pc[c] = "sending",
           pc' = [pc EXCEPT ![c] = "done"], result' = [result EXCEPT ![c] = code],
           LeaveBehind(c) \/ inflight' = inflight,
           UNCHANGED <<tries, req, landings>>
    PROVE  CallInv'
  <1>1. /\ inflight'[c] \in {inflight[c], inflight[c] + 1}
        /\ \A d \in Calls \ {c} : inflight'[d] = inflight[d]
    BY DEF LeaveBehind, TypeOK
  <1>2. OthersSame(c)
    BY <1>1 DEF OthersSame, TypeOK
  <1>3. pc'[c] = "done" /\ result'[c] = code
    BY DEF TypeOK
  <1>4. code \notin {"none", "ok"}
    BY DEF Unsure, NoAnswer
  <1>5. Unsure(c)' = Unsure(c)
    BY DEF Unsure, NoAnswer
  <1>6. Copies(c)' <= IF ClientOf[req[c].acct] = "rust" THEN tries[c] + 1 ELSE 1
    <2> DEFINE l == landings[c]
               i == inflight[c]
               j == inflight'[c]
               n == tries[c]
    <2>1. l \in Nat /\ i \in Nat /\ n \in Nat /\ j \in {i, i + 1}
      BY <1>1, CallFacts
    <2>2. /\ ClientOf[req[c].acct] = "rust" => l + i <= n
          /\ ClientOf[req[c].acct] # "rust" => l = 0 /\ i = 0
      BY CallFacts
    <2>3. Copies(c)' = l + j
      BY DEF Copies
    <2> HIDE DEF l, i, j, n
    <2>4. QED
      BY <2>1, <2>2, <2>3 DEF n
  <1>7. CallOK(c)'
    BY <1>3, <1>4, <1>5, <1>6 DEF CallOK
  <1>8. QED
    BY <1>2, <1>7, OneCall

LEMMA CallInvNext == TypeOK /\ CallInv /\ [Next]_vars => CallInv'
  <1> SUFFICES ASSUME TypeOK, CallInv, [Next]_vars PROVE CallInv'
    OBVIOUS
  <1>1. ASSUME NEW c \in Calls, Begin(c) PROVE CallInv'
    <2>1. PICK op \in Ops, a \in Accounts, to \in Accounts, amt \in Amounts :
             /\ req' = [req EXCEPT ![c] = [op |-> op, acct |-> a, to |-> to, amt |-> amt]]
             /\ IF ArgumentError(op, a, amt) = "none"
                THEN pc' = [pc EXCEPT ![c] = "reading"] /\ UNCHANGED result
                ELSE Return(c, ArgumentError(op, a, amt))
      BY <1>1 DEF Begin
    <2>2. pc[c] = "idle" /\ UNCHANGED <<tries, landings, inflight>>
      BY <1>1 DEF Begin, histVars
    <2>3. landings[c] = 0 /\ inflight[c] = 0 /\ result[c] = "none"
      BY <2>2, CallFacts DEF CallInv, CallOK
    <2>4. \A d \in Calls \ {c} : req'[d] = req[d]
      BY <2>1 DEF TypeOK
    <2>5. CASE ArgumentError(op, a, amt) = "none"
      <3>1. pc' = [pc EXCEPT ![c] = "reading"] /\ result' = result
        BY <2>1, <2>5
      <3>2. OthersSame(c)
        BY <2>2, <2>4, <3>1 DEF OthersSame, TypeOK
      <3>3. CallOK(c)'
        BY <2>2, <2>3, <3>1 DEF CallOK, Copies, TypeOK
      <3>4. QED
        BY <3>2, <3>3, OneCall
    <2>6. CASE ArgumentError(op, a, amt) # "none"
      <3>1. ArgumentError(op, a, amt) \notin {"none", "ok"}
        BY <2>6, ArgumentErrorType DEF ErrorCodes
      <3>2. QED
        BY <2>1, <2>2, <2>3, <2>4, <2>6, <3>1, ReturnsClean DEF Return
    <2>7. QED
      BY <2>5, <2>6
  <1>2. ASSUME NEW c \in Calls, Read(c) PROVE CallInv'
    <2>1. /\ pc[c] = "reading" /\ pc' = [pc EXCEPT ![c] = "sending"]
          /\ UNCHANGED <<req, result, tries, inflight, landings>>
      BY <1>2 DEF Read
    <2>2. OthersSame(c)
      BY <2>1 DEF OthersSame, TypeOK
    <2>3. landings[c] = 0 /\ inflight[c] = 0 /\ result[c] = "none" /\ tries[c] \in Nat
      BY <2>1, CallFacts DEF CallInv, CallOK
    <2>4. CallOK(c)'
      BY <2>1, <2>3 DEF CallOK, Copies, TypeOK
    <2>5. QED
      BY <2>2, <2>4, OneCall
  <1>3. ASSUME NEW c \in Calls, ReadFails(c) \/ ReadUnanswered(c) PROVE CallInv'
    <2>1. \E code \in ErrorCodes \cup {"RPC_ERROR"} : Return(c, code)
      BY <1>3, ReadFailsCode DEF ReadUnanswered
    <2>2. PICK code \in ErrorCodes \cup {"RPC_ERROR"} :
             pc' = [pc EXCEPT ![c] = "done"] /\ result' = [result EXCEPT ![c] = code]
      BY <2>1 DEF Return
    <2>3. pc[c] = "reading" /\ UNCHANGED <<req, tries, inflight, landings>>
      BY <1>3 DEF ReadFails, ReadUnanswered, histVars
    <2>4. landings[c] = 0 /\ inflight[c] = 0
      BY <2>3, CallFacts
    <2>5. code \notin {"none", "ok"}
      BY DEF ErrorCodes
    <2>6. QED
      BY <2>2, <2>3, <2>4, <2>5, ReturnsClean
  <1>4. ASSUME NEW c \in Calls, Fail(c) PROVE CallInv'
    <2>1. PICK code \in {"TRANSACTION_FAILED", "RPC_ERROR"} :
             pc' = [pc EXCEPT ![c] = "done"] /\ result' = [result EXCEPT ![c] = code]
      BY <1>4 DEF Fail, Return
    <2>2. pc[c] = "sending" /\ UNCHANGED <<req, tries, inflight, landings>>
      BY <1>4 DEF Fail, histVars
    <2>3. CASE code \in Unsure(c)
      BY <2>1, <2>2, <2>3, ReturnsUnsure
    <2>4. CASE code \notin Unsure(c)
      <3>1. ClientOf[req[c].acct] = "rust" => code = "TRANSACTION_FAILED" /\ ~(tries[c] > 0)
        BY <2>4 DEF Unsure, NoAnswer
      <3>2. ASSUME NEW l \in Nat, NEW i \in Nat, NEW n \in Nat, l + i <= n, ~(n > 0)
            PROVE  l = 0 /\ i = 0
        BY <3>2
      <3>3. landings[c] = 0 /\ inflight[c] = 0
        BY <2>2, <3>1, <3>2, CallFacts
      <3>4. QED
        BY <2>1, <2>2, <3>3, ReturnsClean
    <2>5. QED
      BY <2>3, <2>4
  <1>5. ASSUME NEW c \in Calls, LoseTrack(c) PROVE CallInv'
    <2>1. NoAnswer(c) \in Unsure(c)
      BY DEF Unsure
    <2>2. QED
      BY <1>5, <2>1, ReturnsUnsure DEF LoseTrack, Return, histVars
  <1>6. ASSUME NEW c \in Calls, Confirm(c) PROVE CallInv'
    <2>1. /\ pc[c] = "sending" /\ Land(c) /\ UNCHANGED <<req, tries, inflight>>
          /\ pc' = [pc EXCEPT ![c] = "done"] /\ result' = [result EXCEPT ![c] = "ok"]
      BY <1>6 DEF Confirm, Return
    <2>2. landings' = [landings EXCEPT ![c] = landings[c] + 1]
      BY <2>1, LandType
    <2>3. OthersSame(c)
      BY <2>1, <2>2 DEF OthersSame, TypeOK
    <2> DEFINE l == landings[c]
               i == inflight[c]
               n == tries[c]
    <2>4. l \in Nat /\ i \in Nat /\ n \in Nat
      BY CallFacts
    <2>5. /\ ClientOf[req[c].acct] = "rust" => l + i <= n
          /\ ClientOf[req[c].acct] # "rust" => l = 0 /\ i = 0
      BY <2>1, CallFacts
    <2>6. landings'[c] = l + 1 /\ Copies(c)' = (l + 1) + i
      BY <2>1, <2>2 DEF Copies, TypeOK
    <2>7. pc'[c] = "done" /\ result'[c] = "ok"
      BY <2>1 DEF TypeOK
    <2> HIDE DEF l, i, n
    <2>8. landings'[c] >= 1 /\ Copies(c)' <= IF ClientOf[req[c].acct] = "rust" THEN n + 1 ELSE 1
      BY <2>4, <2>5, <2>6
    <2>9. CallOK(c)'
      BY <2>1, <2>7, <2>8 DEF CallOK, n
    <2>10. QED
      BY <2>3, <2>9, OneCall
  <1>7. ASSUME NEW c \in Calls, Expire(c) PROVE CallInv'
    <2>0. /\ pc[c] = "sending" /\ UNCHANGED <<req, landings>>
          /\ IF ClientOf[req[c].acct] = "rust" THEN LeaveBehind(c) ELSE UNCHANGED inflight
      BY <1>7 DEF Expire, histVars
    <2>1. CASE tries[c] < Retries
      <3>1. /\ pc' = [pc EXCEPT ![c] = IF ClientOf[req[c].acct] = "rust"
                                       THEN "sending" ELSE "reading"]
            /\ tries' = [tries EXCEPT ![c] = tries[c] + 1] /\ result' = result
        BY <1>7, <2>1 DEF Expire
      <3>2. OthersSame(c)
        BY <2>0, <3>1 DEF OthersSame, LeaveBehind, TypeOK
      <3>3. result'[c] = "none"
        BY <2>0, <3>1 DEF CallInv, CallOK
      <3>4. CASE ClientOf[req[c].acct] = "rust"
        <4> DEFINE l == landings[c]
                   i == inflight[c]
                   n == tries[c]
        <4>1. l \in Nat /\ i \in Nat /\ n \in Nat /\ l + i <= n
          BY <2>0, <3>4, CallFacts
        <4>2. Copies(c)' = l + (i + 1) /\ tries'[c] = n + 1
          BY <2>0, <3>1, <3>4 DEF Copies, LeaveBehind, TypeOK
        <4>3. pc'[c] = "sending"
          BY <3>1, <3>4 DEF TypeOK
        <4> HIDE DEF l, i, n
        <4>4. Copies(c)' <= tries'[c]
          BY <4>1, <4>2
        <4>5. QED
          BY <2>0, <3>2, <3>3, <3>4, <4>3, <4>4, OneCall DEF CallOK
      <3>5. CASE ClientOf[req[c].acct] # "rust"
        <4>1. pc'[c] = "reading" /\ landings'[c] = 0 /\ inflight'[c] = 0
          BY <2>0, <3>1, <3>5, CallFacts DEF TypeOK
        <4>2. CallOK(c)'
          BY <3>3, <4>1 DEF CallOK, Copies
        <4>3. QED
          BY <3>2, <4>2, OneCall
      <3>6. QED
        BY <3>4, <3>5
    <2>2. CASE ~(tries[c] < Retries)
      <3>1. /\ pc' = [pc EXCEPT ![c] = "done"]
            /\ result' = [result EXCEPT ![c] = "TRANSACTION_EXPIRED"] /\ tries' = tries
        BY <1>7, <2>2 DEF Expire, Return
      <3>2. CASE ClientOf[req[c].acct] = "rust"
        <4>1. "TRANSACTION_EXPIRED" \in Unsure(c)
          BY <3>2 DEF Unsure
        <4>2. QED
          BY <2>0, <3>1, <3>2, <4>1, ReturnsUnsure
      <3>3. CASE ClientOf[req[c].acct] # "rust"
        <4>1. landings[c] = 0 /\ inflight[c] = 0
          BY <2>0, <3>3, CallFacts
        <4>2. QED
          BY <2>0, <3>1, <3>3, <4>1, ReturnsClean
      <3>4. QED
        BY <3>2, <3>3
    <2>3. QED
      BY <2>1, <2>2
  <1>8. ASSUME NEW c \in Calls, LandLate(c) PROVE CallInv'
    <2>1. /\ inflight[c] > 0 /\ Land(c) /\ inflight' = [inflight EXCEPT ![c] = inflight[c] - 1]
          /\ UNCHANGED <<pc, req, tries, result>>
      BY <1>8 DEF LandLate
    <2>2. landings' = [landings EXCEPT ![c] = landings[c] + 1]
      BY <2>1, LandType
    <2>3. OthersSame(c)
      BY <2>1, <2>2 DEF OthersSame, TypeOK
    <2> DEFINE l == landings[c]
               i == inflight[c]
    <2>4. l \in Nat /\ i \in Nat /\ i > 0
      BY <2>1, CallFacts
    <2>5. landings'[c] = l + 1 /\ Copies(c)' = (l + 1) + (i - 1) /\ Copies(c) = l + i
      BY <2>1, <2>2 DEF Copies, TypeOK
    <2>6. CallOK(c)
      BY DEF CallInv
    <2> HIDE DEF l, i
    <2>7. Copies(c)' = Copies(c) /\ landings'[c] >= 1
      BY <2>4, <2>5
    <2>8. Unsure(c)' = Unsure(c)
      BY <2>1 DEF Unsure, NoAnswer
    <2>9. CallOK(c)'
      BY <2>1, <2>6, <2>7, <2>8 DEF CallOK
    <2>10. QED
      BY <2>3, <2>9, OneCall
  <1>9. CASE UNCHANGED <<callVars, histVars>>
    BY <1>9 DEF CallInv, CallOK, Copies, Unsure, NoAnswer, callVars, histVars
  <1>10. (\E a \in Accounts : Approve(a) \/ ToggleCredits(a)) \/ UNCHANGED vars
            => UNCHANGED <<callVars, histVars>>
    BY DEF Approve, ToggleCredits, vars, callVars, histVars
  <1>11. QED
    BY <1>1, <1>2, <1>3, <1>4, <1>5, <1>6, <1>7, <1>8, <1>9, <1>10 DEF Next, CallStep

-----------------------------------------------------------------------------
(* What the calls asked for.                                               *)

LEMMA RequestInvNext == TypeOK /\ CallInv /\ RequestInv /\ [Next]_vars => RequestInv'
  <1> SUFFICES ASSUME TypeOK, CallInv, RequestInv, [Next]_vars PROVE RequestInv'
    OBVIOUS
  <1>t. TypeOK
    OBVIOUS
  <1>a. ASSUME \A d \in Calls :
                  /\ req'[d] = req[d]
                  /\ pc'[d] = "reading" \/ Live(d)' => pc[d] = "reading" \/ Live(d)
        PROVE  RequestInv'
    BY <1>a DEF RequestInv
  <1>1. ASSUME NEW c \in Calls, Begin(c) PROVE RequestInv'
    <2>1. PICK op \in Ops, a \in Accounts, to \in Accounts, amt \in Amounts :
             /\ IF op = "transfer" THEN to # a ELSE to = a
             /\ req' = [req EXCEPT ![c] = [op |-> op, acct |-> a, to |-> to, amt |-> amt]]
             /\ IF ArgumentError(op, a, amt) = "none"
                THEN pc' = [pc EXCEPT ![c] = "reading"] /\ UNCHANGED result
                ELSE Return(c, ArgumentError(op, a, amt))
      BY <1>1 DEF Begin
    <2>2. pc[c] = "idle" /\ inflight' = inflight
      BY <1>1 DEF Begin
    <2>3. amt \in Nat
      BY AmountAssumption
    <2>4. ASSUME NEW d \in Calls, pc'[d] = "reading" \/ Live(d)', req'[d].op = "transfer"
          PROVE  req'[d].amt >= 1 /\ req'[d].acct # req'[d].to
      <3>1. CASE d = c
        <4>1. ~(inflight'[c] > 0)
          BY <2>2, CallFacts
        <4>2. pc'[c] # "done"
          BY <2>4, <3>1, <4>1 DEF Live
        <4>3. ArgumentError(op, a, amt) = "none"
          BY <1>t, <2>1, <4>2 DEF Return, TypeOK
        <4>4. req'[c] = [op |-> op, acct |-> a, to |-> to, amt |-> amt]
          BY <1>t, <2>1 DEF TypeOK
        <4>5. op = "transfer" /\ a # to
          BY <2>1, <2>4, <3>1, <4>4
        <4>6. ~(amt <= 0)
          BY <4>3, <4>5 DEF ArgumentError
        <4>7. QED
          BY <2>3, <3>1, <4>4, <4>5, <4>6
      <3>2. CASE d # c
        <4>1. req'[d] = req[d] /\ pc'[d] = pc[d]
          BY <1>t, <2>1, <3>2 DEF Return, TypeOK
        <4>2. QED
          BY <2>2, <2>4, <4>1 DEF RequestInv, Live
      <3>3. QED
        BY <3>1, <3>2
    <2>5. QED
      BY <2>4 DEF RequestInv
  <1>2. ASSUME NEW c \in Calls, CallStep(c) PROVE RequestInv'
    <2>1. req' = req /\ pc[c] \in {"reading", "sending"}
      BY <1>2 DEF CallStep, Read, ReadFails, ReadUnanswered, Confirm, Fail, LoseTrack, Expire
    <2>2. \A d \in Calls \ {c} : pc'[d] = pc[d]
      BY <1>2, <1>t DEF CallStep, Read, ReadFails, ReadUnanswered, Confirm, Fail, LoseTrack, Expire,
                        Return, TypeOK
    <2>3. \A d \in Calls \ {c} : inflight'[d] = inflight[d]
      BY <1>2, <1>t DEF CallStep, Read, ReadFails, ReadUnanswered, Confirm, Fail, LoseTrack, Expire,
                        LeaveBehind, TypeOK
    <2>4. QED
      BY <1>a, <2>1, <2>2, <2>3 DEF Live
  <1>3. ASSUME NEW c \in Calls, LandLate(c) PROVE RequestInv'
    <2>1. /\ req' = req /\ pc' = pc /\ inflight[c] > 0
          /\ \A d \in Calls \ {c} : inflight'[d] = inflight[d]
      BY <1>3, <1>t DEF LandLate, TypeOK
    <2>2. QED
      BY <1>a, <2>1 DEF Live
  <1>4. ASSUME NEW a \in Accounts, Approve(a) \/ ToggleCredits(a) PROVE RequestInv'
    BY <1>4, <1>a DEF Approve, ToggleCredits, callVars, Live
  <1>5. CASE UNCHANGED vars
    BY <1>5, <1>a DEF vars, callVars, Live
  <1>6. QED
    BY <1>1, <1>2, <1>3, <1>4, <1>5 DEF Next

-----------------------------------------------------------------------------
(* What the calls signed, and what their landings leave.                   *)

\* A step that lands nothing and signs nothing.
Quiet ==
    /\ UNCHANGED <<status, pending, counter, available, decryptable, signed, histVars>>
    /\ \A d \in Calls : Live(d)' => Live(d) /\ req'[d] = req[d]
    /\ \A d \in Calls : req'[d] = req[d] \/ landings[d] = 0

SignedParts == SignedInv /\ SpendInv /\ OnceInv /\ AgreesUnlessRaced

LEMMA QuietKeeps ==
    ASSUME SignedParts, Quiet
    PROVE  SignedParts'
  <1> USE DEF Quiet, SignedParts, histVars
  <1>1. SignedInv'
    BY DEF SignedInv, Join
  <1>2. SpendInv'
    BY DEF SpendInv
  <1>3. OnceInv'
    <2> SUFFICES ASSUME NEW c \in Calls
                 PROVE  /\ \A a \in Accounts :
                              c \in available[a].rnd \/ c \in pending[a].rnd => landings[c] > 0
                        /\ Live(c)' => c \notin signed[c].ct.rnd
                        /\ landings[c] > 0 /\ req'[c].op = "transfer" =>
                              c \in available[req'[c].acct].rnd
                        /\ landings[c] > 0 /\ req'[c].op = "configure" =>
                              status[req'[c].acct] = "configured"
                        /\ req'[c].op \notin Repeatable => landings[c] <= 1
      BY DEF OnceInv
    <2>1. CASE req'[c] = req[c]
      BY <2>1 DEF OnceInv
    <2>2. CASE landings[c] = 0
      BY <2>2 DEF OnceInv
    <2>3. QED
      BY <2>1, <2>2
  <1>4. AgreesUnlessRaced'
    BY DEF AgreesUnlessRaced
  <1>5. QED
    BY <1>1, <1>2, <1>3, <1>4

\* A signed apply is judged by what it read; a spend and an apply that landed
\* touch every call of their owner, themselves included.
LEMMA LandKeepsSigned ==
    ASSUME TypeOK, SignedInv, NEW c \in Calls, Land(c), UNCHANGED <<req, signed>>,
           \A d \in Calls : Live(d)' => Live(d)
    PROVE  SignedInv'
  <1> SUFFICES ASSUME NEW d \in Calls, Live(d)', req[d].op = "apply", d \notin touched'
               PROVE  /\ counter'[req[d].acct] >= signed[d].counter
                      /\ counter'[req[d].acct] = signed[d].counter =>
                            signed[d].dec = decryptable'[req[d].acct] + Join(pending'[req[d].acct])
    BY DEF SignedInv, Join
  <1> DEFINE a == req[d].acct
  <1>1. d # c
    <2>1. SUFFICES ASSUME d = c PROVE FALSE
      OBVIOUS
    <2>2. LandApply(c)
      BY <2>1 DEF Land, LandConfigure, LandDeposit, LandTransfer, LandWithdraw
    <2>3. c \in touched'
      BY <2>2 DEF LandApply, TouchedBy
    <2>4. QED
      BY <2>1, <2>3
  <1>2. /\ d \notin touched /\ decryptable'[a] = decryptable[a]
        /\ \/ counter'[a] = counter[a] /\ pending'[a] = pending[a]
           \/ counter'[a] = counter[a] + 1
    BY <1>1, LandSeenByOthers
  <1>3. /\ counter[a] >= signed[d].counter
        /\ counter[a] = signed[d].counter => signed[d].dec = decryptable[a] + Join(pending[a])
    BY <1>2 DEF SignedInv
  <1>4. counter[a] \in Nat /\ signed[d].counter \in Nat
    BY RequestType, AccountType, SignedType
  <1>5. QED
    BY <1>2, <1>3, <1>4

\* A call whose operation cannot be repeated lands for the first time: Token-2022
\* configures an account once, and after a transfer the ciphertext its proof was
\* made for is gone.
LEMMA LandsOnce ==
    ASSUME TypeOK, OnceInv, NEW c \in Calls, Live(c), Land(c), req[c].op \notin Repeatable
    PROVE  landings[c] = 0
  <1>1. landings[c] \in Nat
    BY SignedType
  <1>2. CASE LandConfigure(c)
    <2>1. status[req[c].acct] # "configured" /\ req[c].op = "configure"
      BY <1>2 DEF LandConfigure, Accepts
    <2>2. ~(landings[c] > 0)
      BY <2>1 DEF OnceInv
    <2>3. QED
      BY <1>1, <2>2
  <1>3. CASE LandTransfer(c)
    <2>1. available[req[c].acct] = signed[c].ct /\ req[c].op = "transfer"
      BY <1>3 DEF LandTransfer, Accepts, SpendProofHolds
    <2>2. ~(landings[c] > 0)
      BY <2>1 DEF OnceInv
    <2>3. QED
      BY <1>1, <2>2
  <1>4. QED
    BY <1>2, <1>3 DEF Land, LandDeposit, LandApply, LandWithdraw, Repeatable

\* No opening leaves an account's balances, and only a transfer adds its own.
LEMMA LandOpenings ==
    ASSUME TypeOK, NEW c \in Calls, Land(c)
    PROVE  /\ \A a \in Accounts :
                 /\ available[a].rnd \subseteq available'[a].rnd
                 /\ available'[a].rnd \cup pending'[a].rnd
                       \subseteq available[a].rnd \cup pending[a].rnd \cup {c}
                 /\ status[a] = "configured" => status'[a] = "configured"
           /\ req[c].op = "transfer" => c \in available'[req[c].acct].rnd
           /\ req[c].op = "configure" => status'[req[c].acct] = "configured"
  <1>0. req[c].acct \in Accounts /\ req[c].to \in Accounts
    BY RequestType
  <1>1. CASE LandConfigure(c)
    BY <1>0, <1>1 DEF LandConfigure, TypeOK
  <1>2. CASE LandDeposit(c)
    BY <1>0, <1>2 DEF LandDeposit, Credit, TypeOK
  <1>3. CASE LandApply(c)
    BY <1>0, <1>3 DEF LandApply, NoPending, TypeOK
  <1>4. CASE LandTransfer(c)
    BY <1>0, <1>4 DEF LandTransfer, Debit, Credit, TypeOK
  <1>5. CASE LandWithdraw(c)
    BY <1>0, <1>5 DEF LandWithdraw, Debit, TypeOK
  <1>6. QED
    BY <1>1, <1>2, <1>3, <1>4, <1>5 DEF Land

LEMMA LandKeepsOnce ==
    ASSUME TypeOK, OnceInv, NEW c \in Calls, Live(c), Land(c), UNCHANGED <<req, signed>>,
           \A d \in Calls : Live(d)' => Live(d)
    PROVE  OnceInv'
  <1>1. landings' = [landings EXCEPT ![c] = landings[c] + 1]
    BY LandType
  <1>2. /\ landings[c] \in Nat /\ landings'[c] = landings[c] + 1
        /\ \A d \in Calls \ {c} : landings'[d] = landings[d]
    BY <1>1, SignedType DEF TypeOK
  <1> SUFFICES ASSUME NEW d \in Calls
               PROVE  /\ \A a \in Accounts :
                            d \in available'[a].rnd \/ d \in pending'[a].rnd => landings'[d] > 0
                      /\ Live(d)' => d \notin signed[d].ct.rnd
                      /\ landings'[d] > 0 /\ req[d].op = "transfer" =>
                            d \in available'[req[d].acct].rnd
                      /\ landings'[d] > 0 /\ req[d].op = "configure" =>
                            status'[req[d].acct] = "configured"
                      /\ req[d].op \notin Repeatable => landings'[d] <= 1
    BY DEF OnceInv
  <1>3. CASE d = c
    <2>1. landings'[c] > 0
      BY <1>2
    <2>2. c \notin signed[c].ct.rnd
      BY DEF OnceInv
    <2>3. req[c].op \notin Repeatable => landings'[c] <= 1
      BY <1>2, LandsOnce
    <2>4. QED
      BY <1>3, <2>1, <2>2, <2>3, LandOpenings
  <1>4. CASE d # c
    <2>1. landings'[d] = landings[d] /\ req[d].acct \in Accounts
      BY <1>2, <1>4, RequestType
    <2>2. QED
      BY <1>4, <2>1, LandOpenings DEF OnceInv
  <1>5. QED
    BY <1>3, <1>4

LEMMA LandKeeps ==
    ASSUME TypeOK, SignedParts, NEW c \in Calls, Live(c), Land(c), UNCHANGED <<req, signed>>,
           \A d \in Calls : Live(d)' => Live(d)
    PROVE  SignedParts'
  <1>1. SignedInv'
    BY LandKeepsSigned DEF SignedParts
  <1>2. SpendInv'
    BY DEF SpendInv, SignedParts
  <1>3. OnceInv'
    BY LandKeepsOnce DEF SignedParts
  <1>4. AgreesUnlessRaced'
    BY LandAgrees DEF SignedParts
  <1>5. QED
    BY <1>1, <1>2, <1>3, <1>4 DEF SignedParts

\* Read signs what agrees with the account as it is.
LEMMA ReadKeeps ==
    ASSUME TypeOK, CallInv, SignedParts, NEW c \in Calls, Read(c)
    PROVE  SignedParts'
  <1>1. /\ pc[c] = "reading" /\ pc' = [pc EXCEPT ![c] = "sending"]
        /\ signed' = [signed EXCEPT ![c] = Sign(c)]
        /\ touched' = touched \ {c}
        /\ UNCHANGED <<req, inflight, landings, drifted>>
        /\ UNCHANGED <<status, counter, decryptable, pending, available>>
    BY DEF Read, chainVars
  <1>2. /\ signed'[c] = Sign(c)
        /\ \A d \in Calls \ {c} : signed'[d] = signed[d] /\ (Live(d)' <=> Live(d))
    BY <1>1 DEF Live, TypeOK
  <1>3. SignedInv'
    <2> SUFFICES ASSUME NEW d \in Calls, Live(d)', req[d].op = "apply", d \notin touched'
                 PROVE  /\ counter[req[d].acct] >= signed'[d].counter
                        /\ counter[req[d].acct] = signed'[d].counter =>
                             signed'[d].dec = decryptable[req[d].acct] + Join(pending[req[d].acct])
      BY <1>1 DEF SignedInv, Join
    <2>1. CASE d = c
      <3>1. /\ Sign(c).counter = counter[req[c].acct]
            /\ Sign(c).dec = decryptable[req[c].acct] + Join(pending[req[c].acct])
        BY <2>1 DEF Sign, DecryptBalance
      <3>2. counter[req[c].acct] \in Nat
        BY RequestType, AccountType
      <3>3. QED
        BY <1>2, <2>1, <3>1, <3>2
    <2>2. CASE d # c
      <3>1. d \notin touched
        BY <1>1, <2>2
      <3>2. QED
        BY <1>2, <2>2, <3>1 DEF SignedInv, SignedParts
    <2>3. QED
      BY <2>1, <2>2
  <1>4. SpendInv'
    <2>1. req[c].op \in {"transfer", "withdraw"} => Sign(c).dec = Sign(c).left
      BY DEF Sign
    <2>2. QED
      BY <1>1, <1>2, <2>1 DEF SpendInv, SignedParts
  <1>5. OnceInv'
    <2>1. c \notin available[req[c].acct].rnd
      BY <1>1, CallFacts, RequestType DEF OnceInv, SignedParts
    <2>2. Sign(c).ct = available[req[c].acct]
      BY DEF Sign
    <2>3. \A d \in Calls : Live(d)' => d \notin signed'[d].ct.rnd
      BY <1>2, <2>1, <2>2 DEF OnceInv, SignedParts
    <2>4. QED
      BY <1>1, <2>3 DEF OnceInv, SignedParts
  <1>6. AgreesUnlessRaced'
    BY <1>1 DEF AgreesUnlessRaced, SignedParts
  <1>7. QED
    BY <1>3, <1>4, <1>5, <1>6 DEF SignedParts

LEMMA SignedPartsNext == TypeOK /\ CallInv /\ SignedParts /\ [Next]_vars => SignedParts'
  <1> SUFFICES ASSUME TypeOK, CallInv, SignedParts, [Next]_vars PROVE SignedParts'
    OBVIOUS
  <1>1. ASSUME NEW c \in Calls, Begin(c) PROVE SignedParts'
    <2>1. /\ pc[c] = "idle" /\ UNCHANGED <<chainVars, signed, inflight, histVars>>
          /\ \A d \in Calls \ {c} : req'[d] = req[d] /\ pc'[d] = pc[d]
          /\ pc'[c] \in {"reading", "done"}
      BY <1>1 DEF Begin, Return, TypeOK
    <2>2. landings[c] = 0 /\ ~(inflight[c] > 0)
      BY <2>1, CallFacts
    <2>3. Quiet
      BY <2>1, <2>2 DEF Quiet, Live, chainVars
    <2>4. QED
      BY <2>3, QuietKeeps
  <1>2. ASSUME NEW c \in Calls, Read(c) PROVE SignedParts'
    BY <1>2, ReadKeeps
  <1>3. ASSUME NEW c \in Calls,
               ReadFails(c) \/ ReadUnanswered(c) \/ Fail(c) \/ LoseTrack(c) \/ Expire(c)
        PROVE  SignedParts'
    <2>1. /\ UNCHANGED <<chainVars, req, signed, histVars>>
          /\ \A d \in Calls \ {c} : pc'[d] = pc[d] /\ inflight'[d] = inflight[d]
      BY <1>3 DEF ReadFails, ReadUnanswered, Fail, LoseTrack, Expire, LeaveBehind, Return, TypeOK
    <2>2. Live(c)' => Live(c)
      <3>1. CASE pc[c] = "sending"
        BY <3>1 DEF Live
      <3>2. CASE pc[c] # "sending"
        <4>1. pc'[c] = "done" /\ inflight' = inflight
          BY <1>3, <3>2 DEF ReadFails, ReadUnanswered, Fail, LoseTrack, Expire, Return, TypeOK
        <4>2. QED
          BY <4>1 DEF Live
      <3>3. QED
        BY <3>1, <3>2
    <2>3. Quiet
      BY <2>1, <2>2 DEF Quiet, Live, chainVars
    <2>4. QED
      BY <2>3, QuietKeeps
  <1>4. ASSUME NEW c \in Calls, Confirm(c) PROVE SignedParts'
    <2>1. /\ pc[c] = "sending" /\ Land(c) /\ UNCHANGED <<req, signed, inflight>>
          /\ pc' = [pc EXCEPT ![c] = "done"]
      BY <1>4 DEF Confirm, Return
    <2>2. Live(c) /\ \A d \in Calls : Live(d)' => Live(d)
      BY <2>1 DEF Live, TypeOK
    <2>3. QED
      BY <2>1, <2>2, LandKeeps
  <1>5. ASSUME NEW c \in Calls, LandLate(c) PROVE SignedParts'
    <2>1. /\ inflight[c] > 0 /\ Land(c) /\ UNCHANGED <<pc, req, signed>>
          /\ \A d \in Calls \ {c} : inflight'[d] = inflight[d]
      BY <1>5 DEF LandLate, TypeOK
    <2>2. Live(c) /\ \A d \in Calls : Live(d)' => Live(d)
      BY <2>1 DEF Live
    <2>3. QED
      BY <2>1, <2>2, LandKeeps
  <1>6. ASSUME (\E a \in Accounts : Approve(a) \/ ToggleCredits(a)) \/ UNCHANGED vars
        PROVE  SignedParts'
    <2>1. UNCHANGED <<status, pending, counter, available, decryptable, callVars, histVars>>
      BY <1>6 DEF Approve, ToggleCredits, vars, chainVars
    <2>2. Quiet
      BY <2>1 DEF Quiet, Live, callVars
    <2>3. QED
      BY <2>2, QuietKeeps
  <1>7. QED
    BY <1>1, <1>2, <1>3, <1>4, <1>5, <1>6 DEF Next, CallStep

LEMMA LedgerInvCorrect == Spec => []LedgerInv
  <1>1. Init => LedgerInv
    <2> SUFFICES ASSUME Init PROVE LedgerInv
      OBVIOUS
    <2>1. TypeOK
      BY TypeInit
    <2>2. CallInv
      BY DEF Init, CallInv, CallOK, Copies
    <2>3. RequestInv /\ SignedInv /\ SpendInv
      BY DEF Init, RequestInv, SignedInv, SpendInv, Live
    <2>4. OnceInv
      BY DEF Init, OnceInv, Live, NoPending
    <2>5. AgreesUnlessRaced
      BY InitAssumption DEF Init, AgreesUnlessRaced
    <2>6. QED
      BY <2>1, <2>2, <2>3, <2>4, <2>5 DEF LedgerInv
  <1>2. LedgerInv /\ [Next]_vars => LedgerInv'
    BY TypeNext, CallInvNext, RequestInvNext, SignedPartsNext DEF LedgerInv, SignedParts
  <1>3. QED
    BY <1>1, <1>2, PTL DEF Spec

\* applyPendingBalance, transfer, withdraw, by any number of concurrent calls whose
\* transactions land late or, in Rust, more than once: the owner's decryptable
\* balance is the encrypted one unless an apply was overtaken.
THEOREM AgreesUnlessRacedHolds == Spec => []AgreesUnlessRaced
  <1>1. LedgerInv => AgreesUnlessRaced
    BY DEF LedgerInv
  <1>2. QED
    BY <1>1, LedgerInvCorrect, PTL

\* withRetries, Sender::send: how often a call can have its effect, and what its
\* result says of it.
THEOREM ResultIsTrueHolds == Spec => []ResultIsTrue
  <1>1. ASSUME LedgerInv PROVE ResultIsTrue
    <2>1. ASSUME NEW c \in Calls
          PROVE  /\ landings[c] <= IF ClientOf[req[c].acct] = "rust" THEN tries[c] + 1 ELSE 1
                 /\ result[c] = "ok" => landings[c] >= 1
                 /\ result[c] \notin {"none", "ok"} \cup Unsure(c) => landings[c] = 0
      <3> DEFINE l == landings[c]
                 i == inflight[c]
                 n == tries[c]
      <3>1. l \in Nat /\ i \in Nat /\ n \in Nat /\ Copies(c) = l + i
            /\ pc[c] \in {"idle", "reading", "sending", "done"}
        BY <1>1, SignedType DEF LedgerInv, TypeOK, Copies
      <3>2. /\ pc[c] \in {"idle", "reading"} => Copies(c) = 0
            /\ pc[c] = "sending" => Copies(c) <= IF ClientOf[req[c].acct] = "rust" THEN n ELSE 0
            /\ pc[c] = "done" =>
                  /\ Copies(c) <= IF ClientOf[req[c].acct] = "rust" THEN n + 1 ELSE 1
                  /\ result[c] = "ok" => landings[c] >= 1
                  /\ result[c] \notin {"ok"} \cup Unsure(c) => Copies(c) = 0
            /\ pc[c] # "done" => result[c] = "none"
        BY <1>1 DEF LedgerInv, CallInv, CallOK
      <3> HIDE DEF l, i, n
      <3>3. l <= IF ClientOf[req[c].acct] = "rust" THEN n + 1 ELSE 1
        BY <3>1, <3>2
      <3>4. Copies(c) = 0 => l = 0
        BY <3>1
      <3>5. QED
        BY <3>2, <3>3, <3>4 DEF l, n
    <2>2. ASSUME NEW c \in Calls, req[c].op \notin Repeatable PROVE landings[c] <= 1
      BY <1>1, <2>2 DEF LedgerInv, OnceInv
    <2>3. QED
      BY <2>1, <2>2 DEF ResultIsTrue
  <1>2. QED
    BY <1>1, LedgerInvCorrect, PTL

-----------------------------------------------------------------------------
(* Money.                                                                  *)

\* splitAmount and its inverse: a credit makes the pending balance larger by its amount.
LEMMA JoinCredit ==
    ASSUME NEW h \in Nat, NEW l \in Nat, NEW x \in Nat
    PROVE  (h + (x \div LoBase)) * LoBase + (l + (x % LoBase)) = (h * LoBase + l) + x
  <1> DEFINE q == x \div LoBase
             m == x % LoBase
  <1>1. LoBase \in Nat \ {0}
    BY BaseAssumption
  <1>2. q \in Nat /\ m \in Nat
    BY <1>1
  <1>3. x = LoBase * q + m
    BY <1>1
  <1> HIDE DEF q, m
  <1>4. ASSUME NEW a \in Nat, NEW b \in Nat, NEW c \in Nat
        PROVE  (a + b) * c = a * c + c * b
    OBVIOUS
  <1>5. (h + q) * LoBase = h * LoBase + LoBase * q
    BY <1>1, <1>2, <1>4
  <1>6. h * LoBase \in Nat /\ LoBase * q \in Nat
    BY <1>1, <1>2
  <1>7. (h + q) * LoBase + (l + m) = (h * LoBase + l) + x
    BY <1>2, <1>3, <1>5, <1>6
  <1>8. QED
    BY <1>7 DEF q, m

LEMMA CreditAdds ==
    ASSUME TypeOK, NEW a \in Accounts, NEW amt \in Nat, NEW rnd, Credit(a, amt, rnd)
    PROVE  /\ Join(pending'[a]) = Join(pending[a]) + amt
           /\ \A b \in Accounts \ {a} : pending'[b] = pending[b]
  <1>1. pending[a].lo \in Nat /\ pending[a].hi \in Nat
    BY AccountType
  <1>2. pending' = [pending EXCEPT ![a] =
                      [lo |-> pending[a].lo + Split(amt).lo, hi |-> pending[a].hi + Split(amt).hi,
                       rnd |-> pending[a].rnd \cup rnd]]
    BY DEF Credit
  <1>3. \A b \in Accounts \ {a} : pending'[b] = pending[b]
    BY <1>2 DEF TypeOK
  <1>4. /\ pending'[a].lo = pending[a].lo + (amt % LoBase)
        /\ pending'[a].hi = pending[a].hi + (amt \div LoBase)
    BY <1>2 DEF TypeOK, Split
  <1>5. QED
    BY <1>1, <1>3, <1>4, JoinCredit DEF Join

\* What an account holds, typed.
LEMMA HeldType ==
    ASSUME TypeOK, NEW a \in Accounts
    PROVE  /\ public[a] \in Nat /\ Join(pending[a]) \in Nat /\ available[a].val \in Nat
           /\ HeldBy[a] = public[a] + Join(pending[a]) + available[a].val
           /\ HeldBy[a] \in Nat
  BY AccountType, JoinType DEF HeldBy, Ciphertext

\* configureAccount, deposit, applyPendingBalance and withdraw keep what every
\* account holds.
LEMMA HeldStays ==
    ASSUME TypeOK, TypeOK', NEW c \in Calls, Land(c), req[c].op # "transfer"
    PROVE  HeldBy' = HeldBy
  <1> DEFINE a == req[c].acct
             x == req[c].amt
  <1>0. a \in Accounts /\ x \in Nat
    BY RequestType
  <1> SUFFICES ASSUME NEW b \in Accounts
               PROVE  public'[b] + Join(pending'[b]) + available'[b].val
                        = public[b] + Join(pending[b]) + available[b].val
    BY DEF HeldBy, Join
  <1>t. public[b] \in Nat /\ Join(pending[b]) \in Nat /\ available[b].val \in Nat
    BY HeldType
  <1>1. CASE LandConfigure(c)
    BY <1>1 DEF LandConfigure, Join
  <1>2. CASE LandDeposit(c)
    <2>1. /\ public' = [public EXCEPT ![a] = public[a] - x] /\ available' = available
          /\ Credit(a, x, {})
      BY <1>2 DEF LandDeposit
    <2>2. CASE b = a
      <3>1. public'[b] = public[b] - x
        BY <1>0, <2>1, <2>2 DEF TypeOK
      <3>2. Join(pending'[b]) = Join(pending[b]) + x
        BY <1>0, <2>1, <2>2, CreditAdds
      <3>3. QED
        BY <1>0, <1>t, <2>1, <3>1, <3>2
    <2>3. CASE b # a
      <3>1. public'[b] = public[b] /\ pending'[b] = pending[b]
        BY <1>0, <2>1, <2>3, CreditAdds DEF TypeOK
      <3>2. QED
        BY <2>1, <3>1
    <2>4. QED
      BY <2>2, <2>3
  <1>3. CASE LandApply(c)
    <2>1. /\ public' = public
          /\ pending' = [pending EXCEPT ![a] = NoPending]
          /\ available' = [available EXCEPT ![a] =
                             [val |-> available[a].val + Join(pending[a]),
                              rnd |-> available[a].rnd \cup pending[a].rnd]]
      BY <1>3 DEF LandApply
    <2>2. CASE b = a
      <3>1. pending'[b] = NoPending /\ available'[b].val = available[b].val + Join(pending[b])
        BY <1>0, <2>1, <2>2 DEF TypeOK
      <3>2. Join(pending'[b]) = 0
        BY <3>1, BaseAssumption DEF Join, NoPending
      <3>3. QED
        BY <1>t, <2>1, <3>1, <3>2
    <2>3. CASE b # a
      <3>1. pending'[b] = pending[b] /\ available'[b] = available[b]
        BY <1>0, <2>1, <2>3 DEF TypeOK
      <3>2. QED
        BY <2>1, <3>1
    <2>4. QED
      BY <2>2, <2>3
  <1>4. CASE LandWithdraw(c)
    <2>1. /\ public' = [public EXCEPT ![a] = public[a] + x] /\ pending' = pending
          /\ available' = [available EXCEPT ![a] =
                             [val |-> available[a].val - x, rnd |-> available[a].rnd \cup {}]]
      BY <1>4 DEF LandWithdraw, Debit
    <2>2. CASE b = a
      <3>1. public'[b] = public[b] + x /\ available'[b].val = available[b].val - x
        BY <1>0, <2>1, <2>2 DEF TypeOK
      <3>2. QED
        BY <1>0, <1>t, <2>1, <3>1
    <2>3. CASE b # a
      <3>1. public'[b] = public[b] /\ available'[b] = available[b]
        BY <1>0, <2>1, <2>3 DEF TypeOK
      <3>2. QED
        BY <2>1, <3>1
    <2>4. QED
      BY <2>2, <2>3
  <1>5. QED
    BY <1>1, <1>2, <1>3, <1>4 DEF Land, LandTransfer

\* A transfer takes its amount from one account and gives it to the other.
LEMMA HeldMoves ==
    ASSUME TypeOK, TypeOK', NEW c \in Calls, Land(c), req[c].op = "transfer",
           req[c].acct # req[c].to
    PROVE  /\ HeldBy' = [HeldBy EXCEPT ![req[c].acct] = HeldBy[req[c].acct] - req[c].amt,
                                       ![req[c].to] = HeldBy[req[c].to] + req[c].amt]
           /\ req[c].amt <= HeldBy[req[c].acct]
  <1> DEFINE a == req[c].acct
             t == req[c].to
             x == req[c].amt
  <1>0. a \in Accounts /\ t \in Accounts /\ x \in Nat /\ a # t
    BY RequestType
  <1>1. LandTransfer(c)
    BY DEF Land, LandConfigure, LandDeposit, LandApply, LandWithdraw
  <1>2. /\ public' = public /\ Credit(t, x, {c}) /\ Debit(c, {c})
        /\ SpendProofHolds(c)
    BY <1>1 DEF LandTransfer, Accepts
  <1>3. available' = [available EXCEPT ![a] =
                        [val |-> available[a].val - x, rnd |-> available[a].rnd \cup {c}]]
    BY <1>2 DEF Debit
  <1>4. HeldBy'[a] = HeldBy[a] - x
    <2>1. pending'[a] = pending[a] /\ available'[a].val = available[a].val - x
      BY <1>0, <1>2, <1>3, CreditAdds DEF TypeOK
    <2>2. HeldBy'[a] = public[a] + Join(pending[a]) + (available[a].val - x)
      BY <1>0, <1>2, <2>1 DEF HeldBy, Join
    <2>3. QED
      BY <1>0, <2>2, HeldType
  <1>5. HeldBy'[t] = HeldBy[t] + x
    <2>1. Join(pending'[t]) = Join(pending[t]) + x /\ available'[t] = available[t]
      BY <1>0, <1>2, <1>3, CreditAdds DEF TypeOK
    <2>2. HeldBy'[t] = public[t] + (Join(pending[t]) + x) + available[t].val
      BY <1>0, <1>2, <2>1 DEF HeldBy, Join
    <2>3. QED
      BY <1>0, <2>2, HeldType
  <1>6. ASSUME NEW b \in Accounts \ {a, t} PROVE HeldBy'[b] = HeldBy[b]
    <2>1. pending'[b] = pending[b] /\ available'[b] = available[b]
      BY <1>0, <1>2, <1>3, <1>6, CreditAdds DEF TypeOK
    <2>2. QED
      BY <1>2, <2>1 DEF HeldBy, Join
  <1>7. x <= HeldBy[a]
    <2>1. available[a].val - x \in Nat
      BY <1>2, SpendLeaves, SignedType
    <2>2. QED
      BY <1>0, <2>1, HeldType
  <1>8. HeldBy' = [HeldBy EXCEPT ![a] = HeldBy[a] - x, ![t] = HeldBy[t] + x]
    <2> DEFINE f == [HeldBy EXCEPT ![a] = HeldBy[a] - x, ![t] = HeldBy[t] + x]
    <2>1. f = [b \in Accounts |-> f[b]] /\ HeldBy' = [b \in Accounts |-> HeldBy'[b]]
      BY DEF HeldBy
    <2>2. f[a] = HeldBy[a] - x /\ f[t] = HeldBy[t] + x
      BY <1>0 DEF HeldBy
    <2>3. \A b \in Accounts \ {a, t} : f[b] = HeldBy[b]
      BY DEF HeldBy
    <2> HIDE DEF f
    <2>4. \A b \in Accounts : f[b] = HeldBy'[b]
      BY <1>4, <1>5, <1>6, <2>2, <2>3
    <2>5. f = HeldBy'
      BY <2>1, <2>4
    <2>6. QED
      BY <2>5 DEF f
  <1>9. QED
    BY <1>7, <1>8

\* Steps other than landings: what a call that asks anew had done is nothing.
LEMMA NothingMoves ==
    ASSUME LedgerInv, [Next]_vars, \A c \in Calls : ~(Live(c) /\ Land(c))
    PROVE  HeldBy' = HeldBy /\ MovedBy' = MovedBy
  <1>1. UNCHANGED <<public, pending, available, landings>>
    BY DEF Next, Begin, CallStep, Read, ReadFails, ReadUnanswered, Confirm, Fail, LoseTrack, Expire,
           LandLate, Approve, ToggleCredits, vars, chainVars, histVars, Live
  <1>2. ASSUME NEW c \in Calls, landings[c] > 0
        PROVE  req'[c] = req[c]
    <2>1. pc[c] # "idle"
      BY <1>2, CallFacts DEF LedgerInv
    <2>2. \A d \in Calls : Begin(d) => d # c /\ req'[c] = req[c]
      BY <2>1 DEF Begin, LedgerInv, TypeOK
    <2>3. \A d \in Calls : CallStep(d) \/ LandLate(d) => req' = req
      BY DEF CallStep, Read, ReadFails, ReadUnanswered, Confirm, Fail, LoseTrack, Expire, LandLate
    <2>4. \A a \in Accounts : Approve(a) \/ ToggleCredits(a) => req' = req
      BY DEF Approve, ToggleCredits, callVars
    <2>5. UNCHANGED vars => req' = req
      BY DEF vars, callVars
    <2>6. QED
      BY <2>2, <2>3, <2>4, <2>5 DEF Next
  <1>3. MovedBy' = MovedBy
    BY <1>1, <1>2 DEF MovedBy
  <1>4. HeldBy' = HeldBy
    BY <1>1 DEF HeldBy, Join
  <1>5. QED
    BY <1>3, <1>4

\* A landing moves the money of a transfer, and no other money.
LEMMA LandingMoves ==
    ASSUME LedgerInv, TypeOK', NEW c \in Calls, Live(c), Land(c), req' = req
    PROVE  [Money!Next]_<<HeldBy, MovedBy>>
  <1>t. TypeOK
    BY DEF LedgerInv
  <1>1. /\ landings[c] \in Nat /\ landings'[c] = landings[c] + 1
        /\ \A d \in Calls \ {c} : landings'[d] = landings[d]
    BY <1>t, LandType, SignedType DEF TypeOK
  <1>2. landings'[c] > 0
    BY <1>1
  <1>3. CASE req[c].op # "transfer"
    <2>1. HeldBy' = HeldBy
      BY <1>t, <1>3, HeldStays
    <2>2. MovedBy' = MovedBy
      BY <1>1, <1>3 DEF MovedBy
    <2>3. QED
      BY <2>1, <2>2
  <1>4. CASE req[c].op = "transfer"
    <2> DEFINE a == req[c].acct
               t == req[c].to
               x == req[c].amt
    <2>1. /\ a \in Accounts /\ t \in Accounts /\ x \in Nat
          /\ a # t /\ x >= 1
      BY <1>t, <1>4, RequestType DEF LedgerInv, RequestInv
    <2>2. /\ HeldBy' = [HeldBy EXCEPT ![a] = HeldBy[a] - x, ![t] = HeldBy[t] + x]
          /\ x <= HeldBy[a]
      BY <1>t, <1>4, <2>1, HeldMoves
    <2>3. c \notin MovedBy /\ MovedBy' = MovedBy \cup {c}
      <3>1. landings[c] = 0
        BY <1>t, <1>4, LandsOnce DEF LedgerInv, Repeatable
      <3>2. QED
        BY <1>1, <1>2, <1>4, <3>1 DEF MovedBy
    <2>4. x \in 1..HeldBy[a]
      BY <1>t, <2>1, <2>2, HeldType
    <2> HIDE DEF a, t, x
    <2>5. Money!Move(c)
      BY <2>1, <2>2, <2>3, <2>4 DEF Money!Move
    <2>6. QED
      BY <2>5 DEF Money!Next
  <1>5. QED
    BY <1>3, <1>4

\* The ledger implements Holdings: deposit, applyPendingBalance, withdraw and
\* configureAccount never change what an account holds, and a transfer, however
\* often it was retried and however late it lands, moves exactly its amount, once.
THEOREM MoneyMovesOnceHolds == Spec => MoneyMovesOnce
  <1>1. Init => Money!Init
    <2> SUFFICES ASSUME Init PROVE Money!Init
      OBVIOUS
    <2>1. TypeOK
      BY TypeInit
    <2>2. HeldBy \in [Accounts -> Nat]
      BY <2>1, HeldType DEF HeldBy
    <2>3. MovedBy = {}
      BY DEF Init, MovedBy
    <2>4. QED
      BY <2>2, <2>3 DEF Money!Init
  <1>2. ASSUME LedgerInv, TypeOK', [Next]_vars
        PROVE  [Money!Next]_<<HeldBy, MovedBy>>
    <2>1. CASE \E c \in Calls : Live(c) /\ Land(c)
      <3>1. PICK c \in Calls : Live(c) /\ Land(c)
        BY <2>1
      <3>2. landings' # landings
        <4>1. landings[c] \in Nat /\ landings'[c] = landings[c] + 1
          BY <1>2, <3>1, LandType, SignedType DEF LedgerInv, TypeOK
        <4>2. QED
          BY <4>1
      <3>3. req' = req
        BY <1>2, <3>2 DEF Next, Begin, CallStep, Read, ReadFails, ReadUnanswered, Confirm, Fail,
                          LoseTrack, Expire, LandLate, Approve, ToggleCredits, vars, histVars
      <3>4. QED
        BY <1>2, <3>1, <3>3, LandingMoves
    <2>2. CASE ~(\E c \in Calls : Live(c) /\ Land(c))
      BY <1>2, <2>2, NothingMoves
    <2>3. QED
      BY <2>1, <2>2
  <1>3. QED
    BY <1>1, <1>2, LedgerInvCorrect, TypeCorrect, PTL DEF Spec, MoneyMovesOnce, Money!Spec

-----------------------------------------------------------------------------
(* The pending balance.                                                    *)

\* Every credit adds less than LoBase to the low half, and is counted.
PendingInv ==
    \A a \in Accounts :
        counter[a] <= MaxCounter /\ pending[a].lo <= counter[a] * (LoBase - 1)

LEMMA PendingInvInit == Init => PendingInv
  <1> SUFFICES ASSUME Init, NEW a \in Accounts
               PROVE  counter[a] <= MaxCounter /\ pending[a].lo <= counter[a] * (LoBase - 1)
    BY DEF PendingInv
  <1>1. counter[a] = 0 /\ pending[a].lo = 0
    BY DEF Init, NoPending
  <1>2. QED
    BY <1>1, LimitAssumption, BaseAssumption

LEMMA CreditCounts ==
    ASSUME TypeOK, PendingInv, NEW a \in Accounts, NEW amt \in Nat, NEW rnd, Credit(a, amt, rnd),
           counter[a] < MaxCounter
    PROVE  PendingInv'
  <1> DEFINE m == amt % LoBase
             k == LoBase - 1
  <1>1. m \in Nat /\ k \in Nat /\ m <= k
    BY BaseAssumption
  <1>2. /\ counter[a] \in Nat /\ pending[a].lo \in Nat /\ MaxCounter \in Nat
        /\ pending[a].lo <= counter[a] * k
    BY AccountType, LimitAssumption DEF PendingInv
  <1>3. counter'[a] = counter[a] + 1 /\ pending'[a].lo = pending[a].lo + m
    BY DEF Credit, TypeOK, Split
  <1>4. \A b \in Accounts \ {a} : counter'[b] = counter[b] /\ pending'[b] = pending[b]
    BY DEF Credit, TypeOK
  <1>5. pending[a].lo + m <= (counter[a] + 1) * k
    <2>1. ASSUME NEW n \in Nat, NEW d \in Nat PROVE (n + 1) * d = n * d + d /\ n * d \in Nat
      OBVIOUS
    <2>2. (counter[a] + 1) * k = counter[a] * k + k /\ counter[a] * k \in Nat
      BY <1>1, <1>2, <2>1
    <2> HIDE DEF m, k
    <2>3. QED
      BY <1>1, <1>2, <2>2
  <1>6. counter[a] + 1 <= MaxCounter
    BY <1>2
  <1>7. ASSUME NEW b \in Accounts
        PROVE  counter'[b] <= MaxCounter /\ pending'[b].lo <= counter'[b] * k
    <2>1. CASE b = a
      BY <1>3, <1>5, <1>6, <2>1
    <2>2. CASE b # a
      BY <1>4, <2>2 DEF PendingInv
    <2>3. QED
      BY <2>1, <2>2
  <1>8. QED
    BY <1>7 DEF PendingInv

LEMMA PendingInvNext == TypeOK /\ PendingInv /\ [Next]_vars => PendingInv'
  <1> SUFFICES ASSUME TypeOK, PendingInv, [Next]_vars PROVE PendingInv'
    OBVIOUS
  <1>1. CASE UNCHANGED <<counter, pending>>
    BY <1>1 DEF PendingInv
  <1>2. ASSUME NEW c \in Calls, Land(c) PROVE PendingInv'
    <2>0. req[c].acct \in Accounts /\ req[c].to \in Accounts /\ req[c].amt \in Nat
      BY RequestType
    <2>1. CASE LandConfigure(c) \/ LandWithdraw(c)
      BY <1>1, <2>1 DEF LandConfigure, LandWithdraw
    <2>2. CASE LandDeposit(c)
      BY <2>0, <2>2, CreditCounts DEF LandDeposit, Accepts, Creditable
    <2>3. CASE LandTransfer(c)
      BY <2>0, <2>3, CreditCounts DEF LandTransfer, Accepts, Creditable
    <2>4. CASE LandApply(c)
      <3>1. /\ counter' = [counter EXCEPT ![req[c].acct] = 0]
            /\ pending' = [pending EXCEPT ![req[c].acct] = NoPending]
        BY <2>4 DEF LandApply
      <3>2. ASSUME NEW b \in Accounts
            PROVE  counter'[b] <= MaxCounter /\ pending'[b].lo <= counter'[b] * (LoBase - 1)
        <4>1. CASE b = req[c].acct
          <5>1. counter'[b] = 0 /\ pending'[b].lo = 0
            BY <3>1, <4>1 DEF TypeOK, NoPending
          <5>2. QED
            BY <5>1, LimitAssumption, BaseAssumption
        <4>2. CASE b # req[c].acct
          <5>1. counter'[b] = counter[b] /\ pending'[b] = pending[b]
            BY <2>0, <3>1, <4>2 DEF TypeOK
          <5>2. QED
            BY <5>1 DEF PendingInv
        <4>3. QED
          BY <4>1, <4>2
      <3>3. QED
        BY <3>2 DEF PendingInv
    <2>5. QED
      BY <1>2, <2>1, <2>2, <2>3, <2>4 DEF Land
  <1>3. CASE ~(\E c \in Calls : Land(c))
    <2>1. UNCHANGED <<counter, pending>>
      BY <1>3 DEF Next, Begin, CallStep, Read, ReadFails, ReadUnanswered, Confirm, Fail, LoseTrack,
                  Expire, LandLate, Approve, ToggleCredits, vars, chainVars
    <2>2. QED
      BY <1>1, <2>1
  <1>4. QED
    BY <1>2, <1>3

\* splitAmount: a pending balance that took its maximum of credits can still be
\* decrypted in its low half.
THEOREM LowPartDecryptsHolds == Spec => []LowPartDecrypts
  <1>1. ASSUME TypeOK, PendingInv
        PROVE  LowPartDecrypts
    <2> SUFFICES ASSUME MaxCounter * (LoBase - 1) <= DecryptMax, NEW a \in Accounts
                 PROVE  pending[a].lo <= DecryptMax
      BY DEF LowPartDecrypts
    <2> DEFINE k == LoBase - 1
    <2>1. /\ counter[a] \in Nat /\ pending[a].lo \in Nat /\ MaxCounter \in Nat /\ k \in Nat
          /\ DecryptMax \in Nat /\ counter[a] <= MaxCounter
          /\ pending[a].lo <= counter[a] * k /\ MaxCounter * k <= DecryptMax
      BY <1>1, AccountType, LimitAssumption, BaseAssumption DEF PendingInv
    <2>2. ASSUME NEW m \in Nat, NEW n \in Nat, NEW d \in Nat, m <= n
          PROVE  m * d <= n * d /\ m * d \in Nat /\ n * d \in Nat
      BY <2>2
    <2>3. counter[a] * k <= MaxCounter * k /\ counter[a] * k \in Nat /\ MaxCounter * k \in Nat
      BY <2>1, <2>2
    <2> HIDE DEF k
    <2>4. QED
      BY <2>1, <2>3
  <1>2. QED
    BY <1>1, TypeCorrect, PendingInvInit, PendingInvNext, PTL DEF Spec
=============================================================================
