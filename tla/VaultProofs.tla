----------------------------- MODULE VaultProofs -----------------------------
(***************************************************************************)
(* The safety of a vault, for every set of jobs and payments, all amounts, *)
(* every credit limit and any number of times an instruction is sent.      *)
(***************************************************************************)
EXTENDS Vault, TLAPS

\* A job that is not prepared has done nothing.
IdleInv ==
    \A j \in Jobs : pc[j] = "idle" => job[j].op = "none" /\ landings[j] = 0

\* A payout was prepared from a balance that suffices, for what it leaves of it.
PreparedInv ==
    \A j \in Payouts : /\ job[j].amount <= args[j].ct.val
                       /\ args[j].dec = args[j].ct.val - job[j].amount

\* The transfers in a balance: a payout is not in the balance it was prepared from,
\* and is in the one of the vault from the time it landed.
OpeningsInv ==
    /\ \A x \in pending.from : x[1] \in Payments
    /\ \A j \in Jobs : landings[j] = 0 => <<j, 0>> \notin available.from
    /\ \A j \in Payouts : /\ <<j, 0>> \notin args[j].ct.from
                          /\ landings[j] > 0 => <<j, 0>> \in available.from

\* An update that was not overtaken is right as long as the credit counter is the one
\* it was computed for.
UpdateInv ==
    \A j \in Jobs :
        pc[j] # "idle" /\ job[j].op = "apply" /\ j \notin overtaken =>
            /\ args[j].counter <= counter
            /\ args[j].counter = counter /\ ~drifted => args[j].dec = available.val + pending.val

TypedInv == TypeOK /\ IdleInv /\ PreparedInv

-----------------------------------------------------------------------------
(* Types, and what was prepared.                                           *)

LEMMA InitTyped == Init => TypedInv
  <1> SUFFICES ASSUME Init PROVE TypedInv
    OBVIOUS
  <1>1. available \in Ciphertexts /\ decryptable \in Nat
    <2>1. Nothing \in Ciphertexts /\ Ciphertext(InitialBalance, {}) \in Ciphertexts
      BY AmountAssumption DEF Ciphertexts, Ciphertext, Nothing
    <2>2. available = Nothing \/ available = Ciphertext(InitialBalance, {})
      BY DEF Init
    <2>3. available \in Ciphertexts
      BY <2>1, <2>2
    <2>4. QED
      BY <2>3 DEF Init, Ciphertexts
  <1>2. [op |-> "none", amount |-> 0] \in Operations /\ Unprepared \in Arguments
    BY DEF Operations, Arguments, Unprepared, Ciphertexts, Ciphertext, Nothing
  <1>3. TypeOK
    <2>1. pending \in Ciphertexts
      BY DEF Init, Ciphertexts, Ciphertext, Nothing
    <2>2. vault \in {"none", "made"} /\ token \in {"plain", "configured"}
      BY DEF Init
    <2>3. /\ pc \in [Jobs -> {"idle", "prepared", "done"}]
          /\ proofs \in [Jobs -> {"none", "open", "closed"}]
      BY DEF Init
    <2>4. job \in [Jobs -> Operations] /\ args \in [Jobs -> Arguments]
      BY <1>2 DEF Init
    <2>5. /\ sent \in [Jobs -> 0..MaxSent] /\ landings \in [Jobs -> 0..MaxSent]
          /\ \A j \in Jobs : landings[j] <= sent[j]
      <3>1. sent = [j \in Jobs |-> 0] /\ landings = [j \in Jobs |-> 0]
        BY DEF Init
      <3>2. QED
        BY <3>1, LimitAssumption
    <2>6. counter \in 0..MaxCounter
      <3>1. counter = 0
        BY DEF Init
      <3>2. QED
        BY <3>1, LimitAssumption
    <2>7. paidIn \subseteq Payments /\ overtaken \subseteq Jobs /\ drifted \in BOOLEAN
      BY DEF Init
    <2>8. QED
      BY <1>1, <2>1, <2>2, <2>3, <2>4, <2>5, <2>6, <2>7 DEF TypeOK
  <1>4. IdleInv /\ PreparedInv
    BY DEF Init, IdleInv, PreparedInv, Payouts
  <1>5. QED
    BY <1>3, <1>4 DEF TypedInv

\* What a preparation needs of its parts.
LEMMA PreparedTyped ==
    ASSUME TypedInv, NEW j \in Jobs, NEW op \in {"configure", "apply", "pay"},
           NEW x \in Amounts \cup {0}, NEW a \in Arguments, NEW p \in {"none", "open"},
           op = "pay" => x <= a.ct.val /\ a.dec = a.ct.val - x,
           Prepared(j, op, x, a, p)
    PROVE  TypedInv'
  <1>1. [op |-> op, amount |-> x] \in Operations
    BY DEF Operations
  <1>2. TypeOK'
    BY <1>1 DEF TypedInv, TypeOK, Prepared, tokenVars
  <1>3. IdleInv'
    BY DEF TypedInv, TypeOK, IdleInv, Prepared
  <1>4. PreparedInv'
    BY DEF TypedInv, TypeOK, PreparedInv, Payouts, Prepared
  <1>5. QED
    BY <1>2, <1>3, <1>4 DEF TypedInv

\* What is prepared for each operation.
LEMMA PreparesTyped ==
    ASSUME TypedInv, NEW j \in Jobs,
           PrepareConfigure(j) \/ PreparePay(j) \/ ComputeUpdate(j)
    PROVE  TypedInv'
  <1>1. CASE PrepareConfigure(j)
    <2>1. Unprepared \in Arguments
      BY DEF Arguments, Unprepared, Ciphertexts, Ciphertext, Nothing
    <2>2. QED
      BY <1>1, <2>1, PreparedTyped DEF PrepareConfigure
  <1>2. CASE PreparePay(j)
    <2>1. PICK x \in Amounts :
             /\ x <= decryptable /\ decryptable = available.val
             /\ Prepared(j, "pay", x, [ct |-> available, dec |-> decryptable - x,
                                       counter |-> counter, hook |-> HasHook], "open")
      BY <1>2 DEF PreparePay
    <2> DEFINE a == [ct |-> available, dec |-> decryptable - x, counter |-> counter,
                     hook |-> HasHook]
    <2>2. a \in Arguments /\ x <= a.ct.val /\ a.dec = a.ct.val - x
      BY <2>1, LimitAssumption, HookAssumption, AmountAssumption
         DEF TypedInv, TypeOK, Arguments, Ciphertexts
    <2>3. QED
      BY <2>1, <2>2, PreparedTyped
  <1>3. CASE ComputeUpdate(j)
    <2>1. Update \in Arguments
      BY LimitAssumption DEF TypedInv, TypeOK, Update, Arguments, Ciphertexts
    <2>2. QED
      BY <1>3, <2>1, PreparedTyped DEF ComputeUpdate
  <1>4. QED
    BY <1>1, <1>2, <1>3

LEMMA LandsTyped ==
    ASSUME TypedInv, NEW j \in Jobs, NEW op \in {"configure", "apply", "pay"}, Lands(j, op)
    PROVE  /\ landings' \in [Jobs -> 0..MaxSent]
           /\ \A i \in Jobs : landings'[i] <= sent'[i]
           /\ IdleInv' /\ PreparedInv'
  <1>1. landings' \in [Jobs -> 0..MaxSent] /\ \A i \in Jobs : landings'[i] <= sent'[i]
    BY LimitAssumption DEF TypedInv, TypeOK, Lands, jobVars
  <1>2. IdleInv'
    BY DEF TypedInv, TypeOK, IdleInv, Lands, jobVars
  <1>3. PreparedInv'
    BY DEF TypedInv, PreparedInv, Payouts, Lands, jobVars
  <1>4. QED
    BY <1>1, <1>2, <1>3

\* The two sums of an apply and the new balance of a payout are ciphertexts.
LEMMA ApplyType ==
    ASSUME NEW c \in Ciphertexts, NEW d \in Ciphertexts
    PROVE  Ciphertext(c.val + d.val, c.from \cup d.from) \in Ciphertexts
  BY DEF Ciphertexts, Ciphertext

LEMMA StepTyped == TypedInv /\ [Next]_vars => TypedInv'
  <1> SUFFICES ASSUME TypedInv, [Next]_vars PROVE TypedInv'
    OBVIOUS
  <1>1. CASE Initialize
    BY <1>1 DEF Initialize, TypedInv, TypeOK, IdleInv, PreparedInv, Payouts, tokenVars, jobVars
  <1>2. ASSUME NEW j \in Jobs, PrepareConfigure(j) \/ PreparePay(j) \/ ComputeUpdate(j)
        PROVE  TypedInv'
    BY <1>2, PreparesTyped
  <1>3. ASSUME NEW j \in Jobs, Send(j) PROVE TypedInv'
    <2>1. TypeOK'
      BY <1>3, LimitAssumption DEF Send, TypedInv, TypeOK, tokenVars
    <2>2. IdleInv' /\ PreparedInv'
      BY <1>3 DEF Send, TypedInv, IdleInv, PreparedInv, Payouts
    <2>3. QED
      BY <2>1, <2>2 DEF TypedInv
  <1>4. ASSUME NEW j \in Jobs, Close(j) PROVE TypedInv'
    <2>1. TypeOK'
      BY <1>4 DEF Close, TypedInv, TypeOK, tokenVars
    <2>2. IdleInv' /\ PreparedInv'
      BY <1>4 DEF Close, TypedInv, TypeOK, IdleInv, PreparedInv, Payouts
    <2>3. QED
      BY <2>1, <2>2 DEF TypedInv
  <1>5. ASSUME NEW j \in Jobs, Recover(j) PROVE TypedInv'
    BY <1>5 DEF Recover, TypedInv, TypeOK, IdleInv, PreparedInv, Payouts, tokenVars
  <1>6. ASSUME NEW j \in Jobs, LandConfigure(j) PROVE TypedInv'
    <2>1. Lands(j, "configure")
      BY <1>6 DEF LandConfigure
    <2>2. TypeOK'
      BY <1>6, <2>1, LandsTyped DEF LandConfigure, Lands, TypedInv, TypeOK, tokenVars, jobVars
    <2>3. QED
      BY <2>1, <2>2, LandsTyped DEF TypedInv
  <1>7. ASSUME NEW j \in Jobs, LandApply(j) PROVE TypedInv'
    <2>1. Lands(j, "apply")
      BY <1>7 DEF LandApply
    <2>2. available' \in Ciphertexts /\ pending' \in Ciphertexts
      BY <1>7, ApplyType DEF LandApply, TypedInv, TypeOK, Ciphertexts, Ciphertext, Nothing
    <2>3. decryptable' \in Nat /\ counter' \in 0..MaxCounter /\ overtaken' \subseteq Jobs
             /\ drifted' \in BOOLEAN
      BY <1>7, LimitAssumption DEF LandApply, Overtakes, TypedInv, TypeOK, Arguments
    <2>4. TypeOK'
      BY <1>7, <2>1, <2>2, <2>3, LandsTyped DEF LandApply, Lands, TypedInv, TypeOK, jobVars
    <2>5. QED
      BY <2>1, <2>4, LandsTyped DEF TypedInv
  <1>8. ASSUME NEW j \in Jobs, LandPay(j) PROVE TypedInv'
    <2>1. Lands(j, "pay") /\ ProofsHold(j)
      BY <1>8 DEF LandPay
    <2>2. j \in Payouts
      BY <2>1 DEF Lands, Payouts
    <2>3. job[j].amount \in Nat /\ job[j].amount <= available.val /\ landings[j] \in Nat
      <3>1. job[j] \in Operations
        BY DEF TypedInv, TypeOK
      <3>2. job[j].amount \in Nat
        <4>1. job[j].amount \in Amounts \cup {0}
          BY <3>1 DEF Operations
        <4>2. Amounts \cup {0} \subseteq Nat
          BY AmountAssumption
        <4>3. QED
          BY <4>1, <4>2
      <3>3. job[j].amount <= args[j].ct.val /\ args[j].ct = available
        BY <2>1, <2>2 DEF ProofsHold, TypedInv, PreparedInv
      <3>4. landings[j] \in Nat
        BY LimitAssumption DEF TypedInv, TypeOK
      <3>5. QED
        BY <3>2, <3>3, <3>4
    <2>4. available' \in Ciphertexts
      BY <1>8, <2>3 DEF LandPay, TypedInv, TypeOK, Ciphertexts, Ciphertext
    <2>5. decryptable' \in Nat /\ overtaken' \subseteq Jobs
      BY <1>8 DEF LandPay, Overtakes, TypedInv, TypeOK, Arguments
    <2>6. TypeOK'
      BY <1>8, <2>1, <2>4, <2>5, LandsTyped DEF LandPay, Lands, TypedInv, TypeOK, jobVars
    <2>7. QED
      BY <2>1, <2>6, LandsTyped DEF TypedInv
  <1>9. ASSUME NEW p \in Payments, PayIn(p) PROVE TypedInv'
    <2>1. pending' \in Ciphertexts
      BY <1>9, AmountAssumption DEF PayIn, TypedInv, TypeOK, Ciphertexts, Ciphertext
    <2>2. TypeOK'
      BY <1>9, <2>1, LimitAssumption DEF PayIn, TypedInv, TypeOK, jobVars
    <2>3. QED
      BY <1>9, <2>2 DEF PayIn, TypedInv, IdleInv, PreparedInv, Payouts, jobVars
  <1>10. CASE UNCHANGED vars
    BY <1>10 DEF vars, TypedInv, TypeOK, IdleInv, PreparedInv, Payouts, tokenVars, jobVars
  <1>11. QED
    BY <1>1, <1>2, <1>3, <1>4, <1>5, <1>6, <1>7, <1>8, <1>9, <1>10 DEF Next

LEMMA Typed == Spec => []TypedInv
  BY InitTyped, StepTyped, PTL DEF Spec

\* Types, and with them that no balance of the vault goes below zero (prepare_transfer, pay).
THEOREM TypeCorrect == Spec => []TypeOK
  <1>1. TypedInv => TypeOK
    BY DEF TypedInv
  <1>2. QED
    BY <1>1, Typed, PTL

-----------------------------------------------------------------------------
(* One payout for each balance.                                            *)

BalanceInv == TypedInv /\ OpeningsInv /\ OnePayoutPerBalance

LEMMA InitBalance == Init => BalanceInv
  <1> SUFFICES ASSUME Init PROVE OpeningsInv /\ OnePayoutPerBalance
    BY InitTyped DEF BalanceInv
  <1>1. Payouts = {} /\ pending.from = {}
    BY DEF Init, Payouts, Nothing, Ciphertext
  <1>2. available.from = {}
    <2>1. available = Nothing \/ available = Ciphertext(InitialBalance, {})
      BY DEF Init
    <2>2. QED
      BY <2>1 DEF Nothing, Ciphertext
  <1>3. QED
    BY <1>1, <1>2 DEF OpeningsInv, OnePayoutPerBalance

\* A preparation: the new payout has not landed, so the balance it was prepared from
\* does not contain it.
LEMMA PreparedBalance ==
    ASSUME BalanceInv, NEW j \in Jobs, NEW op \in {"configure", "apply", "pay"},
           NEW x, NEW a, NEW p,
           op = "pay" => a.ct = available,
           Prepared(j, op, x, a, p)
    PROVE  OpeningsInv' /\ OnePayoutPerBalance'
  <1>1. landings[j] = 0 /\ j \notin Payouts
    BY DEF BalanceInv, TypedInv, IdleInv, Prepared, Payouts
  <1>2. /\ job' = [job EXCEPT ![j] = [op |-> op, amount |-> x]]
        /\ args' = [args EXCEPT ![j] = a]
        /\ UNCHANGED <<available, pending, landings>>
    BY DEF Prepared, tokenVars
  <1>3. /\ \A i \in Jobs \ {j} : job'[i] = job[i] /\ args'[i] = args[i]
        /\ job'[j].op = op /\ args'[j] = a
    BY <1>2 DEF BalanceInv, TypedInv, TypeOK
  <1>4. Payouts' \ {j} = Payouts /\ (j \in Payouts' => a.ct = available)
    BY <1>1, <1>3 DEF Payouts
  <1>5. OpeningsInv'
    BY <1>1, <1>2, <1>3, <1>4 DEF BalanceInv, OpeningsInv, Payouts
  <1>6. OnePayoutPerBalance'
    BY <1>1, <1>2, <1>3, <1>4 DEF BalanceInv, OnePayoutPerBalance, Payouts
  <1>7. QED
    BY <1>5, <1>6

LEMMA PayBalance ==
    ASSUME BalanceInv, NEW j \in Jobs, LandPay(j)
    PROVE  OpeningsInv' /\ OnePayoutPerBalance'
  <1>1. /\ j \in Payouts /\ args[j].ct = available
        /\ landings' = [landings EXCEPT ![j] = landings[j] + 1]
        /\ UNCHANGED <<pending, job, args>>
    BY DEF LandPay, Lands, ProofsHold, Payouts, jobVars
  <1>2. landings \in [Jobs -> Nat]
    BY LimitAssumption DEF BalanceInv, TypedInv, TypeOK
  \* A second landing would find the first in the balance, which differs from args[j].ct.
  <1>3. landings[j] = 0
    <2>1. <<j, 0>> \notin available.from
      BY <1>1 DEF BalanceInv, OpeningsInv
    <2>2. ~(landings[j] > 0)
      BY <1>1, <2>1 DEF BalanceInv, OpeningsInv
    <2>3. QED
      BY <1>2, <2>2 DEF Payouts
  <1>4. available'.from = available.from \cup {<<j, 0>>}
    BY <1>3 DEF LandPay, Ciphertext
  <1>5. landings'[j] = 1 /\ \A i \in Jobs \ {j} : landings'[i] = landings[i]
    BY <1>1, <1>2, <1>3
  <1>6. Payouts' = Payouts /\ Payouts \subseteq Jobs
    BY <1>1 DEF Payouts
  <1>7. OpeningsInv'
    BY <1>1, <1>4, <1>5, <1>6 DEF BalanceInv, OpeningsInv
  <1>8. \A i \in Payouts \ {j} : landings[i] > 0 => args[i].ct # args[j].ct
    BY <1>1 DEF BalanceInv, OpeningsInv
  <1>9. OnePayoutPerBalance'
    BY <1>1, <1>5, <1>6, <1>8 DEF BalanceInv, OnePayoutPerBalance
  <1>10. QED
    BY <1>7, <1>9

LEMMA StepBalance == BalanceInv /\ [Next]_vars => BalanceInv'
  <1> SUFFICES ASSUME BalanceInv, [Next]_vars PROVE OpeningsInv' /\ OnePayoutPerBalance'
    BY StepTyped DEF BalanceInv
  <1>1. ASSUME UNCHANGED <<available, pending, job, args, landings>>
        PROVE  OpeningsInv' /\ OnePayoutPerBalance'
    BY <1>1 DEF BalanceInv, OpeningsInv, OnePayoutPerBalance, Payouts
  <1>2. CASE Initialize \/ (\E j \in Jobs : Send(j) \/ Close(j) \/ Recover(j)) \/ UNCHANGED vars
    BY <1>1, <1>2 DEF Initialize, Send, Close, Recover, vars, tokenVars, jobVars
  <1>3. ASSUME NEW j \in Jobs, PrepareConfigure(j) \/ PreparePay(j) \/ ComputeUpdate(j)
        PROVE  OpeningsInv' /\ OnePayoutPerBalance'
    BY <1>3, PreparedBalance DEF PrepareConfigure, PreparePay, ComputeUpdate
  \* An operation that is no payout leaves the landings of payouts alone.
  <1>4. ASSUME NEW j \in Jobs, NEW op \in {"configure", "apply"}, Lands(j, op),
               available'.from \subseteq available.from \cup pending.from,
               available.from \subseteq available'.from, pending'.from \subseteq pending.from
        PROVE  OpeningsInv' /\ OnePayoutPerBalance'
    <2>1. /\ j \notin Payouts /\ landings' = [landings EXCEPT ![j] = landings[j] + 1]
          /\ UNCHANGED <<job, args>> /\ Payouts' = Payouts /\ Payouts \subseteq Jobs
      BY <1>4 DEF Lands, Payouts, jobVars
    <2>2. landings \in [Jobs -> Nat]
      BY LimitAssumption DEF BalanceInv, TypedInv, TypeOK
    <2>3. /\ \A i \in Jobs \ {j} : landings'[i] = landings[i]
          /\ landings'[j] # 0
      BY <2>1, <2>2
    <2>4. \A i \in Jobs : <<i, 0>> \notin pending.from
      BY NameAssumption DEF BalanceInv, OpeningsInv
    <2>5. OpeningsInv'
      BY <1>4, <2>1, <2>3, <2>4 DEF BalanceInv, OpeningsInv
    <2>6. OnePayoutPerBalance'
      BY <2>1, <2>3 DEF BalanceInv, OnePayoutPerBalance
    <2>7. QED
      BY <2>5, <2>6
  <1>5. ASSUME NEW j \in Jobs, LandConfigure(j) PROVE OpeningsInv' /\ OnePayoutPerBalance'
    BY <1>4, <1>5 DEF LandConfigure, tokenVars
  <1>6. ASSUME NEW j \in Jobs, LandApply(j) PROVE OpeningsInv' /\ OnePayoutPerBalance'
    BY <1>4, <1>6 DEF LandApply, Ciphertext, Nothing
  <1>7. ASSUME NEW j \in Jobs, LandPay(j) PROVE OpeningsInv' /\ OnePayoutPerBalance'
    BY <1>7, PayBalance
  <1>8. ASSUME NEW p \in Payments, PayIn(p) PROVE OpeningsInv' /\ OnePayoutPerBalance'
    <2>1. UNCHANGED <<available, job, args, landings>> /\ Payouts' = Payouts
      BY <1>8 DEF PayIn, Payouts, jobVars
    <2>2. pending'.from = pending.from \cup {<<p, 0>>}
      BY <1>8 DEF PayIn, Ciphertext
    <2>3. QED
      BY <2>1, <2>2 DEF BalanceInv, OpeningsInv, OnePayoutPerBalance
  <1>9. QED
    BY <1>2, <1>3, <1>5, <1>6, <1>7, <1>8 DEF Next

\* prepare_transfer, pay: of all payouts prepared from one state of the vault's balance, and
\* of all the times each of them is sent, at most one lands.
THEOREM OnePayoutPerBalanceHolds == Spec => []OnePayoutPerBalance
  <1>1. BalanceInv => OnePayoutPerBalance
    BY DEF BalanceInv
  <1>2. QED
    BY <1>1, InitBalance, StepBalance, PTL DEF Spec

-----------------------------------------------------------------------------
(* The decryptable balance.                                                *)

DecryptableInv == TypedInv /\ UpdateInv /\ AgreesUnlessOvertaken

LEMMA InitDecryptable == Init => DecryptableInv
  BY InitTyped DEF Init, DecryptableInv, UpdateInv, AgreesUnlessOvertaken

LEMMA PreparedDecryptable ==
    ASSUME DecryptableInv, NEW j \in Jobs, NEW op \in {"configure", "apply", "pay"},
           NEW x, NEW a, NEW p,
           op = "apply" => a = Update,
           Prepared(j, op, x, a, p)
    PROVE  UpdateInv' /\ AgreesUnlessOvertaken'
  <1>1. UNCHANGED <<available, pending, counter, decryptable, drifted>>
    BY DEF Prepared, tokenVars
  <1>2. /\ \A i \in Jobs \ {j} : /\ job'[i] = job[i] /\ args'[i] = args[i] /\ pc'[i] = pc[i]
                                 /\ i \in overtaken' <=> i \in overtaken
        /\ job'[j].op = op /\ args'[j] = a
    BY DEF Prepared, DecryptableInv, TypedInv, TypeOK
  <1>3. a = Update => /\ a.counter <= counter
                      /\ ~drifted => a.dec = available.val + pending.val
    BY LimitAssumption DEF Update, DecryptableInv, AgreesUnlessOvertaken, TypedInv, TypeOK
  <1>4. UpdateInv'
    <2> SUFFICES ASSUME NEW i \in Jobs, pc'[i] # "idle", job'[i].op = "apply", i \notin overtaken'
                 PROVE  /\ args'[i].counter <= counter
                        /\ args'[i].counter = counter /\ ~drifted =>
                              args'[i].dec = available.val + pending.val
      BY <1>1 DEF UpdateInv
    <2>1. CASE i = j
      BY <1>2, <1>3, <2>1
    <2>2. CASE i # j
      BY <1>2, <2>2 DEF DecryptableInv, UpdateInv
    <2>3. QED
      BY <2>1, <2>2
  <1>5. QED
    BY <1>1, <1>4 DEF DecryptableInv, AgreesUnlessOvertaken

LEMMA StepDecryptable == DecryptableInv /\ [Next]_vars => DecryptableInv'
  <1> SUFFICES ASSUME DecryptableInv, [Next]_vars PROVE UpdateInv' /\ AgreesUnlessOvertaken'
    BY StepTyped DEF DecryptableInv
  \* Sending and closing leave all that the two speak of, or take a job further from idle.
  <1>1. ASSUME UNCHANGED <<available, pending, counter, decryptable, drifted, job, args, overtaken>>,
               \A j \in Jobs : pc'[j] # "idle" => pc[j] # "idle"
        PROVE  UpdateInv' /\ AgreesUnlessOvertaken'
    BY <1>1 DEF DecryptableInv, UpdateInv, AgreesUnlessOvertaken
  <1>2. CASE Initialize \/ UNCHANGED vars \/ \E j \in Jobs : Send(j) \/ Recover(j)
    BY <1>1, <1>2 DEF Initialize, Send, Recover, vars, tokenVars, jobVars
  <1>3. ASSUME NEW j \in Jobs, Close(j) PROVE UpdateInv' /\ AgreesUnlessOvertaken'
    BY <1>1, <1>3 DEF Close, tokenVars, DecryptableInv, TypedInv, TypeOK
  <1>4. ASSUME NEW j \in Jobs, PrepareConfigure(j) \/ PreparePay(j) \/ ComputeUpdate(j)
        PROVE  UpdateInv' /\ AgreesUnlessOvertaken'
    BY <1>4, PreparedDecryptable DEF PrepareConfigure, PreparePay, ComputeUpdate
  <1>5. ASSUME NEW j \in Jobs, LandConfigure(j) PROVE UpdateInv' /\ AgreesUnlessOvertaken'
    BY <1>1, <1>5 DEF LandConfigure, Lands, tokenVars, jobVars
  <1>6. ASSUME NEW j \in Jobs, LandApply(j) PROVE UpdateInv' /\ AgreesUnlessOvertaken'
    <2>1. job[j].op = "apply" /\ pc[j] # "idle" /\ UNCHANGED pc
      BY <1>6 DEF LandApply, Lands, jobVars, DecryptableInv, TypedInv, IdleInv
    <2>2. UpdateInv'
      BY <1>6, <2>1 DEF LandApply, Overtakes, UpdateInv
    <2>3. ASSUME ~drifted' PROVE decryptable' = available'.val
      <3>1. ~drifted /\ j \notin overtaken /\ counter = args[j].counter
        BY <1>6, <2>3 DEF LandApply, DecryptableInv, TypedInv, TypeOK
      <3>2. args[j].dec = available.val + pending.val
        BY <2>1, <3>1 DEF DecryptableInv, UpdateInv
      <3>3. QED
        BY <1>6, <3>2 DEF LandApply, Ciphertext
    <2>4. QED
      BY <2>2, <2>3 DEF AgreesUnlessOvertaken
  <1>7. ASSUME NEW j \in Jobs, LandPay(j) PROVE UpdateInv' /\ AgreesUnlessOvertaken'
    <2>1. j \in Payouts /\ args[j].ct = available /\ UNCHANGED pc
      BY <1>7 DEF LandPay, Lands, ProofsHold, Payouts, jobVars
    <2>2. UpdateInv'
      BY <1>7, <2>1 DEF LandPay, Overtakes, UpdateInv
    <2>3. decryptable' = available'.val
      BY <1>7, <2>1 DEF LandPay, Ciphertext, DecryptableInv, TypedInv, PreparedInv
    <2>4. QED
      BY <2>2, <2>3 DEF AgreesUnlessOvertaken
  \* A payment in moves the counter past that of every update computed so far.
  <1>8. ASSUME NEW p \in Payments, PayIn(p) PROVE UpdateInv' /\ AgreesUnlessOvertaken'
    <2>1. UNCHANGED <<available, decryptable, drifted, pc, job, args, overtaken>>
      BY <1>8 DEF PayIn, jobVars
    <2>2. \A j \in Jobs : args[j].counter \in Nat
      BY DEF DecryptableInv, TypedInv, TypeOK, Arguments
    <2>3. counter \in Nat /\ counter' = counter + 1
      BY <1>8, LimitAssumption DEF PayIn, DecryptableInv, TypedInv, TypeOK
    <2>4. UpdateInv'
      BY <2>1, <2>2, <2>3 DEF DecryptableInv, UpdateInv
    <2>5. QED
      BY <2>1, <2>4 DEF DecryptableInv, AgreesUnlessOvertaken
  <1>9. QED
    BY <1>2, <1>3, <1>4, <1>5, <1>6, <1>7, <1>8 DEF Next

\* pending_balance_update, apply_pending: as long as no update landed that something had come
\* before, what the owner reads is what the vault holds.
THEOREM AgreesUnlessOvertakenHolds == Spec => []AgreesUnlessOvertaken
  <1>1. DecryptableInv => AgreesUnlessOvertaken
    BY DEF DecryptableInv
  <1>2. QED
    BY <1>1, InitDecryptable, StepDecryptable, PTL DEF Spec
=============================================================================
