-------------------------- MODULE ProofFlowProofs --------------------------
(***************************************************************************)
(* The safety of one transfer() or withdraw() call, for every plan, number *)
(* of retries and batch size.                                              *)
(***************************************************************************)
EXTENDS ProofFlow, TLAPS

-----------------------------------------------------------------------------
(* The inductive invariant, in parts.                                      *)

\* Where the call is, its error and its answer agree.
ControlInv ==
    /\ outcome # "none" => pc = "returned"
    /\ outcome = "ok" => next > ActionIndex
    /\ outcome = "REJECTED" => next <= ActionIndex /\ lost = {}
    /\ outcome = "TRANSACTION_EXPIRED" => next <= ActionIndex /\ code = "TRANSACTION_EXPIRED"
    /\ pc = "send" => code = "none"
    /\ pc = "prepare" => next <= ActionIndex

\* A transaction is given up on only by the attempt that is then the last.
LostInv ==
    \A id \in lost :
        /\ id = <<attempt, next>>
        /\ code = "TRANSACTION_FAILED"
        /\ pc \in {"cleanup", "returned", "crashed"}

\* Only the current attempt can have acted, and then its loop knows it or
\* its action transaction was given up on.
ActedInv ==
    /\ \A n \in Attempts : Acted(n) => n = attempt
    /\ Acted(attempt) => next > ActionIndex \/ <<attempt, ActionIndex>> \in lost
    /\ next > ActionIndex => Acted(attempt)

PayInv == TypeOK /\ ControlInv /\ LostInv /\ ActedInv

-----------------------------------------------------------------------------
(* Lemmas about the plan and the chain.                                    *)

\* actionIndex is the index of the transaction that acts.
LEMMA ActionIndexType ==
    /\ ActionIndex \in 1..Len(Plan)
    /\ Plan[ActionIndex].act
    /\ Len(Plan) \in Nat
  <1>1. \E i \in 1..Len(Plan) : Plan[i].act
    BY PlanAssumption
  <1>2. QED
    BY <1>1, PlanAssumption DEF ActionIndex

LEMMA PlanCloses == \A i \in 1..Len(Plan) : Plan[i].close \subseteq Proofs
  <1> TAKE i \in 1..Len(Plan)
  <1>1. Plan[i] \in PlannedTx
    BY PlanAssumption
  <1>2. QED
    BY <1>1 DEF PlannedTx

\* A transaction that lands leaves well-formed accounts and is recorded.
LEMMA LandTxType ==
    ASSUME TypeOK, NEW id \in TxId, LandTx(id)
    PROVE  /\ account' \in [Address -> {"none", "created", "verified", "closed"}]
           /\ landed' = landed \cup {id}
           /\ landed' \subseteq TxId
  BY DEF LandTx, AfterTx, TypeOK

\* closeProofAccounts writes well-formed records.
LEMMA AfterBatchType ==
    ASSUME TypeOK, NEW w \in Closers, NEW b \in NextBatches(w), NEW c \in SUBSET b
    PROVE  AfterBatch(w, b, c) \in [Closers -> ClosingRec]
  <1>1. closing \in [Closers -> ClosingRec] /\ closing[w] \in ClosingRec
    BY DEF TypeOK
  <1>2. closing[w].todo \ b \subseteq Address /\ closing[w].closed \cup c \subseteq Address
    BY <1>1 DEF NextBatches, ClosingRec
  <1>3. ASSUME NEW T \in SUBSET Address, NEW D \in SUBSET Address, NEW s \in {"done", "send"}
        PROVE  [closing[w] EXCEPT !.todo = T, !.closed = D, !.st = s] \in ClosingRec
    BY <1>1 DEF ClosingRec
  <1>4. QED
    BY <1>1, <1>2, <1>3 DEF AfterBatch

LEMMA ResetType ==
    ASSUME TypeOK, NEW w \in Closers, NEW A \in SUBSET Address, NEW s \in {"idle", "read"}
    PROVE  [closing EXCEPT ![w] = [NotClosing EXCEPT !.st = s, !.asked = A]]
              \in [Closers -> ClosingRec]
  BY DEF NotClosing, TypeOK, ClosingRec

\* Init establishes, and every step keeps, the types.
THEOREM TypeCorrect == Spec => []TypeOK
  <1>1. Init => TypeOK
    BY ActionIndexType, RetriesAssumption
       DEF Init, TypeOK, Attempts, Codes, ClosingRec, NotClosing
  <1>2. TypeOK /\ [Next]_vars => TypeOK'
    <2> SUFFICES ASSUME TypeOK, [Next]_vars PROVE TypeOK'
      OBVIOUS
    <2> USE DEF TypeOK, Codes
    <2>1. CASE Prepare
      BY <2>1, ActionIndexType DEF Prepare, chainVars, wireVars, answerVars
    <2>2. CASE PrepareFails
      BY <2>2 DEF PrepareFails, chainVars, wireVars
    <2>3. CASE StepLands
      <3>1. <<attempt, next>> \in TxId
        BY <2>3, ActionIndexType DEF StepLands, TxId
      <3>2. next + 1 \in 1..(Len(Plan) + 1)
        BY <2>3, ActionIndexType DEF StepLands
      <3>3. QED
        BY <2>3, <3>1, <3>2, LandTxType DEF StepLands, wireVars, answerVars
    <2>4. ASSUME NEW c \in {"TRANSACTION_FAILED", "TRANSACTION_EXPIRED"}, Catch(c),
                 lost' \subseteq TxId, lostCloses' = lostCloses
          PROVE  TypeOK'
      <3>1. AddressesOf(attempt, Proofs) \in SUBSET Address
        BY DEF AddressesOf, Address
      <3>2. closing' \in [Closers -> ClosingRec]
        BY <2>4, <3>1, ResetType DEF Catch, Closers
      <3>3. QED
        BY <2>4, <3>2 DEF Catch, chainVars, answerVars
    <2>5. CASE StepFails
      BY <2>5, <2>4 DEF StepFails, wireVars
    <2>6. CASE StepExpires
      BY <2>6, <2>4 DEF StepExpires, wireVars
    <2>7. CASE StepLost
      <3>1. <<attempt, next>> \in TxId
        BY <2>7, ActionIndexType DEF StepLost, TxId
      <3>2. QED
        BY <2>7, <3>1, <2>4 DEF StepLost
    <2>8. CASE FlowReturns
      BY <2>8 DEF FlowReturns, chainVars, wireVars
    <2>9. [closing EXCEPT !["flow"] = NotClosing] \in [Closers -> ClosingRec]
      BY DEF NotClosing, ClosingRec
    <2>10. CASE CleanupReturns
      <3>1. LeftOpenOf("flow") \subseteq Address /\ closing["flow"].closed \subseteq Address
        BY DEF LeftOpenOf, ClosingRec, Closers
      <3>2. QED
        BY <2>10, <2>9, <3>1 DEF CleanupReturns, chainVars, wireVars
    <2>11. CASE CleanupRetries
      BY <2>11, <2>9, RetriesAssumption
         DEF CleanupRetries, Retryable, Attempts, chainVars, wireVars, answerVars
    <2>12. CASE Crash
      BY <2>12, <2>9 DEF Crash, chainVars, wireVars, answerVars
    <2>13. ASSUME NEW w \in Closers, CloseStep(w) PROVE TypeOK'
      <3>1. closing[w] \in ClosingRec
        OBVIOUS
      <3>2. CASE CloseReads(w)
        BY <3>1, <3>2 DEF CloseReads, ClosingRec, chainVars, wireVars, callVars, answerVars
      <3>3. CASE CloseReadFails(w)
        BY <3>1, <3>3 DEF CloseReadFails, ClosingRec, chainVars, wireVars, callVars, answerVars
      <3>4. CASE CloseBatchLands(w)
        BY <3>4, AfterBatchType
           DEF CloseBatchLands, AfterCloses, wireVars, callVars, answerVars
      <3>5. CASE CloseBatchFails(w)
        BY <3>5, AfterBatchType
           DEF CloseBatchFails, chainVars, wireVars, callVars, answerVars
      <3>6. CASE CloseBatchLost(w)
        <4>1. \A b \in NextBatches(w) : b \subseteq Address
          BY <3>1 DEF NextBatches, ClosingRec
        <4>2. QED
          BY <3>6, <4>1, AfterBatchType
             DEF CloseBatchLost, chainVars, callVars, answerVars
      <3>7. QED
        BY <2>13, <3>2, <3>3, <3>4, <3>5, <3>6 DEF CloseStep
    <2>14. CASE RecoverFinds
      BY <2>14, ResetType
         DEF RecoverFinds, Closers, chainVars, wireVars, callVars, answerVars
    <2>15. CASE RecoverReturns
      BY <2>15 DEF RecoverReturns, NotClosing, ClosingRec, chainVars, wireVars, callVars, answerVars
    <2>16. CASE LostTxLands
      BY <2>16, LandTxType DEF LostTxLands, wireVars, callVars, answerVars
    <2>17. CASE LostClosesLand
      BY <2>17 DEF LostClosesLand, AfterCloses, wireVars, callVars, answerVars
    <2>18. CASE UNCHANGED vars
      BY <2>18 DEF vars, chainVars, wireVars, callVars, answerVars
    <2>19. QED
      BY <2>1, <2>2, <2>3, <2>5, <2>6, <2>7, <2>8, <2>10, <2>11, <2>12, <2>13, <2>14, <2>15,
         <2>16, <2>17, <2>18 DEF Next, CallStep
  <1>3. QED
    BY <1>1, <1>2, PTL DEF Spec

-----------------------------------------------------------------------------
(* The call pays at most once, and answers truthfully.                     *)

\* A step that leaves the call, the planned transactions and the wire alone
\* keeps the invariant.
LEMMA PayInvFrame ==
    ASSUME PayInv, UNCHANGED <<landed, lost, callVars>>
    PROVE  (ControlInv /\ LostInv /\ ActedInv)'
  BY DEF PayInv, ControlInv, LostInv, ActedInv, Acted, callVars, answerVars

LEMMA PayInvInit == Init => PayInv
  <1> SUFFICES ASSUME Init PROVE PayInv
    OBVIOUS
  <1>1. TypeOK
    BY ActionIndexType, RetriesAssumption
       DEF Init, TypeOK, Attempts, Codes, ClosingRec, NotClosing
  <1>2. ControlInv /\ LostInv /\ ActedInv
    BY ActionIndexType DEF Init, ControlInv, LostInv, ActedInv, Acted
  <1>3. QED
    BY <1>1, <1>2 DEF PayInv

LEMMA PayInvStep == PayInv /\ TypeOK' /\ [Next]_vars => PayInv'
  <1> SUFFICES ASSUME PayInv, TypeOK', [Next]_vars PROVE (ControlInv /\ LostInv /\ ActedInv)'
    BY DEF PayInv
  <1> USE DEF PayInv
  <1>0. ActionIndex \in Nat /\ Len(Plan) \in Nat /\ ActionIndex <= Len(Plan) /\ ActionIndex >= 1
        /\ attempt \in Nat /\ next \in Nat
    BY ActionIndexType, RetriesAssumption DEF TypeOK, Attempts
  <1>1. CASE Prepare
    BY <1>1, <1>0 DEF Prepare, ControlInv, LostInv, ActedInv, Acted, chainVars, wireVars, answerVars
  <1>2. CASE PrepareFails
    BY <1>2, <1>0 DEF PrepareFails, ControlInv, LostInv, ActedInv, Acted, chainVars, wireVars
  <1>3. CASE StepLands
    <2>1. /\ landed' = landed \cup {<<attempt, next>>}
          /\ <<attempt, next>> \in TxId
          /\ next' = next + 1
          /\ UNCHANGED <<lost, pc, attempt, code, outcome>>
          /\ pc = "send" /\ lost = {}
      BY <1>3, <1>0 DEF StepLands, LandTx, TxId, TypeOK, LostInv, wireVars, answerVars
    <2>2. ControlInv' /\ LostInv'
      BY <2>1, <1>0 DEF ControlInv, LostInv
    <2>3. \A n : Acted(n)' <=> Acted(n) \/ (n = attempt /\ next = ActionIndex)
      BY <2>1 DEF Acted
    <2>4. ActedInv'
      <3>1. attempt' = attempt /\ lost' = {} /\ next' = next + 1
        BY <2>1
      <3>2. Acted(attempt)' <=> Acted(attempt) \/ next = ActionIndex
        BY <2>1 DEF Acted
      <3>3. Acted(attempt)' <=> next' > ActionIndex
        BY <3>1, <3>2, <2>1, <1>0 DEF ActedInv
      <3>4. \A n \in Attempts : Acted(n)' => n = attempt
        BY <2>3 DEF ActedInv
      <3>5. QED
        BY <3>1, <3>3, <3>4 DEF ActedInv, Acted
    <2>5. QED
      BY <2>2, <2>4
  <1>4. ASSUME pc = "send", NEW c \in {"TRANSACTION_FAILED", "TRANSACTION_EXPIRED"}, Catch(c),
               \/ lost' = lost
               \/ lost' = lost \cup {<<attempt, next>>} /\ c = "TRANSACTION_FAILED"
        PROVE  (ControlInv /\ LostInv /\ ActedInv)'
    <2>1. lost = {} /\ outcome = "none"
      BY <1>4 DEF LostInv, ControlInv
    <2>2. UNCHANGED <<landed, attempt, next, outcome>> /\ pc' = "cleanup" /\ code' = c
      BY <1>4 DEF Catch, chainVars, answerVars
    <2>3. QED
      BY <1>4, <2>1, <2>2 DEF ControlInv, LostInv, ActedInv, Acted
  <1>5. CASE StepFails
    BY <1>5, <1>4 DEF StepFails, wireVars
  <1>6. CASE StepExpires
    BY <1>6, <1>4 DEF StepExpires, wireVars
  <1>7. CASE StepLost
    BY <1>7, <1>4 DEF StepLost
  <1>8. CASE FlowReturns
    BY <1>8, <1>0 DEF FlowReturns, ControlInv, LostInv, ActedInv, Acted, chainVars, wireVars
  <1>9. CASE CleanupReturns
    BY <1>9, <1>0 DEF CleanupReturns, ActionLanded, ControlInv, LostInv, ActedInv, Acted,
                      chainVars, wireVars, TypeOK, Codes
  <1>10. CASE CleanupRetries
    <2>1. code = "TRANSACTION_EXPIRED" /\ next <= ActionIndex /\ lost = {}
      BY <1>10, <1>0 DEF CleanupRetries, ActionLanded, Retryable, LostInv
    <2>2. \A n \in Attempts : ~Acted(n)
      BY <2>1, <1>0 DEF ActedInv, TypeOK
    <2>3. UNCHANGED <<landed, lost, next, code, outcome>> /\ pc' = "prepare" /\ attempt' \in Attempts
      BY <1>10 DEF CleanupRetries, TypeOK, chainVars, wireVars, answerVars
    <2>4. outcome = "none"
      BY <1>10 DEF CleanupRetries, ControlInv
    <2>5. QED
      BY <2>1, <2>2, <2>3, <2>4, <1>0 DEF ControlInv, LostInv, ActedInv, Acted
  <1>11. CASE Crash
    BY <1>11, <1>0 DEF Crash, ControlInv, LostInv, ActedInv, Acted, chainVars, wireVars, answerVars
  <1>12. ASSUME NEW w \in Closers, CloseStep(w)
         PROVE  (ControlInv /\ LostInv /\ ActedInv)'
    BY <1>12, PayInvFrame
       DEF CloseStep, CloseReads, CloseReadFails, CloseBatchLands, CloseBatchFails,
           CloseBatchLost, chainVars, wireVars
  <1>13. CASE RecoverFinds \/ RecoverReturns \/ LostClosesLand
    BY <1>13, PayInvFrame DEF RecoverFinds, RecoverReturns, LostClosesLand, chainVars, wireVars
  <1>14. CASE LostTxLands
    <2>1. PICK id \in lost : LandTx(id)
      BY <1>14 DEF LostTxLands
    <2>2. id = <<attempt, next>> /\ UNCHANGED <<lost, callVars>>
      BY <1>14, <2>1 DEF LostTxLands, LostInv, wireVars
    <2>3. UNCHANGED <<pc, attempt, next, code, outcome>>
      BY <2>2 DEF callVars, answerVars
    <2>4. \A n : Acted(n)' <=> Acted(n) \/ (n = attempt /\ next = ActionIndex)
      BY <2>1, <2>2 DEF LandTx, Acted
    <2>5. ActedInv'
      BY <2>1, <2>2, <2>3, <2>4, <1>0 DEF ActedInv, Acted
    <2>6. QED
      BY <2>2, <2>3, <2>5 DEF ControlInv, LostInv
  <1>15. CASE UNCHANGED vars
    BY <1>15, PayInvFrame DEF vars, chainVars, wireVars
  <1>16. QED
    BY <1>1, <1>2, <1>3, <1>5, <1>6, <1>7, <1>8, <1>9, <1>10, <1>11, <1>12, <1>13, <1>14, <1>15
       DEF Next, CallStep

LEMMA PayInvCorrect == Spec => []PayInv
  <1>1. QED
    BY PayInvInit, PayInvStep, TypeCorrect, PTL DEF Spec

\* The invariant says that only the current attempt can have acted ...
LEMMA PayInvOnce == PayInv => PaysAtMostOnce
  BY DEF PayInv, ActedInv, PaysAtMostOnce

\* ... and whether it has, once the call has answered.
LEMMA PayInvAnswer == PayInv => AnswerIsTrue
  <1> SUFFICES ASSUME PayInv PROVE AnswerIsTrue
    OBVIOUS
  <1>1. attempt \in Attempts /\ next \in Nat /\ ActionIndex \in Nat
    BY ActionIndexType DEF PayInv, TypeOK
  <1>2. outcome = "ok" => Paid
    BY <1>1 DEF PayInv, ControlInv, ActedInv, Paid, PaidBy
  <1>3. ASSUME outcome \in {"TRANSACTION_EXPIRED", "REJECTED"} PROVE ~Paid
    <2>1. lost = {} /\ next <= ActionIndex
      BY <1>3 DEF PayInv, ControlInv, LostInv
    <2>2. QED
      BY <2>1, <1>1 DEF PayInv, ActedInv, Paid, PaidBy
  <1>4. QED
    BY <1>2, <1>3 DEF AnswerIsTrue

\* One call pays at most once, for every plan and number of retries.
THEOREM PaysAtMostOnceHolds == Spec => []PaysAtMostOnce
  BY PayInvCorrect, PayInvOnce, PTL

\* Its answer is true when it is given and stays true.
THEOREM AnswerIsTrueHolds == Spec => []AnswerIsTrue
  BY PayInvCorrect, PayInvAnswer, PTL

-----------------------------------------------------------------------------
(* The call implements module Payment.                                     *)

\* A step either answers, or lands at most one more planned transaction.
LEMMA StepShape ==
    ASSUME PayInv, [Next]_vars
    PROVE  \/ /\ outcome' = outcome
              /\ \/ landed' = landed
                 \/ \E id \in TxId \ landed : landed' = landed \cup {id}
           \/ landed' = landed /\ outcome = "none"
  <1> USE DEF PayInv
  <1>1. CASE Prepare
    BY <1>1 DEF Prepare, chainVars, answerVars
  <1>2. CASE PrepareFails
    BY <1>2 DEF PrepareFails, ControlInv, chainVars
  <1>3. CASE StepLands
    <2>1. <<attempt, next>> \in TxId
      BY <1>3, ActionIndexType DEF StepLands, TxId, TypeOK
    <2>2. QED
      BY <1>3, <2>1 DEF StepLands, LandTx, answerVars
  <1>4. CASE StepFails \/ StepExpires \/ StepLost
    BY <1>4 DEF StepFails, StepExpires, StepLost, Catch, chainVars, answerVars
  <1>5. CASE FlowReturns
    BY <1>5 DEF FlowReturns, ControlInv, chainVars
  <1>6. CASE CleanupReturns
    BY <1>6 DEF CleanupReturns, ControlInv, chainVars
  <1>7. CASE CleanupRetries \/ Crash
    BY <1>7 DEF CleanupRetries, Crash, chainVars, answerVars
  <1>8. CASE \E w \in Closers : CloseStep(w)
    BY <1>8 DEF CloseStep, CloseReads, CloseReadFails, CloseBatchLands, CloseBatchFails,
                CloseBatchLost, chainVars, callVars, answerVars
  <1>9. CASE RecoverFinds \/ RecoverReturns \/ LostClosesLand
    BY <1>9 DEF RecoverFinds, RecoverReturns, LostClosesLand, chainVars, callVars, answerVars
  <1>10. CASE LostTxLands
    BY <1>10 DEF LostTxLands, LandTx, TypeOK, callVars, answerVars
  <1>11. CASE UNCHANGED vars
    BY <1>11 DEF vars, chainVars, callVars, answerVars
  <1>12. QED
    BY <1>1, <1>2, <1>3, <1>4, <1>5, <1>6, <1>7, <1>8, <1>9, <1>10, <1>11 DEF Next, CallStep

\* Every step of the call is a step of Payment, or changes nothing of it.
LEMMA PromiseStep ==
    ASSUME PayInv, PayInv', [Next]_vars
    PROVE  [Promise!Next]_<<PaidBy, AnswerOf>>
  <1>1. PaysAtMostOnce' /\ AnswerIsTrue'
    BY PayInvOnce, PayInvAnswer, PTL
  <1>2. ASSUME landed' = landed, outcome' = outcome
        PROVE  UNCHANGED <<PaidBy, AnswerOf>>
    BY <1>2 DEF PaidBy, Acted, AnswerOf
  <1>3. ASSUME outcome' = outcome, NEW id \in TxId \ landed, landed' = landed \cup {id}
        PROVE  [Promise!Next]_<<PaidBy, AnswerOf>>
    <2>1. AnswerOf' = AnswerOf
      BY <1>3 DEF AnswerOf
    <2>2. CASE PaidBy' = PaidBy
      BY <2>1, <2>2
    <2>3. CASE PaidBy' # PaidBy
      <3>1. PICK n \in Attempts : Acted(n)' /\ ~Acted(n)
        BY <1>3, <2>3 DEF PaidBy, Acted
      <3>2. PaidBy' = {n}
        BY <3>1, <1>1 DEF PaysAtMostOnce, PaidBy
      <3>3. PaidBy = {}
        <4>1. PaidBy \subseteq PaidBy'
          BY <1>3 DEF PaidBy, Acted
        <4>2. n \notin PaidBy
          BY <3>1 DEF PaidBy
        <4>3. QED
          BY <4>1, <4>2, <3>2
      <3>4. AnswerOf # "unpaid"
        <4>1. ASSUME AnswerOf = "unpaid" PROVE FALSE
          <5>1. outcome \in {"TRANSACTION_EXPIRED", "REJECTED"}
            BY <4>1 DEF AnswerOf
          <5>2. QED
            BY <5>1, <1>3, <1>1, <3>2 DEF AnswerIsTrue, Paid
        <4>2. QED
          BY <4>1
      <3>5. Promise!Pay
        BY <2>1, <3>2, <3>3, <3>4 DEF Promise!Pay
      <3>6. QED
        BY <3>5 DEF Promise!Next
    <2>4. QED
      BY <2>2, <2>3
  <1>4. ASSUME landed' = landed, outcome = "none", outcome' # outcome
        PROVE  Promise!Answer
    <2>1. PaidBy' = PaidBy /\ AnswerOf = "none"
      BY <1>4 DEF PaidBy, Acted, AnswerOf
    <2>2. outcome' \in {"ok", "REJECTED", "TRANSACTION_FAILED", "TRANSACTION_EXPIRED"}
      BY <1>4 DEF PayInv, TypeOK, Codes
    <2>3. CASE outcome' = "ok"
      <3>1. AnswerOf' = "paid" /\ PaidBy # {}
        BY <2>1, <2>3, <1>1 DEF AnswerOf, AnswerIsTrue, Paid
      <3>2. QED
        BY <2>1, <3>1 DEF Promise!Answer
    <2>4. CASE outcome' \in {"TRANSACTION_EXPIRED", "REJECTED"}
      <3>1. AnswerOf' = "unpaid" /\ PaidBy = {}
        BY <2>1, <2>4, <1>1 DEF AnswerOf, AnswerIsTrue, Paid
      <3>2. QED
        BY <2>1, <3>1 DEF Promise!Answer
    <2>5. CASE outcome' = "TRANSACTION_FAILED"
      <3>1. AnswerOf' = "unknown"
        BY <2>5 DEF AnswerOf
      <3>2. QED
        BY <2>1, <3>1 DEF Promise!Answer
    <2>6. QED
      BY <2>2, <2>3, <2>4, <2>5
  <1>5. QED
    BY StepShape, <1>2, <1>3, <1>4 DEF Promise!Next

\* transfer() and withdraw(), with retries, cleanup, recovery, lost
\* confirmations and crashes, implement Payment.
THEOREM KeepsPromiseHolds == Spec => KeepsPromise
  <1>1. Init => Promise!Init
    BY DEF Init, Promise!Init, PaidBy, Acted, AnswerOf
  <1>2. PayInv /\ PayInv' /\ [Next]_vars => [Promise!Next]_<<PaidBy, AnswerOf>>
    BY PromiseStep
  <1>3. QED
    BY <1>1, <1>2, PayInvCorrect, PTL DEF Spec, KeepsPromise, Promise!Spec

-----------------------------------------------------------------------------
(* Every proof account left open is reported.                              *)

\* An attempt that has sent nothing has no accounts.
UnsentInv ==
    \A n \in Attempts, p \in Proofs :
        n > attempt \/ (n = attempt /\ (pc = "prepare" \/ outcome = "REJECTED"))
            => account[<<n, p>>] = "none"

\* What the transactions sent so far close is closed.
SentInv ==
    pc = "send" =>
        \A i \in 1..Len(Plan) : i < next =>
            \A p \in Plan[i].close : account[<<attempt, p>>] = "closed"

\* closeProofAccounts never loses sight of an open account of the attempt.
CleanupInv ==
    pc = "cleanup" =>
        /\ closing["flow"].st \in {"read", "send", "done"}
        /\ closing["flow"].st = "read" =>
              /\ closing["flow"].asked = AddressesOf(attempt, Proofs)
              /\ closing["flow"].closed = {}
        /\ closing["flow"].st \in {"send", "done"} /\ lost = {} =>
              \A p \in Proofs : Exists(<<attempt, p>>) => <<attempt, p>> \in LeftOpenOf("flow")

OpenInv == UnsentInv /\ SentInv /\ CleanupInv /\ LeftOpenIsReported

\* A planned transaction touches only the accounts of its own attempt and
\* never reopens a closed one.
LEMMA LandTxAccounts ==
    ASSUME TypeOK, NEW id \in TxId, LandTx(id), NEW n \in Attempts, NEW p \in Proofs
    PROVE  /\ n # id[1] => account'[<<n, p>>] = account[<<n, p>>]
           /\ account[<<n, p>>] = "closed" => account'[<<n, p>>] = "closed"
           /\ n = id[1] /\ p \in Plan[id[2]].close => account'[<<n, p>>] = "closed"
  <1>1. <<n, p>> \in Address
    BY DEF Address
  <1>2. Plan[id[2]] \in PlannedTx
    BY PlanAssumption DEF TxId
  <1>3. \A P \in SUBSET Proofs : <<n, p>> \in AddressesOf(id[1], P) <=> n = id[1] /\ p \in P
    BY DEF AddressesOf
  <1>4. account'[<<n, p>>] =
            CASE n = id[1] /\ p \in Plan[id[2]].close -> "closed"
              [] n = id[1] /\ p \in Plan[id[2]].verify \ Plan[id[2]].close -> "verified"
              [] n = id[1] /\ p \in Plan[id[2]].create \ (Plan[id[2]].verify \cup Plan[id[2]].close)
                   -> "created"
              [] OTHER -> account[<<n, p>>]
    BY <1>1, <1>2, <1>3 DEF LandTx, AfterTx, PlannedTx
  <1>5. n = id[1] /\ p \in Plan[id[2]].create => account[<<n, p>>] = "none"
    BY DEF LandTx, Applies
  <1>6. n = id[1] /\ p \in Plan[id[2]].verify \ Plan[id[2]].create => account[<<n, p>>] = "created"
    BY DEF LandTx, Applies
  <1>7. QED
    BY <1>4, <1>5, <1>6

\* Closing only closes.
LEMMA ClosesAccounts ==
    ASSUME TypeOK, NEW b, BatchCloses(b), account' = AfterCloses(b), NEW a \in Address
    PROVE  /\ account'[a] # account[a] => account[a] = "verified" /\ account'[a] = "closed"
           /\ a \in b => account'[a] = "closed"
  BY DEF BatchCloses, AfterCloses

\* Closing accounts without moving the call keeps the invariant.
LEMMA OpenInvShrinks ==
    ASSUME TypeOK, OpenInv,
           \A a \in Address : account'[a] # account[a] => account[a] = "verified" /\ account'[a] = "closed",
           UNCHANGED <<pc, attempt, next, outcome, leftOpen, lost>>,
           closing'["flow"] = closing["flow"]
    PROVE  OpenInv'
  <1>1. \A n \in Attempts, p \in Proofs : <<n, p>> \in Address
    BY DEF Address
  <1>2. attempt \in Attempts
    BY DEF TypeOK
  <1>3. \A p \in Proofs : Exists(<<attempt, p>>)' => Exists(<<attempt, p>>)
    BY <1>1, <1>2 DEF Exists
  <1>4. UnsentInv'
    BY <1>1 DEF OpenInv, UnsentInv
  <1>5. SentInv'
    BY <1>1, <1>2, PlanCloses DEF OpenInv, SentInv
  <1>6. CleanupInv'
    BY <1>3 DEF OpenInv, CleanupInv, LeftOpenOf
  <1>7. LeftOpenIsReported'
    BY <1>3 DEF OpenInv, LeftOpenIsReported
  <1>8. QED
    BY <1>4, <1>5, <1>6, <1>7 DEF OpenInv

LEMMA OpenInvInit == Init => OpenInv
  <1> SUFFICES ASSUME Init PROVE OpenInv
    OBVIOUS
  <1>1. UnsentInv
    BY DEF Init, UnsentInv, Address
  <1>2. SentInv /\ CleanupInv /\ LeftOpenIsReported
    BY DEF Init, SentInv, CleanupInv, LeftOpenIsReported
  <1>3. QED
    BY <1>1, <1>2 DEF OpenInv

\* closeProofAccounts, called by the flow.
LEMMA OpenInvFlowCloses ==
    ASSUME PayInv, OpenInv, CloseStep("flow")
    PROVE  OpenInv'
  <1> DEFINE c == closing["flow"]
  <1>0. /\ \A n \in Attempts, p \in Proofs : <<n, p>> \in Address
        /\ attempt \in Attempts /\ TypeOK /\ c \in ClosingRec
        /\ \A i \in 1..Len(Plan) : Plan[i].close \subseteq Proofs
    BY PlanCloses DEF Address, PayInv, TypeOK, Closers
  <1>1. UNCHANGED <<pc, attempt, next, outcome, leftOpen>> /\ lost' = lost
    BY DEF CloseStep, CloseReads, CloseReadFails, CloseBatchLands, CloseBatchFails,
           CloseBatchLost, wireVars, callVars, answerVars
  <1>2. \A a \in Address : account'[a] # account[a] => account[a] = "verified" /\ account'[a] = "closed"
    BY <1>0, ClosesAccounts
       DEF CloseStep, CloseReads, CloseReadFails, CloseBatchLands, CloseBatchFails,
           CloseBatchLost, chainVars
  <1>3. \A p \in Proofs : Exists(<<attempt, p>>)' => Exists(<<attempt, p>>)
    BY <1>0, <1>1, <1>2 DEF Exists
  <1>4. UnsentInv' /\ SentInv' /\ LeftOpenIsReported'
    BY <1>0, <1>1, <1>2, <1>3 DEF OpenInv, UnsentInv, SentInv, LeftOpenIsReported
  <1>5. CleanupInv'
    <2> SUFFICES ASSUME pc = "cleanup" PROVE CleanupInv'
      BY <1>1 DEF CleanupInv
    <2>1. CASE CloseReads("flow")
      <3>1. /\ c.asked = AddressesOf(attempt, Proofs) /\ c.closed = {}
            /\ account' = account
        BY <2>1 DEF CloseReads, OpenInv, CleanupInv, chainVars
      <3>2. /\ closing'["flow"].existing = {a \in c.asked : Exists(a)}
            /\ closing'["flow"].closed = c.closed
            /\ closing'["flow"].st \in {"send", "done"}
        BY <2>1, <1>0 DEF CloseReads, TypeOK, Closers, ClosingRec
      <3>3. \A p \in Proofs : <<attempt, p>> \in c.asked
        BY <3>1 DEF AddressesOf
      <3>4. \A p \in Proofs : Exists(<<attempt, p>>) => <<attempt, p>> \in LeftOpenOf("flow")'
        BY <3>1, <3>2, <3>3 DEF LeftOpenOf
      <3>5. QED
        BY <3>2, <3>4, <1>1, <1>3 DEF CleanupInv
    <2>2. CASE CloseReadFails("flow")
      <3>1. c.asked = AddressesOf(attempt, Proofs) /\ c.closed = {}
        BY <2>2 DEF CloseReadFails, OpenInv, CleanupInv
      <3>2. /\ closing'["flow"].existing = c.asked
            /\ closing'["flow"].closed = c.closed
            /\ closing'["flow"].st = "done"
        BY <2>2, <1>0 DEF CloseReadFails, TypeOK, Closers, ClosingRec
      <3>3. \A p \in Proofs : <<attempt, p>> \in LeftOpenOf("flow")'
        BY <3>1, <3>2 DEF AddressesOf, LeftOpenOf
      <3>4. QED
        BY <3>2, <3>3, <1>1 DEF CleanupInv
    <2>3. ASSUME c.st = "send", NEW b \in NextBatches("flow"), NEW d \in {{}, b},
                 closing' = AfterBatch("flow", b, d),
                 \A p \in Proofs : <<attempt, p>> \in d => ~Exists(<<attempt, p>>)'
          PROVE  CleanupInv'
      <3>1. /\ closing'["flow"].existing = c.existing
            /\ closing'["flow"].closed = c.closed \cup d
            /\ closing'["flow"].st \in {"send", "done"}
        BY <2>3, <1>0 DEF AfterBatch, TypeOK, Closers, ClosingRec
      <3>2. lost = {} => \A p \in Proofs : Exists(<<attempt, p>>) => <<attempt, p>> \in c.existing \ c.closed
        BY <2>3 DEF OpenInv, CleanupInv, LeftOpenOf
      <3>3. QED
        BY <2>3, <3>1, <3>2, <1>1, <1>3 DEF CleanupInv, LeftOpenOf
    <2>4. CASE CloseBatchLands("flow")
      <3>1. PICK b \in NextBatches("flow") :
                BatchCloses(b) /\ account' = AfterCloses(b) /\ closing' = AfterBatch("flow", b, b)
        BY <2>4 DEF CloseBatchLands
      <3>2. \A p \in Proofs : <<attempt, p>> \in b => ~Exists(<<attempt, p>>)'
        BY <3>1, <1>0, <1>1, ClosesAccounts DEF Exists
      <3>3. QED
        BY <2>4, <3>1, <3>2, <2>3 DEF CloseBatchLands
    <2>5. CASE CloseBatchFails("flow") \/ CloseBatchLost("flow")
      BY <2>5, <2>3 DEF CloseBatchFails, CloseBatchLost
    <2>6. QED
      BY <2>1, <2>2, <2>4, <2>5 DEF CloseStep
  <1>6. QED
    BY <1>4, <1>5 DEF OpenInv

LEMMA OpenInvStep == PayInv /\ OpenInv /\ [Next]_vars => OpenInv'
  <1> SUFFICES ASSUME PayInv, OpenInv, [Next]_vars PROVE OpenInv'
    OBVIOUS
  <1>0. /\ \A n \in Attempts, p \in Proofs : <<n, p>> \in Address
        /\ attempt \in Attempts /\ attempt \in Nat /\ next \in Nat /\ Len(Plan) \in Nat
        /\ TypeOK /\ closing \in [Closers -> ClosingRec]
        /\ \A i \in 1..Len(Plan) : Plan[i].close \subseteq Proofs
    <2>1. \A n \in Attempts, p \in Proofs : <<n, p>> \in Address
      BY DEF Address
    <2>2. attempt \in Nat /\ next \in Nat /\ Len(Plan) \in Nat
      BY ActionIndexType, RetriesAssumption DEF PayInv, TypeOK, Attempts
    <2>3. QED
      BY <2>1, <2>2, PlanCloses DEF PayInv, TypeOK
  <1>1. CASE Prepare
    <2>1. /\ account' = account /\ attempt' = attempt /\ pc' = "send" /\ next' = 1
          /\ outcome' = outcome /\ outcome = "none"
      BY <1>1 DEF Prepare, chainVars, answerVars, PayInv, ControlInv
    <2>2. QED
      BY <2>1 DEF OpenInv, UnsentInv, SentInv, CleanupInv, LeftOpenIsReported
  <1>2. CASE PrepareFails
    <2>1. /\ account' = account /\ attempt' = attempt /\ pc = "prepare" /\ pc' = "returned"
      BY <1>2 DEF PrepareFails, chainVars
    <2>2. \A p \in Proofs : ~Exists(<<attempt, p>>)'
      BY <2>1, <1>0 DEF OpenInv, UnsentInv, Exists
    <2>3. QED
      BY <2>1, <2>2 DEF OpenInv, UnsentInv, SentInv, CleanupInv, LeftOpenIsReported
  <1>3. CASE StepLands
    <2>1. /\ pc = "send" /\ UNCHANGED <<pc, attempt, outcome, lost>> /\ next' = next + 1
          /\ <<attempt, next>> \in TxId /\ LandTx(<<attempt, next>>) /\ outcome = "none"
      BY <1>3, <1>0 DEF StepLands, TxId, TypeOK, wireVars, answerVars, PayInv, ControlInv
    <2>2. UnsentInv'
      BY <2>1, <1>0, LandTxAccounts DEF OpenInv, UnsentInv
    <2>3. SentInv'
      <3> SUFFICES ASSUME NEW i \in 1..Len(Plan), i < next + 1, NEW p \in Plan[i].close
                   PROVE  account'[<<attempt, p>>] = "closed"
        BY <2>1 DEF SentInv
      <3>1. p \in Proofs
        BY <1>0
      <3>2. CASE i < next
        BY <3>1, <3>2, <2>1, <1>0, LandTxAccounts DEF OpenInv, SentInv
      <3>3. CASE i = next
        BY <3>1, <3>3, <2>1, <1>0, LandTxAccounts
      <3>4. QED
        BY <3>2, <3>3, <1>0
    <2>4. QED
      BY <2>1, <2>2, <2>3 DEF OpenInv, CleanupInv, LeftOpenIsReported
  <1>4. CASE StepFails \/ StepExpires \/ StepLost
    <2>1. /\ UNCHANGED <<account, attempt, next, outcome>> /\ pc = "send" /\ pc' = "cleanup"
          /\ closing'["flow"] = [NotClosing EXCEPT !.st = "read", !.asked = AddressesOf(attempt, Proofs)]
      BY <1>4, <1>0 DEF StepFails, StepExpires, StepLost, Catch, chainVars, answerVars, Closers
    <2>2. /\ closing'["flow"].st = "read" /\ closing'["flow"].closed = {}
          /\ closing'["flow"].asked = AddressesOf(attempt, Proofs)
      BY <2>1 DEF NotClosing
    <2>3. QED
      BY <2>1, <2>2 DEF OpenInv, UnsentInv, SentInv, CleanupInv, LeftOpenIsReported
  <1>5. CASE FlowReturns
    <2>1. /\ UNCHANGED <<account, attempt>> /\ pc = "send" /\ next > Len(Plan)
          /\ pc' = "returned" /\ outcome' = "ok"
      BY <1>5 DEF FlowReturns, chainVars
    <2>2. \A p \in Proofs : account[<<attempt, p>>] = "closed"
      <3> TAKE p \in Proofs
      <3>1. PICK i \in 1..Len(Plan) : p \in Plan[i].close
        BY PlanAssumption
      <3>2. QED
        BY <3>1, <2>1, <1>0 DEF OpenInv, SentInv
    <2>3. QED
      BY <2>1, <2>2 DEF OpenInv, UnsentInv, SentInv, CleanupInv, LeftOpenIsReported, Exists
  <1>6. CASE CleanupReturns
    <2>1. /\ UNCHANGED <<account, attempt, lost>> /\ pc = "cleanup" /\ closing["flow"].st = "done"
          /\ pc' = "returned" /\ leftOpen' = LeftOpenOf("flow") /\ outcome' # "REJECTED"
      BY <1>6, <1>0 DEF CleanupReturns, chainVars, wireVars, TypeOK, Codes
    <2>2. LeftOpenIsReported'
      BY <2>1 DEF OpenInv, CleanupInv, LeftOpenIsReported, Exists
    <2>3. QED
      BY <2>1, <2>2 DEF OpenInv, UnsentInv, SentInv, CleanupInv
  <1>7. CASE CleanupRetries
    <2>1. UNCHANGED <<account, outcome>> /\ attempt' = attempt + 1 /\ pc' = "prepare" /\ outcome = "none"
      BY <1>7 DEF CleanupRetries, chainVars, answerVars, PayInv, ControlInv
    <2>2. UnsentInv'
      <3>1. \A n \in Attempts : n > attempt + 1 \/ n = attempt + 1 => n > attempt
        BY <1>0, RetriesAssumption DEF Attempts
      <3>2. QED
        BY <2>1, <3>1 DEF OpenInv, UnsentInv
    <2>3. QED
      BY <2>1, <2>2 DEF OpenInv, SentInv, CleanupInv, LeftOpenIsReported
  <1>8. CASE Crash
    <2>1. UNCHANGED <<account, attempt, outcome>> /\ pc' = "crashed" /\ outcome = "none"
      BY <1>8 DEF Crash, chainVars, answerVars, PayInv, ControlInv
    <2>2. QED
      BY <2>1 DEF OpenInv, UnsentInv, SentInv, CleanupInv, LeftOpenIsReported
  <1>9. CASE CloseStep("flow")
    BY <1>9, OpenInvFlowCloses
  <1>10. CASE CloseStep("recover")
    <2>1. UNCHANGED <<pc, attempt, next, outcome, leftOpen, lost>>
      BY <1>10 DEF CloseStep, CloseReads, CloseReadFails, CloseBatchLands, CloseBatchFails,
           CloseBatchLost, wireVars, callVars, answerVars
    <2>2. closing'["flow"] = closing["flow"]
      BY <1>10, <1>0 DEF CloseStep, CloseReads, CloseReadFails, CloseBatchLands, CloseBatchFails,
           CloseBatchLost, AfterBatch, Closers
    <2>3. \A a \in Address : account'[a] # account[a] => account[a] = "verified" /\ account'[a] = "closed"
      BY <1>10, <1>0, ClosesAccounts
         DEF CloseStep, CloseReads, CloseReadFails, CloseBatchLands, CloseBatchFails,
             CloseBatchLost, chainVars
    <2>4. QED
      BY <2>1, <2>2, <2>3, <1>0, OpenInvShrinks
  <1>11. CASE RecoverFinds \/ RecoverReturns
    <2>1. UNCHANGED <<account, pc, attempt, next, outcome, leftOpen, lost>>
      BY <1>11 DEF RecoverFinds, RecoverReturns, chainVars, wireVars, callVars, answerVars
    <2>2. closing'["flow"] = closing["flow"]
      BY <1>11, <1>0 DEF RecoverFinds, RecoverReturns, Closers
    <2>3. QED
      BY <2>1, <2>2, <1>0, OpenInvShrinks
  <1>12. CASE LostTxLands
    <2>1. PICK id \in lost : LandTx(id)
      BY <1>12 DEF LostTxLands
    <2>2. /\ id[1] = attempt /\ pc \in {"cleanup", "returned", "crashed"} /\ lost # {}
          /\ id \in TxId /\ outcome # "REJECTED"
      BY <2>1, <1>0 DEF PayInv, LostInv, TypeOK, ControlInv
    <2>3. UNCHANGED <<pc, attempt, next, outcome, leftOpen, lost, closing>>
      BY <1>12 DEF LostTxLands, wireVars, callVars, answerVars
    <2>4. UnsentInv'
      <3>1. \A n \in Attempts, p \in Proofs :
                n # attempt => account'[<<n, p>>] = account[<<n, p>>]
        BY <2>1, <2>2, <1>0, LandTxAccounts
      <3>2. \A n \in Attempts : n > attempt => n # attempt
        BY <1>0, RetriesAssumption DEF Attempts
      <3>3. QED
        BY <2>2, <2>3, <3>1, <3>2 DEF OpenInv, UnsentInv
    <2>5. QED
      BY <2>2, <2>3, <2>4 DEF OpenInv, SentInv, CleanupInv, LeftOpenIsReported
  <1>13. CASE LostClosesLand
    <2>1. UNCHANGED <<pc, attempt, next, outcome, leftOpen, lost, closing>>
      BY <1>13 DEF LostClosesLand, wireVars, callVars, answerVars
    <2>2. \A a \in Address : account'[a] # account[a] => account[a] = "verified" /\ account'[a] = "closed"
      BY <1>13, <1>0, ClosesAccounts DEF LostClosesLand
    <2>3. QED
      BY <2>1, <2>2, <1>0, OpenInvShrinks
  <1>14. CASE UNCHANGED vars
    <2>1. UNCHANGED <<account, pc, attempt, next, outcome, leftOpen, lost, closing>>
      BY <1>14 DEF vars, chainVars, wireVars, callVars, answerVars
    <2>2. QED
      BY <2>1, <1>0, OpenInvShrinks
  <1>15. QED
    BY <1>1, <1>2, <1>3, <1>4, <1>5, <1>6, <1>7, <1>8, <1>9, <1>10, <1>11, <1>12, <1>13, <1>14
       DEF Next, CallStep, Closers

\* Every proof account of the last attempt that is open when the call returns
\* is reported, for every plan that closes what it creates.
THEOREM LeftOpenIsReportedHolds == Spec => []LeftOpenIsReported
  <1>1. OpenInv => LeftOpenIsReported
    BY DEF OpenInv
  <1>2. QED
    BY <1>1, OpenInvInit, OpenInvStep, PayInvCorrect, PTL DEF Spec

-----------------------------------------------------------------------------
(* Proof accounts the call closed tell that it did not pay.                *)

\* Every plan but that of a transfer whose hook leaves no room.
ActionCloses == Plan[ActionIndex].close = Proofs

\* The action that landed closed its proof accounts.
ActedClosed ==
    \A n \in Attempts, p \in Proofs : Acted(n) => account[<<n, p>>] = "closed"

\* The call's cleanup asks for, and closes, accounts of its last attempt.
CleanupAsks ==
    pc = "cleanup" =>
        /\ closing["flow"].st = "read" => closing["flow"].closed = {}
        /\ closing["flow"].asked \subseteq AddressesOf(attempt, Proofs)
        /\ closing["flow"].todo \subseteq AddressesOf(attempt, Proofs)

\* One of the proofs of the last attempt is gone, and its action did not land.
ProofGone == ~Acted(attempt) /\ \E p \in Proofs : account[<<attempt, p>>] = "closed"

ClosedUnpaid ==
    /\ pc = "cleanup" /\ closing["flow"].closed # {} => ProofGone
    /\ outcome = "TRANSACTION_FAILED" /\ closedOut # {} => ProofGone

CleanedInv == ActionCloses => ActedClosed /\ CleanupAsks /\ ClosedUnpaid

LEMMA AttemptAddresses ==
    /\ \A n \in Attempts, p \in Proofs : <<n, p>> \in Address
    /\ \A n \in Attempts, P \in SUBSET Proofs : AddressesOf(n, P) \subseteq Address
  BY DEF Address, AddressesOf

\* The action needs every one of the proof accounts it closes, open.
LEMMA ActionLandsOnOpen ==
    ASSUME TypeOK, ActionCloses, NEW id \in TxId, LandTx(id), id[2] = ActionIndex,
           NEW p \in Proofs
    PROVE  account[<<id[1], p>>] # "closed" /\ account'[<<id[1], p>>] = "closed"
  <1>1. p \in Plan[id[2]].close /\ id[1] \in Attempts
    BY DEF ActionCloses, TxId
  <1>2. account'[<<id[1], p>>] = "closed"
    BY <1>1, LandTxAccounts
  <1>3. account[<<id[1], p>>] \in {"none", "created", "verified"}
    BY <1>1 DEF LandTx, Applies
  <1>4. QED
    BY <1>2, <1>3

\* A planned transaction that lands keeps what is known of payment.
LEMMA LandKeepsCleaned ==
    ASSUME PayInv, ActionCloses, ActedClosed, NEW id \in TxId, LandTx(id), id[1] = attempt,
           attempt' = attempt
    PROVE  /\ ActedClosed'
           /\ ProofGone => ProofGone'
  <1>0. TypeOK /\ attempt \in Attempts
    BY DEF PayInv, TypeOK
  <1>1. \A n : Acted(n)' <=> Acted(n) \/ <<n, ActionIndex>> = id
    BY DEF LandTx, Acted
  <1>2. \A n \in Attempts, p \in Proofs : account[<<n, p>>] = "closed" => account'[<<n, p>>] = "closed"
    BY <1>0, LandTxAccounts
  <1>3. ActedClosed'
    <2> SUFFICES ASSUME NEW n \in Attempts, NEW p \in Proofs, Acted(n)'
                 PROVE  account'[<<n, p>>] = "closed"
      BY DEF ActedClosed
    <2>1. CASE Acted(n)
      BY <1>2, <2>1 DEF ActedClosed
    <2>2. CASE <<n, ActionIndex>> = id
      <3>1. id[1] = n /\ id[2] = ActionIndex
        BY <2>2
      <3>2. QED
        BY <1>0, <3>1, ActionLandsOnOpen
    <2>3. QED
      BY <1>1, <2>1, <2>2
  <1>4. ASSUME ProofGone PROVE ProofGone'
    <2>1. PICK p \in Proofs : account[<<attempt, p>>] = "closed"
      BY <1>4 DEF ProofGone
    <2>2. id[2] # ActionIndex
      BY <1>0, <2>1, ActionLandsOnOpen
    <2>3. ~Acted(attempt)'
      BY <1>1, <1>4, <2>2 DEF ProofGone
    <2>4. QED
      BY <1>0, <1>2, <2>1, <2>3 DEF ProofGone, Acted
  <1>5. QED
    BY <1>3, <1>4

\* Closes of any caller keep it too.
LEMMA ClosesKeepCleaned ==
    ASSUME PayInv, ActedClosed, UNCHANGED <<landed, attempt>>,
           \A a \in Address : account'[a] # account[a] => account[a] = "verified" /\ account'[a] = "closed"
    PROVE  ActedClosed' /\ (ProofGone => ProofGone')
  <1>1. attempt \in Attempts
    BY DEF PayInv, TypeOK
  <1>2. \A n \in Attempts, p \in Proofs : account[<<n, p>>] = "closed" => account'[<<n, p>>] = "closed"
    BY AttemptAddresses
  <1>3. QED
    BY <1>1, <1>2 DEF ActedClosed, ProofGone, Acted

\* closeProofAccounts, called by the flow: what it closed was verified, so the
\* action that would have closed it has not landed.
LEMMA CleanedInvFlowCloses ==
    ASSUME PayInv, ActionCloses, ActedClosed, CleanupAsks, ClosedUnpaid, CloseStep("flow")
    PROVE  (ActedClosed /\ CleanupAsks /\ ClosedUnpaid)'
  <1> DEFINE c == closing["flow"]
  <1>0. /\ TypeOK /\ attempt \in Attempts /\ c \in ClosingRec /\ closing \in [Closers -> ClosingRec]
        /\ "flow" \in Closers
    BY DEF PayInv, TypeOK, Closers
  <1>1. UNCHANGED <<landed, pc, attempt, outcome, closedOut>>
    BY DEF CloseStep, CloseReads, CloseReadFails, CloseBatchLands, CloseBatchFails,
           CloseBatchLost, chainVars, callVars, answerVars
  <1>2. \A a \in Address : account'[a] # account[a] => account[a] = "verified" /\ account'[a] = "closed"
    BY <1>0, ClosesAccounts
       DEF CloseStep, CloseReads, CloseReadFails, CloseBatchLands, CloseBatchFails,
           CloseBatchLost, chainVars
  <1>3. ActedClosed' /\ (ProofGone => ProofGone')
    BY <1>1, <1>2, ClosesKeepCleaned
  <1>4. outcome' = "TRANSACTION_FAILED" /\ closedOut' # {} => ProofGone'
    BY <1>1, <1>3 DEF ClosedUnpaid
  <1>5. SUFFICES ASSUME pc = "cleanup"
                 PROVE  /\ closing'["flow"].st = "read" => closing'["flow"].closed = {}
                        /\ closing'["flow"].asked \subseteq AddressesOf(attempt, Proofs)
                        /\ closing'["flow"].todo \subseteq AddressesOf(attempt, Proofs)
                        /\ closing'["flow"].closed # {} => ProofGone'
    BY <1>1, <1>3, <1>4 DEF CleanupAsks, ClosedUnpaid, AddressesOf
  <1>6. /\ c.st = "read" => c.closed = {}
        /\ c.asked \subseteq AddressesOf(attempt, Proofs)
        /\ c.todo \subseteq AddressesOf(attempt, Proofs)
        /\ c.closed # {} => ProofGone
    BY <1>5 DEF CleanupAsks, ClosedUnpaid
  <1>7. CASE CloseReads("flow") \/ CloseReadFails("flow")
    <2> DEFINE existing == {a \in c.asked : Exists(a)}
    <2>1. existing \subseteq c.asked /\ c \in ClosingRec /\ "flow" \in DOMAIN closing
      BY <1>0 DEF ClosingRec, TypeOK, Closers
    <2> HIDE DEF existing
    <2>2. CASE CloseReads("flow")
      <3>1. closing'["flow"] = [c EXCEPT !.st = IF existing = {} THEN "done" ELSE "send",
                                         !.existing = existing, !.todo = existing]
        BY <2>1, <2>2 DEF CloseReads, existing
      <3>2. /\ closing'["flow"].closed = c.closed /\ closing'["flow"].asked = c.asked
            /\ closing'["flow"].todo = existing /\ closing'["flow"].st # "read"
        BY <2>1, <3>1 DEF ClosingRec
      <3>3. QED
        BY <1>3, <1>6, <2>1, <3>2
    <2>3. CASE CloseReadFails("flow")
      <3>1. closing'["flow"] = [c EXCEPT !.st = "done", !.existing = c.asked]
        BY <2>1, <2>3 DEF CloseReadFails
      <3>2. /\ closing'["flow"].closed = c.closed /\ closing'["flow"].asked = c.asked
            /\ closing'["flow"].todo = c.todo /\ closing'["flow"].st # "read"
        BY <2>1, <3>1 DEF ClosingRec
      <3>3. QED
        BY <1>3, <1>6, <3>2
    <2>4. QED
      BY <1>7, <2>2, <2>3
  <1>8. ASSUME c.st = "send", NEW b \in NextBatches("flow"), NEW d \in {{}, b},
               closing' = AfterBatch("flow", b, d), d # {} => ProofGone'
        PROVE  /\ closing'["flow"].st = "read" => closing'["flow"].closed = {}
               /\ closing'["flow"].asked \subseteq AddressesOf(attempt, Proofs)
               /\ closing'["flow"].todo \subseteq AddressesOf(attempt, Proofs)
               /\ closing'["flow"].closed # {} => ProofGone'
    <2>1. /\ closing'["flow"].closed = c.closed \cup d /\ closing'["flow"].asked = c.asked
          /\ closing'["flow"].todo \subseteq c.todo
          /\ closing'["flow"].st # "read"
      BY <1>0, <1>8 DEF AfterBatch, ClosingRec
    <2>2. QED
      BY <1>3, <1>6, <1>8, <2>1
  <1>9. CASE CloseBatchLands("flow")
    <2>1. PICK b \in NextBatches("flow") :
              BatchCloses(b) /\ account' = AfterCloses(b) /\ closing' = AfterBatch("flow", b, b)
      BY <1>9 DEF CloseBatchLands
    <2>2. PICK a \in b : a \in AddressesOf(attempt, Proofs)
      BY <1>6, <2>1 DEF NextBatches
    <2>3. PICK p \in Proofs : a = <<attempt, p>>
      BY <2>2 DEF AddressesOf
    <2>4. account[<<attempt, p>>] = "verified" /\ <<attempt, p>> \in Address
      BY <1>0, <2>1, <2>2, <2>3, AttemptAddresses DEF BatchCloses
    <2>5. account'[<<attempt, p>>] = "closed"
      BY <2>1, <2>2, <2>3, <2>4 DEF AfterCloses
    <2>6. ~Acted(attempt)
      BY <1>0, <2>4 DEF ActedClosed
    <2>7. ProofGone'
      BY <1>1, <2>5, <2>6 DEF ProofGone, Acted
    <2>8. QED
      BY <1>8, <1>9, <2>1, <2>7 DEF CloseBatchLands
  <1>10. CASE CloseBatchFails("flow") \/ CloseBatchLost("flow")
    BY <1>8, <1>10 DEF CloseBatchFails, CloseBatchLost
  <1>11. QED
    BY <1>7, <1>9, <1>10 DEF CloseStep

LEMMA CleanedInvStep == PayInv /\ CleanedInv /\ [Next]_vars => CleanedInv'
  <1> SUFFICES ASSUME PayInv, CleanedInv, [Next]_vars, ActionCloses
               PROVE  (ActedClosed /\ CleanupAsks /\ ClosedUnpaid)'
    BY DEF CleanedInv, ActionCloses
  <1>0. /\ TypeOK /\ attempt \in Attempts /\ closing \in [Closers -> ClosingRec]
        /\ "flow" \in Closers /\ ActedClosed /\ CleanupAsks /\ ClosedUnpaid
    BY DEF PayInv, TypeOK, Closers, CleanedInv
  <1>1. ASSUME UNCHANGED <<account, landed, attempt>>, pc' # "cleanup",
               outcome' # "TRANSACTION_FAILED"
        PROVE  (ActedClosed /\ CleanupAsks /\ ClosedUnpaid)'
    BY <1>0, <1>1 DEF ActedClosed, CleanupAsks, ClosedUnpaid, Acted
  <1>2. CASE Prepare \/ PrepareFails \/ FlowReturns \/ Crash
    <2>1. outcome = "none"
      BY <1>2 DEF Prepare, PrepareFails, FlowReturns, Crash, PayInv, ControlInv
    <2>2. QED
      BY <1>1, <1>2, <2>1 DEF Prepare, PrepareFails, FlowReturns, Crash, chainVars, answerVars
  <1>3. CASE StepLands
    <2>1. /\ <<attempt, next>> \in TxId /\ LandTx(<<attempt, next>>) /\ attempt' = attempt
          /\ pc' = "send" /\ outcome' = "none"
      BY <1>0, <1>3, ActionIndexType
         DEF StepLands, TxId, TypeOK, PayInv, ControlInv, answerVars
    <2>2. ActedClosed'
      BY <1>0, <2>1, LandKeepsCleaned
    <2>3. QED
      BY <2>1, <2>2 DEF CleanupAsks, ClosedUnpaid
  <1>4. CASE StepFails \/ StepExpires \/ StepLost
    <2>1. /\ UNCHANGED <<account, landed, attempt>> /\ pc' = "cleanup" /\ outcome' = "none"
          /\ closing'["flow"] = [NotClosing EXCEPT !.st = "read", !.asked = AddressesOf(attempt, Proofs)]
      BY <1>0, <1>4 DEF StepFails, StepExpires, StepLost, Catch, chainVars, answerVars, PayInv,
                        ControlInv
    <2>2. /\ closing'["flow"].closed = {} /\ closing'["flow"].todo = {}
          /\ closing'["flow"].asked = AddressesOf(attempt, Proofs)
      BY <2>1 DEF NotClosing
    <2>3. QED
      BY <1>0, <2>1, <2>2 DEF ActedClosed, CleanupAsks, ClosedUnpaid, Acted, AddressesOf
  <1>5. CASE CleanupReturns
    <2>1. /\ UNCHANGED <<account, landed, attempt>> /\ pc = "cleanup" /\ pc' = "returned"
          /\ closedOut' = closing["flow"].closed
      BY <1>5 DEF CleanupReturns, chainVars
    <2>2. QED
      BY <1>0, <2>1 DEF ActedClosed, CleanupAsks, ClosedUnpaid, ProofGone, Acted
  <1>6. CASE CleanupRetries
    <2>1. UNCHANGED <<account, landed>> /\ pc' = "prepare" /\ outcome' = "none"
      BY <1>6 DEF CleanupRetries, chainVars, answerVars, PayInv, ControlInv
    <2>2. QED
      BY <1>0, <2>1 DEF ActedClosed, CleanupAsks, ClosedUnpaid, Acted
  <1>7. CASE CloseStep("flow")
    BY <1>0, <1>7, CleanedInvFlowCloses
  <1>8. ASSUME UNCHANGED <<pc, attempt, outcome, closedOut>>, closing'["flow"] = closing["flow"],
               ActedClosed', ProofGone => ProofGone'
        PROVE  (ActedClosed /\ CleanupAsks /\ ClosedUnpaid)'
    BY <1>0, <1>8 DEF CleanupAsks, ClosedUnpaid, AddressesOf
  <1>9. ASSUME UNCHANGED <<landed, callVars>>, closing'["flow"] = closing["flow"],
               \A a \in Address : account'[a] # account[a] => account[a] = "verified" /\ account'[a] = "closed"
        PROVE  (ActedClosed /\ CleanupAsks /\ ClosedUnpaid)'
    <2>1. UNCHANGED <<pc, attempt, outcome, closedOut>>
      BY <1>9 DEF callVars, answerVars
    <2>2. QED
      BY <1>0, <1>8, <1>9, <2>1, ClosesKeepCleaned
  <1>10. CASE CloseStep("recover")
    <2>1. UNCHANGED <<landed, callVars>>
      BY <1>10 DEF CloseStep, CloseReads, CloseReadFails, CloseBatchLands, CloseBatchFails,
           CloseBatchLost, chainVars
    <2>2. closing'["flow"] = closing["flow"]
      BY <1>10, <1>0 DEF CloseStep, CloseReads, CloseReadFails, CloseBatchLands, CloseBatchFails,
           CloseBatchLost, AfterBatch, Closers
    <2>3. \A a \in Address : account'[a] # account[a] => account[a] = "verified" /\ account'[a] = "closed"
      BY <1>10, <1>0, ClosesAccounts
         DEF CloseStep, CloseReads, CloseReadFails, CloseBatchLands, CloseBatchFails,
             CloseBatchLost, chainVars
    <2>4. QED
      BY <1>9, <2>1, <2>2, <2>3
  <1>11. CASE RecoverFinds \/ RecoverReturns
    <2>1. UNCHANGED <<account, landed, callVars>>
      BY <1>11 DEF RecoverFinds, RecoverReturns, chainVars
    <2>2. closing'["flow"] = closing["flow"]
      BY <1>11, <1>0 DEF RecoverFinds, RecoverReturns, Closers
    <2>3. QED
      BY <1>9, <2>1, <2>2
  <1>12. CASE LostTxLands
    <2>1. PICK id \in lost : LandTx(id)
      BY <1>12 DEF LostTxLands
    <2>2. id[1] = attempt /\ id \in TxId
      BY <2>1, <1>0 DEF PayInv, LostInv, TypeOK
    <2>3. UNCHANGED <<pc, attempt, outcome, closedOut, closing>>
      BY <1>12 DEF LostTxLands, callVars, answerVars
    <2>4. QED
      BY <1>0, <1>8, <2>1, <2>2, <2>3, LandKeepsCleaned
  <1>13. CASE LostClosesLand
    BY <1>9, <1>13, <1>0, ClosesAccounts DEF LostClosesLand
  <1>14. CASE UNCHANGED vars
    BY <1>9, <1>14 DEF vars, chainVars
  <1>15. QED
    BY <1>2, <1>3, <1>4, <1>5, <1>6, <1>7, <1>10, <1>11, <1>12, <1>13, <1>14
       DEF Next, CallStep, Closers

LEMMA CleanedInvInit == Init => CleanedInv
  BY DEF Init, CleanedInv, ActedClosed, Acted, CleanupAsks, ClosedUnpaid

\* When the action transaction also closes its proof accounts, an error that
\* reports one as closed is final, whatever was lost: the call did not pay and never will.
THEOREM CleanedUpMeansNotPaidHolds == Spec => [](ActionCloses => CleanedUpMeansNotPaid)
  <1>1. ASSUME PayInv, CleanedInv
        PROVE  ActionCloses => CleanedUpMeansNotPaid
    <2> SUFFICES ASSUME ActionCloses, outcome = "TRANSACTION_FAILED", closedOut # {}
                 PROVE  ~Paid
      BY DEF CleanedUpMeansNotPaid
    <2>1. ~Acted(attempt)
      BY <1>1 DEF CleanedInv, ClosedUnpaid, ProofGone
    <2>2. QED
      BY <1>1, <2>1 DEF PayInv, ActedInv, Paid, PaidBy
  <1>2. QED
    BY <1>1, PayInvCorrect, CleanedInvInit, CleanedInvStep, PTL DEF Spec

-----------------------------------------------------------------------------
(* What bounds the work of a call.                                         *)

Stage(p)   == CASE p = "prepare" -> 0 [] p = "send" -> 1 [] p = "cleanup" -> 2 [] OTHER -> 3
Closing(c) == CASE c.st = "idle" -> 0 [] c.st = "read" -> 1 [] c.st = "send" -> 2 [] OTHER -> 3

\* closeProofAccounts has gone on: it reads before it sends, and each transaction of
\* closes leaves fewer accounts to ask for.
ClosesFewer(c, d) ==
    \/ Closing(d) > Closing(c)
    \/ Closing(d) = Closing(c) /\ d.todo \subseteq c.todo /\ d.todo # c.todo

\* The call has gone on: to another of its attempts, to a later part of this one, to the
\* next transaction of the plan, or with its cleanup.
Advances ==
    \/ attempt' = attempt + 1 /\ attempt < Retries
    \/ attempt' = attempt /\ Stage(pc') > Stage(pc)
    \/ attempt' = attempt /\ pc' = pc /\ next' = next + 1 /\ next <= Len(Plan)
    \/ UNCHANGED <<attempt, pc, next>> /\ ClosesFewer(closing["flow"], closing'["flow"])

LEMMA CloseStepAdvances ==
    ASSUME TypeOK, NEW w \in Closers, CloseStep(w)
    PROVE  UNCHANGED <<attempt, pc, next>> /\ ClosesFewer(closing[w], closing'[w])
  <1>1. closing \in [Closers -> ClosingRec]
    BY DEF TypeOK
  <1>2. UNCHANGED <<attempt, pc, next>>
    BY DEF CloseStep, CloseReads, CloseReadFails, CloseBatchLands, CloseBatchFails,
           CloseBatchLost, callVars
  <1>3. CASE CloseReads(w)
    <2>1. /\ closing[w].st = "read" /\ closing'[w].st \in {"done", "send"}
      BY <1>1, <1>3 DEF CloseReads, ClosingRec
    <2>2. QED
      BY <1>2, <2>1 DEF ClosesFewer, Closing
  <1>4. CASE CloseReadFails(w)
    <2>1. closing[w].st = "read" /\ closing'[w].st = "done"
      BY <1>1, <1>4 DEF CloseReadFails, ClosingRec
    <2>2. QED
      BY <1>2, <2>1 DEF ClosesFewer, Closing
  <1>5. ASSUME NEW b \in NextBatches(w), NEW c, closing[w].st = "send", closing' = AfterBatch(w, b, c)
        PROVE  ClosesFewer(closing[w], closing'[w])
    <2>1. b \subseteq closing[w].todo /\ b # {}
      BY DEF NextBatches
    <2>2. closing'[w].todo = closing[w].todo \ b /\ closing'[w].st \in {"done", "send"}
      BY <1>1, <1>5 DEF AfterBatch, ClosingRec
    <2>3. QED
      BY <1>5, <2>1, <2>2 DEF ClosesFewer, Closing
  <1>6. CASE CloseBatchLands(w)
    BY <1>2, <1>5, <1>6 DEF CloseBatchLands
  <1>7. CASE CloseBatchFails(w)
    BY <1>2, <1>5, <1>7 DEF CloseBatchFails
  <1>8. CASE CloseBatchLost(w)
    BY <1>2, <1>5, <1>8 DEF CloseBatchLost
  <1>9. QED
    BY <1>3, <1>4, <1>6, <1>7, <1>8 DEF CloseStep

\* withRetries, executeProofFlow, closeProofAccounts: every step of a call brings it
\* further in an order with no endless descent, since Retries, the plan and the proof
\* accounts are finite, and a step of anybody else either ends it or leaves alone what
\* the order is about.
THEOREM CallAdvances ==
    TypeOK =>
        /\ CallStep \/ CloseStep("flow") => Advances
        /\ Next => \/ Advances
                   \/ UNCHANGED <<attempt, pc, next>> /\ closing'["flow"] = closing["flow"]
  <1> SUFFICES ASSUME TypeOK
               PROVE  /\ CallStep \/ CloseStep("flow") => Advances
                      /\ Next => \/ Advances
                                 \/ UNCHANGED <<attempt, pc, next>> /\ closing'["flow"] = closing["flow"]
    OBVIOUS
  <1>1. closing \in [Closers -> ClosingRec] /\ "flow" \in Closers /\ "recover" \in Closers
    BY DEF TypeOK, Closers
  <1>2. ASSUME Prepare \/ PrepareFails \/ FlowReturns \/ CleanupReturns
        PROVE  Advances
    BY <1>2 DEF Prepare, PrepareFails, FlowReturns, CleanupReturns, Advances, Stage
  <1>3. ASSUME StepFails \/ StepExpires \/ StepLost
        PROVE  Advances
    BY <1>3 DEF StepFails, StepExpires, StepLost, Catch, Advances, Stage
  <1>4. ASSUME StepLands
        PROVE  Advances
    BY <1>4 DEF StepLands, Advances
  <1>5. ASSUME CleanupRetries
        PROVE  Advances
    BY <1>5 DEF CleanupRetries, Retryable, Advances
  <1>6. CallStep => Advances
    BY <1>2, <1>3, <1>4, <1>5 DEF CallStep
  <1>7. CloseStep("flow") => Advances
    BY <1>1, CloseStepAdvances DEF Advances
  <1>8. ASSUME CloseStep("recover")
        PROVE  UNCHANGED <<attempt, pc, next>> /\ closing'["flow"] = closing["flow"]
    <2>1. UNCHANGED <<attempt, pc, next>>
      BY <1>1, <1>8, CloseStepAdvances
    <2>2. closing'["flow"] = closing["flow"]
      BY <1>1, <1>8 DEF CloseStep, CloseReads, CloseReadFails, CloseBatchLands,
                        CloseBatchFails, CloseBatchLost, AfterBatch
    <2>3. QED
      BY <2>1, <2>2
  <1>9. ASSUME RecoverFinds \/ RecoverReturns
        PROVE  UNCHANGED <<attempt, pc, next>> /\ closing'["flow"] = closing["flow"]
    BY <1>1, <1>9 DEF RecoverFinds, RecoverReturns, callVars
  <1>10. ASSUME LostTxLands \/ LostClosesLand
         PROVE  UNCHANGED <<attempt, pc, next>> /\ closing'["flow"] = closing["flow"]
    BY <1>10 DEF LostTxLands, LostClosesLand, callVars
  <1>11. Crash => Advances
    BY DEF Crash, Advances, Stage
  <1>12. QED
    BY <1>6, <1>7, <1>8, <1>9, <1>10, <1>11 DEF Next, Closers
=============================================================================
