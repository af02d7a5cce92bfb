--------------------------- MODULE RustFlowProofs ---------------------------
(***************************************************************************)
(* The safety of one transfer or withdraw call of the Rust crate, for      *)
(* every plan, mint, batch size, RPC client and number of retries.         *)
(***************************************************************************)
EXTENDS RustFlow, FiniteSetTheorems, TLAPS

-----------------------------------------------------------------------------
(* Lemmas about the setting, the chain and the closes.                     *)

\* The call never changes what it was started with.
LEMMA SettingStays == [Next]_vars => setting' = setting
  BY DEF Next, CallStep, CloseStep, vars, Prepare, PrepareFails, SendLands, LandTx, SendFails,
         SendUnsent, SendLost, SendAgain, SendExpires, HookFails, GiveUp, CallReturnsAfterClosing,
         Crash, CloseLands, ClosesLand, CloseFails, CloseLost, CloseAgain, RecoverFinds,
         RecoverReturns, LostTxLands, LostClosesLand, chainVars

LEMMA SameSetting ==
    ASSUME setting' = setting
    PROVE  /\ Proofs' = Proofs /\ Plan' = Plan /\ HasHook' = HasHook
           /\ BatchSize' = BatchSize /\ ExpiryIsFinal' = ExpiryIsFinal
           /\ MaxLostCloses' = MaxLostCloses /\ ActionIndex' = ActionIndex
           /\ TxId' = TxId /\ ClosingRec' = ClosingRec
  BY DEF Proofs, Plan, HasHook, BatchSize, ExpiryIsFinal, MaxLostCloses, ActionIndex, TxId,
         ClosingRec

\* What the constants say of the call that was started.
LEMMA SettingFacts ==
    ASSUME setting \in Settings
    PROVE  /\ MaxRetries \in Nat /\ IsFiniteSet(Proofs)
           /\ Len(Plan) \in Nat /\ ActionIndex \in 1..Len(Plan)
           /\ \A i \in 1..Len(Plan) : Plan[i] \in PlannedTx(Proofs)
           /\ \A i \in 1..Len(Plan) : Plan[i].act <=> i = ActionIndex
           /\ Plan[ActionIndex].create = {} /\ Plan[ActionIndex].verify = {}
           /\ \A i \in 1..Len(Plan) : i # ActionIndex =>
                /\ i + 1 \in 1..Len(Plan) /\ Plan[i].close = {}
                /\ Plan[i].create \ Plan[i].verify \subseteq Plan[i + 1].verify \ Plan[i + 1].create
  <1>1. MaxRetries \in Nat /\ IsFiniteSet(Proofs) /\ IsPlan(Plan, Proofs)
    BY SettingsAssumption DEF Proofs, Plan
  <1>2. Plan \in Seq(PlannedTx(Proofs)) /\ Len(Plan) > 0
    BY <1>1 DEF IsPlan
  <1>3. Len(Plan) \in Nat /\ \A i \in 1..Len(Plan) : Plan[i] \in PlannedTx(Proofs)
    BY <1>2
  <1>4. ActionIndex \in 1..Len(Plan)
    BY <1>2, <1>3 DEF ActionIndex
  <1>5. \A i \in 1..Len(Plan) : Plan[i].act <=> i = ActionIndex
    BY <1>1 DEF IsPlan, ActionIndex
  <1>6. Plan[ActionIndex].create = {} /\ Plan[ActionIndex].verify = {}
    BY <1>1 DEF IsPlan, ActionIndex
  <1>7. ASSUME NEW i \in 1..Len(Plan), i # ActionIndex
        PROVE  /\ i + 1 \in 1..Len(Plan) /\ Plan[i].close = {}
               /\ Plan[i].create \ Plan[i].verify \subseteq Plan[i + 1].verify \ Plan[i + 1].create
    <2>1. i \in 1..(Len(Plan) - 1) /\ i + 1 \in 1..Len(Plan)
      BY <1>3, <1>7 DEF ActionIndex
    <2>2. QED
      BY <1>1, <2>1 DEF IsPlan
  <1>8. QED
    BY <1>1, <1>3, <1>4, <1>5, <1>6, <1>7

LEMMA PlannedTxType ==
    ASSUME setting \in Settings, NEW i \in 1..Len(Plan)
    PROVE  /\ Plan[i].create \in SUBSET Proofs /\ Plan[i].verify \in SUBSET Proofs
           /\ Plan[i].close \in SUBSET Proofs /\ Plan[i].act \in BOOLEAN
  <1>1. Plan[i] \in PlannedTx(Proofs)
    BY SettingFacts
  <1>2. QED
    BY <1>1 DEF PlannedTx

\* A transaction that lands moves its accounts one way.
LEMMA AfterTxType ==
    ASSUME TypeOK, NEW tx
    PROVE  AfterTx(tx) \in [Proofs -> {"none", "created", "verified", "closed"}]
  BY DEF AfterTx, TypeOK

LEMMA LandTxType ==
    ASSUME TypeOK, NEW id \in TxId, LandTx(id)
    PROVE  /\ account' \in [Proofs -> {"none", "created", "verified", "closed"}]
           /\ paidBy' \subseteq Sends
  <1>1. id[2] \in Sends
    BY DEF TxId
  <1>2. paidBy' \subseteq Sends
    BY <1>1 DEF LandTx, TypeOK
  <1>3. QED
    BY <1>2, AfterTxType DEF LandTx

LEMMA ClosesLandType ==
    ASSUME TypeOK, NEW ps, ClosesLand(ps)
    PROVE  /\ account' \in [Proofs -> {"none", "created", "verified", "closed"}]
           /\ paidBy' \subseteq Sends
  BY DEF ClosesLand, TypeOK

LEMMA ClosingRecType ==
    ASSUME NEW c \in ClosingRec
    PROVE  /\ c.st \in {"idle", "send", "done"} /\ c.sending \in SUBSET Proofs
           /\ c.singles \in SUBSET Proofs /\ c.rest \in SUBSET Proofs
           /\ c.closed \in SUBSET Proofs /\ c.open \in SUBSET Proofs
  BY DEF ClosingRec

LEMMA NotClosingType == NotClosing \in ClosingRec
  BY DEF NotClosing, ClosingRec

\* What is left to close when a transaction was answered is split into the
\* next transaction and what comes after it.
OnTo(c, d) ==
    /\ d \in ClosingRec /\ d.st \in {"send", "done"}
    /\ d.open = c.open /\ d.closed = c.closed
    /\ d.sending \cup d.singles \cup d.rest = c.singles \cup c.rest
    /\ d.singles # {} => \E p \in Proofs : d.sending = {p}
    /\ d.st = "done" => d.sending = {} /\ d.singles = {} /\ d.rest = {}

LEMMA OnwardShape ==
    ASSUME NEW c \in ClosingRec, c.st = "send", NEW d \in Onward(c)
    PROVE  OnTo(c, d)
  <1> USE ClosingRecType
  <1>1. CASE c.singles # {}
    <2>1. PICK p \in c.singles : d = [c EXCEPT !.sending = {p}, !.singles = c.singles \ {p}]
      BY <1>1 DEF Onward
    <2>2. p \in Proofs /\ {p} \in SUBSET Proofs /\ c.singles \ {p} \in SUBSET Proofs
      OBVIOUS
    <2>3. d \in ClosingRec
      BY <2>1, <2>2 DEF ClosingRec
    <2>4. /\ d.st = "send" /\ d.open = c.open /\ d.closed = c.closed /\ d.rest = c.rest
          /\ d.sending = {p} /\ d.singles = c.singles \ {p}
      BY <2>1 DEF ClosingRec
    <2>5. QED
      BY <2>2, <2>3, <2>4 DEF OnTo
  <1>2. CASE c.singles = {} /\ c.rest # {}
    <2>1. PICK b \in Chunks(c.rest) : d = [c EXCEPT !.sending = b, !.rest = c.rest \ b]
      BY <1>2 DEF Onward
    <2>2. b \in SUBSET c.rest /\ b \in SUBSET Proofs /\ c.rest \ b \in SUBSET Proofs
      BY DEF Chunks
    <2>3. d \in ClosingRec
      BY <2>1, <2>2 DEF ClosingRec
    <2>4. /\ d.st = "send" /\ d.open = c.open /\ d.closed = c.closed /\ d.singles = {}
          /\ d.sending = b /\ d.rest = c.rest \ b
      BY <1>2, <2>1 DEF ClosingRec
    <2>5. QED
      BY <1>2, <2>2, <2>3, <2>4 DEF OnTo
  <1>3. CASE c.singles = {} /\ c.rest = {}
    <2>1. d = [c EXCEPT !.st = "done", !.sending = {}]
      BY <1>3 DEF Onward
    <2>2. d \in ClosingRec
      BY <2>1 DEF ClosingRec
    <2>3. /\ d.st = "done" /\ d.open = c.open /\ d.closed = c.closed /\ d.singles = {}
          /\ d.sending = {} /\ d.rest = {}
      BY <1>3, <2>1 DEF ClosingRec
    <2>4. QED
      BY <1>3, <2>2, <2>3 DEF OnTo
  <1>4. QED
    BY <1>1, <1>2, <1>3

\* close_proof_accounts is left with the accounts it was given.
LEMMA StartClosingShape ==
    ASSUME NEW w \in Closers, NEW ps \in SUBSET Proofs, StartClosing(w, ps)
    PROVE  \E d \in ClosingRec :
              /\ closing' = [closing EXCEPT ![w] = d]
              /\ d.st \in {"send", "done"} /\ d.open = {} /\ d.closed = {}
              /\ d.sending \cup d.singles \cup d.rest = ps
              /\ d.singles # {} => \E p \in Proofs : d.sending = {p}
              /\ d.st = "done" => d.sending = {} /\ d.singles = {} /\ d.rest = {}
  <1> DEFINE c == [NotClosing EXCEPT !.st = "send", !.rest = ps]
  <1>1. c \in ClosingRec
    BY NotClosingType DEF ClosingRec
  <1>2. c.st = "send" /\ c.open = {} /\ c.closed = {} /\ c.singles = {} /\ c.rest = ps
    BY DEF NotClosing
  <1>3. PICK d \in Onward(c) : closing' = [closing EXCEPT ![w] = d]
    BY DEF StartClosing
  <1>4. OnTo(c, d)
    BY <1>1, <1>2, <1>3, OnwardShape
  <1>5. QED
    BY <1>2, <1>3, <1>4 DEF OnTo

\* A batch of several is taken apart, an account that was tried alone is left open.
LEMMA FailedCloseShape ==
    ASSUME NEW c \in ClosingRec, c.st = "send"
    PROVE  /\ AfterFailedClose(c) \in ClosingRec
           /\ AfterFailedClose(c).st = "send"
           /\ AfterFailedClose(c).closed = c.closed
           /\ AfterFailedClose(c).rest = c.rest
           /\ \/ /\ Cardinality(c.sending) > 1
                 /\ AfterFailedClose(c).open = c.open
                 /\ AfterFailedClose(c).singles = c.sending
              \/ /\ ~(Cardinality(c.sending) > 1)
                 /\ AfterFailedClose(c).open = c.open \cup c.sending
                 /\ AfterFailedClose(c).singles = c.singles
  BY DEF AfterFailedClose, ClosingRec

LEMMA LandedCloseShape ==
    ASSUME NEW c \in ClosingRec, c.st = "send",
           NEW f, f = [c EXCEPT !.closed = c.closed \cup c.sending]
    PROVE  /\ f \in ClosingRec /\ f.st = "send" /\ f.open = c.open
           /\ f.singles = c.singles /\ f.rest = c.rest
  BY DEF ClosingRec

-----------------------------------------------------------------------------
(* Types.                                                                  *)

\* The closes of one caller, whatever became of the last transaction.
LEMMA CloseStepType ==
    ASSUME TypeOK, NEW w \in Closers, CloseStep(w)
    PROVE  /\ closing' \in [Closers -> ClosingRec]
           /\ lostCloses' \subseteq SUBSET Proofs
           /\ interrupted' \in BOOLEAN
  <1> DEFINE c == closing[w]
  <1>1. c \in ClosingRec /\ closing \in [Closers -> ClosingRec] /\ c.sending \in SUBSET Proofs
    BY ClosingRecType DEF TypeOK
  <1>2. ASSUME NEW f \in ClosingRec, f.st = "send",
               \E d \in Onward(f) : closing' = [closing EXCEPT ![w] = d]
        PROVE  closing' \in [Closers -> ClosingRec]
    <2>1. PICK d \in Onward(f) : closing' = [closing EXCEPT ![w] = d]
      BY <1>2
    <2>2. d \in ClosingRec
      BY <1>2, <2>1, OnwardShape DEF OnTo
    <2>3. QED
      BY <1>1, <2>1, <2>2
  <1>3. CASE CloseLands(w)
    <2>1. lostCloses' = lostCloses /\ interrupted' = interrupted
      BY <1>3 DEF CloseLands, wireVars
    <2>2. closing' \in [Closers -> ClosingRec]
      <3> DEFINE f == [c EXCEPT !.closed = c.closed \cup c.sending]
      <3>1. c.st = "send" /\ \E d \in Onward(f) : closing' = [closing EXCEPT ![w] = d]
        BY <1>3 DEF CloseLands
      <3>2. f \in ClosingRec /\ f.st = "send"
        BY <1>1, <3>1, LandedCloseShape
      <3> HIDE DEF f
      <3>3. QED
        BY <1>2, <3>1, <3>2
    <2>3. QED
      BY <2>1, <2>2 DEF TypeOK
  <1>4. CASE CloseFails(w) \/ CloseLost(w)
    <2>1. c.st = "send" /\ \E d \in Onward(AfterFailedClose(c)) : closing' = [closing EXCEPT ![w] = d]
      BY <1>4 DEF CloseFails, CloseLost
    <2>2. AfterFailedClose(c) \in ClosingRec /\ AfterFailedClose(c).st = "send"
      BY <1>1, <2>1, FailedCloseShape
    <2>3. lostCloses' \subseteq SUBSET Proofs /\ interrupted' \in BOOLEAN
      BY <1>1, <1>4 DEF CloseFails, CloseLost, wireVars, TypeOK
    <2>4. QED
      BY <1>2, <2>1, <2>2, <2>3
  <1>5. CASE CloseAgain(w)
    BY <1>1, <1>5 DEF CloseAgain, TypeOK
  <1>6. QED
    BY <1>3, <1>4, <1>5 DEF CloseStep

\* An error is noted, the verified accounts are closed.
LEMMA GiveUpType ==
    ASSUME TypeOK, NEW e \in ErrorCodes, GiveUp(e)
    PROVE  /\ pc' = "closing" /\ code' = e
           /\ unverified' \subseteq Proofs
           /\ closing' \in [Closers -> ClosingRec]
           /\ UNCHANGED <<chainVars, next, verified, answerVars, interrupted>>
  <1>1. Plan[next].verify \subseteq Proofs
    BY PlannedTxType DEF TypeOK
  <1>2. unverified' \subseteq Proofs
    BY <1>1 DEF GiveUp, TypeOK
  <1>3. StartClosing("flow", verified) /\ verified \in SUBSET Proofs /\ "flow" \in Closers
    BY DEF GiveUp, TypeOK, Closers
  <1>4. closing' \in [Closers -> ClosingRec]
    BY <1>3, StartClosingShape DEF TypeOK
  <1>5. QED
    BY <1>2, <1>4 DEF GiveUp

LEMMA InitTypeOK == Init => TypeOK
  <1> SUFFICES ASSUME Init PROVE TypeOK
    OBVIOUS
  <1>1. setting \in Settings
    BY DEF Init
  <1>2. next \in 1..Len(Plan) /\ attempt \in Sends
    BY <1>1, SettingFacts DEF Init, Sends, ActionIndex
  <1>3. closing \in [Closers -> ClosingRec]
    BY NotClosingType DEF Init
  <1>4. QED
    BY <1>1, <1>2, <1>3 DEF Init, TypeOK

LEMMA StepTypeOK == TypeOK /\ [Next]_vars => TypeOK'
  <1> SUFFICES ASSUME TypeOK, [Next]_vars PROVE TypeOK'
    OBVIOUS
  <1>s. setting' = setting /\ setting' \in Settings
    BY SettingStays DEF TypeOK
  <1> USE <1>s, SameSetting
  <1>t. /\ <<next, attempt>> \in TxId /\ setting \in Settings
        /\ closing \in [Closers -> ClosingRec] /\ "flow" \in Closers /\ "recover" \in Closers
    BY DEF TypeOK, TxId, Closers
  <1>l. lost \cup {<<next, attempt>>} \subseteq TxId
    BY <1>t DEF TypeOK
  <1>1. CASE Prepare \/ PrepareFails
    BY <1>1 DEF Prepare, PrepareFails, TypeOK, chainVars, wireVars, answerVars
  <1>2. CASE SendLands
    <2>1. /\ account' \in [Proofs -> {"none", "created", "verified", "closed"}]
          /\ paidBy' \subseteq Sends
      BY <1>2, <1>t, LandTxType DEF SendLands
    <2>2. verified' \subseteq Proofs
      <3>1. Plan[next].verify \subseteq Proofs
        BY PlannedTxType DEF TypeOK
      <3>2. QED
        BY <1>2, <3>1 DEF SendLands, TypeOK
    <2>3. UNCHANGED <<wireVars, unverified, answerVars, interrupted>>
      BY <1>2 DEF SendLands
    <2>4. CASE next < ActionIndex
      <3>1. /\ next' = next + 1 /\ attempt' = 0 /\ UNCHANGED <<pc, code, closing>>
        BY <1>2, <2>4 DEF SendLands
      <3>2. next' \in 1..Len(Plan)
        <4>1. next \in 1..Len(Plan) /\ next # ActionIndex
          BY <1>t, <2>4, SettingFacts DEF TypeOK
        <4>2. QED
          BY <3>1, <4>1, <1>t, SettingFacts
      <3>3. attempt' \in Sends
        BY <3>1, SettingsAssumption DEF Sends
      <3>4. QED
        BY <2>1, <2>2, <2>3, <3>1, <3>2, <3>3 DEF TypeOK, wireVars, answerVars
    <2>5. CASE ~(next < ActionIndex)
      <3>1. /\ pc' = "closing" /\ code' = "ok" /\ UNCHANGED <<next, attempt>>
            /\ StartClosing("flow", IF ClosesWithIt THEN {} ELSE Proofs)
        BY <1>2, <2>5 DEF SendLands
      <3>2. closing' \in [Closers -> ClosingRec]
        BY <3>1, <1>t, StartClosingShape
      <3>3. QED
        BY <2>1, <2>2, <2>3, <3>1, <3>2 DEF TypeOK, wireVars, answerVars
    <2>6. QED
      BY <2>4, <2>5
  <1>3. CASE SendFails \/ SendUnsent \/ SendLost \/ SendExpires \/ HookFails
    <2>1. PICK e \in ErrorCodes : GiveUp(e)
      BY <1>3 DEF SendFails, SendUnsent, SendLost, SendExpires, HookFails, ErrorCodes
    <2>2. attempt' = attempt /\ lostCloses' = lostCloses /\ lost' \subseteq TxId
      BY <1>3, <1>l DEF SendFails, SendUnsent, SendLost, SendExpires, HookFails, Expired, wireVars,
                        TypeOK
    <2>3. QED
      BY <2>1, <2>2, GiveUpType DEF TypeOK, chainVars, answerVars
  <1>4. CASE SendAgain
    <2>1. lost' \subseteq TxId
      BY <1>4, <1>l DEF SendAgain, Expired, TypeOK
    <2>2. attempt' \in Sends
      BY <1>4, SettingsAssumption DEF SendAgain, Sends, TypeOK
    <2>3. QED
      BY <1>4, <2>1, <2>2 DEF SendAgain, TypeOK, chainVars, answerVars
  <1>5. CASE CallReturnsAfterClosing
    <2>1. closing["flow"].open \subseteq Proofs /\ closing["flow"].closed \subseteq Proofs
      BY <1>t, ClosingRecType
    <2>2. leftOpen' \subseteq Proofs /\ closedOut' \subseteq Proofs
      BY <1>5, <2>1 DEF CallReturnsAfterClosing, Unclosed, TypeOK
    <2>3. closing' \in [Closers -> ClosingRec]
      BY <1>5, <1>t, NotClosingType DEF CallReturnsAfterClosing
    <2>4. outcome' \in ErrorCodes \cup {"none", "ok", "REJECTED"}
      BY <1>5 DEF CallReturnsAfterClosing, TypeOK
    <2>5. QED
      BY <1>5, <2>2, <2>3, <2>4 DEF CallReturnsAfterClosing, TypeOK, chainVars, wireVars
  <1>6. CASE Crash
    <2>1. closing' \in [Closers -> ClosingRec]
      BY <1>6, <1>t, NotClosingType DEF Crash
    <2>2. QED
      BY <1>6, <2>1 DEF Crash, TypeOK, chainVars, wireVars, answerVars
  <1>7. CASE \E w \in Closers : CloseStep(w)
    <2>1. PICK w \in Closers : CloseStep(w)
      BY <1>7
    <2>2. UNCHANGED <<lost, callVars>>
      BY <2>1 DEF CloseStep, CloseLands, CloseFails, CloseLost, CloseAgain, wireVars
    <2>3. /\ account' \in [Proofs -> {"none", "created", "verified", "closed"}]
          /\ paidBy' \subseteq Sends
      <3>1. CASE CloseLands(w)
        BY <3>1, ClosesLandType DEF CloseLands
      <3>2. CASE CloseFails(w) \/ CloseLost(w) \/ CloseAgain(w)
        BY <3>2 DEF CloseFails, CloseLost, CloseAgain, chainVars, TypeOK
      <3>3. QED
        BY <2>1, <3>1, <3>2 DEF CloseStep
    <2>4. QED
      BY <2>1, <2>2, <2>3, CloseStepType DEF TypeOK, callVars, answerVars
  <1>8. CASE RecoverFinds
    <2>1. closing' \in [Closers -> ClosingRec]
      BY <1>8, <1>t, StartClosingShape DEF RecoverFinds
    <2>2. QED
      BY <1>8, <2>1 DEF RecoverFinds, TypeOK, chainVars, wireVars, callVars, answerVars
  <1>9. CASE RecoverReturns
    <2>1. closing' \in [Closers -> ClosingRec]
      BY <1>9, <1>t, NotClosingType DEF RecoverReturns
    <2>2. QED
      BY <1>9, <2>1 DEF RecoverReturns, TypeOK, chainVars, wireVars, callVars, answerVars
  <1>10. CASE LostTxLands
    <2>1. PICK id \in lost : LandTx(id)
      BY <1>10 DEF LostTxLands
    <2>2. id \in TxId
      BY <2>1 DEF TypeOK
    <2>3. QED
      BY <1>10, <2>1, <2>2, LandTxType DEF LostTxLands, TypeOK, wireVars, callVars, answerVars
  <1>11. CASE LostClosesLand
    <2>1. PICK ps \in lostCloses : ClosesLand(ps)
      BY <1>11 DEF LostClosesLand
    <2>2. QED
      BY <1>11, <2>1, ClosesLandType DEF LostClosesLand, TypeOK, wireVars, callVars, answerVars
  <1>12. CASE UNCHANGED vars
    BY <1>12 DEF vars, TypeOK, chainVars, wireVars, callVars, answerVars
  <1>13. QED
    BY <1>1, <1>2, <1>3, <1>4, <1>5, <1>6, <1>7, <1>8, <1>9, <1>10, <1>11, <1>12
    DEF Next, CallStep

\* The variables of the call keep their types.
THEOREM TypeCorrect == Spec => []TypeOK
  BY InitTypeOK, StepTypeOK, PTL DEF Spec

-----------------------------------------------------------------------------
(* What the call answers, and whether it paid.                             *)

\* Where the call is, its error and its answer agree.
ControlInv ==
    /\ outcome # "none" <=> pc = "returned"
    /\ outcome \in ErrorCodes \cup {"ok"} => outcome = code
    /\ outcome = "REJECTED" => lost = {} /\ paidBy = {}
    /\ pc \in {"prepare", "send"} => code = "none"
    /\ pc = "closing" => code # "none"
    /\ pc = "prepare" => lost = {} /\ paidBy = {}

\* A send of the transfer or withdraw that may still land.
Left(n) == <<ActionIndex, n>> \in lost

\* Why send n of the action was left behind: its confirmation was lost, or it was
\* taken for expired and the RPC client can be wrong about that.
LeftFor(n) ==
    /\ next = ActionIndex
    /\ \/ n = attempt /\ code = "RPC_ERROR"
       \/ ~ExpiryIsFinal /\ (n < attempt \/ (n = attempt /\ code = "TRANSACTION_EXPIRED"))

\* Only a send that was left behind pays beside the answer "ok".
PaidInv ==
    /\ code = "ok" => paidBy # {}
    /\ paidBy # {} => code = "ok" \/ \E n \in Sends : Left(n)
    /\ \A n \in Sends : Left(n) => LeftFor(n)

AnswerInv == TypeOK /\ ControlInv /\ PaidInv

\* What the steps of the two closers and of recovery leave alone.
LEMMA ClosersLeaveTheCall ==
    ASSUME \/ \E w \in Closers : CloseStep(w)
           \/ RecoverFinds \/ RecoverReturns \/ LostClosesLand
    PROVE  UNCHANGED <<setting, paidBy, lost, callVars>>
  BY DEF CloseStep, CloseLands, ClosesLand, CloseFails, CloseLost, CloseAgain, RecoverFinds,
         RecoverReturns, LostClosesLand, chainVars, wireVars

LEMMA GiveUpSteps ==
    ASSUME SendFails \/ SendUnsent \/ SendLost \/ SendExpires \/ HookFails
    PROVE  \E e \in ErrorCodes :
              /\ GiveUp(e) /\ pc = "send" /\ attempt' = attempt
              /\ \/ lost' = lost
                 \/ /\ e = "RPC_ERROR" \/ (e = "TRANSACTION_EXPIRED" /\ ~ExpiryIsFinal)
                    /\ lost' = lost \cup {<<next, attempt>>}
  <1>1. CASE SendFails \/ SendUnsent \/ HookFails
    BY <1>1 DEF SendFails, SendUnsent, HookFails, ErrorCodes, wireVars
  <1>2. CASE SendLost
    BY <1>2 DEF SendLost, ErrorCodes
  <1>3. CASE SendExpires
    <2>1. GiveUp("TRANSACTION_EXPIRED") /\ pc = "send" /\ Expired /\ attempt' = attempt
      BY <1>3 DEF SendExpires
    <2>2. QED
      BY <2>1 DEF Expired, ErrorCodes
  <1>4. QED
    BY <1>1, <1>2, <1>3

LEMMA InitAnswerInv == Init => AnswerInv
  BY InitTypeOK DEF Init, AnswerInv, ControlInv, PaidInv, Left, ErrorCodes

\* PaidInv speaks of these variables only.
LEMMA SamePaidInv ==
    ASSUME PaidInv, UNCHANGED <<setting, paidBy, lost, code, next, attempt>>
    PROVE  PaidInv'
  <1>1. ActionIndex' = ActionIndex /\ ExpiryIsFinal' = ExpiryIsFinal
    BY SameSetting
  <1>2. ASSUME NEW n \in Sends
        PROVE  (Left(n)' <=> Left(n)) /\ (LeftFor(n)' <=> LeftFor(n))
    BY <1>1 DEF Left, LeftFor
  <1>3. QED
    BY <1>2 DEF PaidInv

LEMMA StepPaidInv ==
    ASSUME TypeOK, ControlInv, PaidInv, [Next]_vars
    PROVE  PaidInv'
  <1>t. /\ next \in 1..Len(Plan) /\ attempt \in Nat /\ attempt \in Sends /\ setting \in Settings
        /\ ActionIndex \in 1..Len(Plan) /\ ActionIndex = Len(Plan) /\ Len(Plan) \in Nat
        /\ MaxRetries \in Nat
    BY SettingFacts, SettingsAssumption DEF TypeOK, Sends, ActionIndex
  <1>s. /\ setting' = setting /\ ExpiryIsFinal' = ExpiryIsFinal /\ ActionIndex' = ActionIndex
    BY SettingStays, SameSetting
  <1>1. CASE Prepare \/ PrepareFails \/ CallReturnsAfterClosing \/ Crash
    BY <1>1, <1>s, SamePaidInv
    DEF Prepare, PrepareFails, CallReturnsAfterClosing, Crash, chainVars, wireVars
  <1>2. CASE SendLands
    <2>1. /\ pc = "send" /\ code = "none" /\ lost' = lost
      BY <1>2 DEF SendLands, ControlInv, wireVars
    <2>2. CASE next < ActionIndex
      <3>1. code' = code
        BY <1>2, <2>2 DEF SendLands
      <3>2. ~Plan[next].act
        BY <1>t, <2>2, SettingFacts
      <3>3. paidBy' = paidBy
        BY <1>2, <3>2 DEF SendLands, LandTx
      <3>4. next # ActionIndex
        BY <1>t, <2>2
      <3>5. \A n \in Sends : ~Left(n)
        BY <3>4 DEF PaidInv, LeftFor
      <3>6. \A n \in Sends : ~Left(n)'
        BY <1>s, <2>1, <3>5 DEF Left
      <3>7. paidBy = {} /\ code # "ok"
        BY <2>1, <3>5 DEF PaidInv
      <3>8. QED
        BY <3>1, <3>3, <3>6, <3>7 DEF PaidInv
    <2>3. CASE ~(next < ActionIndex)
      <3>1. code' = "ok" /\ UNCHANGED <<next, attempt>>
        BY <1>2, <2>3 DEF SendLands
      <3>2. next = ActionIndex
        BY <1>t, <2>3
      <3>3. Plan[next].act
        BY <1>t, <3>2, SettingFacts
      <3>4. paidBy' = {attempt}
        BY <1>2, <3>3 DEF SendLands, LandTx
      <3>5. ASSUME NEW n \in Sends, Left(n)'
            PROVE  LeftFor(n)'
        <4>1. Left(n)
          BY <1>s, <2>1, <3>5 DEF Left
        <4>2. ~ExpiryIsFinal /\ n < attempt /\ next = ActionIndex
          BY <2>1, <4>1 DEF PaidInv, LeftFor
        <4>3. QED
          BY <1>s, <3>1, <4>2 DEF LeftFor
      <3>6. QED
        BY <3>1, <3>4, <3>5 DEF PaidInv
    <2>4. QED
      BY <2>2, <2>3
  <1>3. CASE SendFails \/ SendUnsent \/ SendLost \/ SendExpires \/ HookFails
    <2>1. PICK e \in ErrorCodes :
            /\ GiveUp(e) /\ pc = "send" /\ attempt' = attempt
            /\ \/ lost' = lost
               \/ /\ e = "RPC_ERROR" \/ (e = "TRANSACTION_EXPIRED" /\ ~ExpiryIsFinal)
                  /\ lost' = lost \cup {<<next, attempt>>}
      BY <1>3, GiveUpSteps
    <2>2. /\ code' = e /\ paidBy' = paidBy /\ next' = next
          /\ code = "none" /\ e # "ok"
      BY <2>1 DEF GiveUp, chainVars, ControlInv, ErrorCodes
    <2>3. \A n \in Sends : Left(n) => Left(n)'
      BY <1>s, <2>1 DEF Left
    <2>4. ASSUME NEW n \in Sends, Left(n)'
          PROVE  LeftFor(n)'
      <3>1. CASE Left(n)
        <4>1. ~ExpiryIsFinal /\ n < attempt /\ next = ActionIndex
          BY <2>2, <3>1 DEF PaidInv, LeftFor
        <4>2. QED
          BY <1>s, <2>1, <2>2, <4>1 DEF LeftFor
      <3>2. CASE ~Left(n)
        <4>1. /\ <<ActionIndex, n>> = <<next, attempt>>
              /\ e = "RPC_ERROR" \/ (e = "TRANSACTION_EXPIRED" /\ ~ExpiryIsFinal)
          BY <1>s, <2>1, <2>4, <3>2 DEF Left
        <4>2. next = ActionIndex /\ n = attempt
          BY <4>1
        <4>3. QED
          BY <1>s, <2>1, <2>2, <4>1, <4>2 DEF LeftFor
      <3>3. QED
        BY <3>1, <3>2
    <2>5. QED
      BY <2>2, <2>3, <2>4 DEF PaidInv
  <1>4. CASE SendAgain
    <2>1. UNCHANGED <<paidBy, code, next>> /\ attempt' = attempt + 1 /\ code = "none"
      BY <1>4 DEF SendAgain, chainVars, ControlInv
    <2>2. \/ lost' = lost
          \/ ~ExpiryIsFinal /\ lost' = lost \cup {<<next, attempt>>}
      BY <1>4 DEF SendAgain, Expired
    <2>3. \A n \in Sends : Left(n) => Left(n)'
      BY <1>s, <2>2 DEF Left
    <2>4. ASSUME NEW n \in Sends, Left(n)'
          PROVE  LeftFor(n)'
      <3>1. n \in Nat
        BY DEF Sends
      <3>2. next = ActionIndex /\ ~ExpiryIsFinal /\ (n < attempt \/ n = attempt)
        <4>1. CASE Left(n)
          BY <2>1, <4>1 DEF PaidInv, LeftFor
        <4>2. CASE ~Left(n)
          <5>1. <<ActionIndex, n>> = <<next, attempt>> /\ ~ExpiryIsFinal
            BY <1>s, <2>2, <2>4, <4>2 DEF Left
          <5>2. QED
            BY <5>1
        <4>3. QED
          BY <4>1, <4>2
      <3>3. n < attempt'
        BY <1>t, <2>1, <3>1, <3>2
      <3>4. QED
        BY <1>s, <2>1, <3>2, <3>3 DEF LeftFor
    <2>5. QED
      BY <2>1, <2>3, <2>4 DEF PaidInv
  <1>5. CASE \/ \E w \in Closers : CloseStep(w)
             \/ RecoverFinds \/ RecoverReturns \/ LostClosesLand
    BY <1>5, ClosersLeaveTheCall, SamePaidInv DEF callVars
  <1>6. CASE LostTxLands
    <2>1. PICK id \in lost : LandTx(id)
      BY <1>6 DEF LostTxLands
    <2>2. lost' = lost /\ UNCHANGED <<code, next, attempt>>
      BY <1>6 DEF LostTxLands, wireVars, callVars
    <2>3. CASE Plan[id[1]].act
      <3>1. id \in TxId /\ id[1] \in 1..Len(Plan) /\ id[2] \in Sends
        BY <2>1 DEF TypeOK, TxId
      <3>2. id = <<ActionIndex, id[2]>>
        BY <1>t, <2>3, <3>1, SettingFacts DEF TxId
      <3>3. Left(id[2])'
        BY <1>s, <2>1, <2>2, <3>2 DEF Left
      <3>4. paidBy' = {id[2]}
        BY <2>1, <2>3 DEF LandTx
      <3>5. \A n \in Sends : Left(n)' => LeftFor(n)'
        BY <1>s, <2>2 DEF PaidInv, Left, LeftFor
      <3>6. QED
        BY <3>1, <3>3, <3>4, <3>5 DEF PaidInv
    <2>4. CASE ~Plan[id[1]].act
      <3>1. paidBy' = paidBy
        BY <2>1, <2>4 DEF LandTx
      <3>2. QED
        BY <1>s, <2>2, <3>1, SamePaidInv
    <2>5. QED
      BY <2>3, <2>4
  <1>7. CASE UNCHANGED vars
    BY <1>7, SamePaidInv DEF vars, chainVars, wireVars, callVars
  <1>8. QED
    BY <1>1, <1>2, <1>3, <1>4, <1>5, <1>6, <1>7 DEF Next, CallStep

LEMMA StepAnswerInv == AnswerInv /\ [Next]_vars => AnswerInv'
  <1> SUFFICES ASSUME AnswerInv, [Next]_vars PROVE AnswerInv'
    OBVIOUS
  <1>t. TypeOK /\ TypeOK' /\ PaidInv'
    BY StepTypeOK, StepPaidInv DEF AnswerInv
  <1> SUFFICES ControlInv'
    BY <1>t DEF AnswerInv
  <1> USE DEF AnswerInv
  <1>1. CASE Prepare
    BY <1>1 DEF Prepare, ControlInv, chainVars, wireVars, answerVars
  <1>2. CASE PrepareFails
    BY <1>2 DEF PrepareFails, ControlInv, chainVars, wireVars, ErrorCodes
  <1>3. CASE SendLands
    <2>1. /\ pc = "send" /\ code = "none" /\ outcome = "none" /\ outcome' = outcome
      BY <1>3 DEF SendLands, ControlInv, answerVars
    <2>2. \/ pc' = pc /\ code' = code
          \/ pc' = "closing" /\ code' = "ok"
      BY <1>3 DEF SendLands
    <2>3. QED
      BY <2>1, <2>2 DEF ControlInv, ErrorCodes
  <1>4. CASE SendFails \/ SendUnsent \/ SendLost \/ SendExpires \/ HookFails
    <2>1. PICK e \in ErrorCodes : GiveUp(e) /\ pc = "send"
      BY <1>4, GiveUpSteps
    <2>2. /\ pc' = "closing" /\ code' = e /\ outcome' = outcome /\ outcome = "none" /\ e # "none"
      BY <2>1 DEF GiveUp, answerVars, ControlInv, ErrorCodes
    <2>3. QED
      BY <2>2 DEF ControlInv, ErrorCodes
  <1>5. CASE SendAgain
    <2>1. UNCHANGED <<paidBy, pc, code, outcome>> /\ pc = "send"
      BY <1>5 DEF SendAgain, chainVars, answerVars
    <2>2. QED
      BY <2>1 DEF ControlInv, ErrorCodes
  <1>6. CASE CallReturnsAfterClosing
    <2>1. /\ pc = "closing" /\ pc' = "returned" /\ outcome' = code
          /\ UNCHANGED <<paidBy, lost, code>>
      BY <1>6 DEF CallReturnsAfterClosing, chainVars, wireVars
    <2>2. code \in ErrorCodes \cup {"ok"}
      BY <2>1 DEF ControlInv, TypeOK
    <2>3. QED
      BY <2>1, <2>2 DEF ControlInv, ErrorCodes
  <1>7. CASE Crash
    BY <1>7 DEF Crash, ControlInv, chainVars, wireVars, answerVars
  <1>8. CASE \/ \E w \in Closers : CloseStep(w)
             \/ RecoverFinds \/ RecoverReturns \/ LostClosesLand
    BY <1>8, ClosersLeaveTheCall DEF ControlInv, callVars, answerVars
  <1>9. CASE LostTxLands
    <2>1. lost # {} /\ lost' = lost /\ UNCHANGED callVars
      BY <1>9 DEF LostTxLands, wireVars
    <2>2. QED
      BY <2>1 DEF ControlInv, callVars, answerVars
  <1>10. CASE UNCHANGED vars
    BY <1>10 DEF vars, ControlInv, chainVars, wireVars, callVars, answerVars
  <1>11. QED
    BY <1>1, <1>2, <1>3, <1>4, <1>5, <1>6, <1>7, <1>8, <1>9, <1>10 DEF Next, CallStep

LEMMA AnswerInvCorrect == Spec => []AnswerInv
  BY InitAnswerInv, StepAnswerInv, PTL DEF Spec

-----------------------------------------------------------------------------
(* The call implements module Payment.                                     *)

\* A step pays, answers or does neither; it pays once, while the call sends or
\* when a transfer or withdraw it left behind lands.
LEMMA StepShape ==
    ASSUME AnswerInv, [Next]_vars
    PROVE  \/ paidBy' = paidBy /\ (outcome' = outcome \/ outcome = "none")
           \/ /\ UNCHANGED <<outcome, attempt>>
              /\ pc = "send" \/ \E n \in Sends : Left(n)
              /\ paidBy = {} /\ \E n \in Sends : paidBy' = {n}
  <1> USE DEF AnswerInv
  <1>t. /\ next \in 1..Len(Plan) /\ attempt \in Sends /\ setting \in Settings
        /\ ActionIndex \in 1..Len(Plan) /\ ActionIndex = Len(Plan) /\ Len(Plan) \in Nat
    BY SettingFacts DEF TypeOK, ActionIndex
  <1>1. CASE Prepare \/ SendAgain \/ Crash
    BY <1>1 DEF Prepare, SendAgain, Crash, chainVars, answerVars
  <1>2. CASE PrepareFails \/ CallReturnsAfterClosing
    BY <1>2 DEF PrepareFails, CallReturnsAfterClosing, ControlInv, chainVars
  <1>3. CASE SendLands
    <2>1. pc = "send" /\ outcome' = outcome /\ LandTx(<<next, attempt>>)
      BY <1>3 DEF SendLands, answerVars
    <2>2. CASE Plan[next].act
      <3>1. ~(next < ActionIndex)
        BY <1>t, <2>2, SettingFacts
      <3>2. attempt' = attempt
        BY <1>3, <3>1 DEF SendLands
      <3>3. paidBy = {} /\ paidBy' = {attempt}
        BY <2>1, <2>2 DEF LandTx, Applies
      <3>4. QED
        BY <1>t, <2>1, <3>2, <3>3
    <2>3. CASE ~Plan[next].act
      BY <2>1, <2>3 DEF LandTx
    <2>4. QED
      BY <2>2, <2>3
  <1>4. CASE SendFails \/ SendUnsent \/ SendLost \/ SendExpires \/ HookFails
    BY <1>4, GiveUpSteps DEF GiveUp, chainVars, answerVars
  <1>5. CASE \/ \E w \in Closers : CloseStep(w)
             \/ RecoverFinds \/ RecoverReturns \/ LostClosesLand
    BY <1>5, ClosersLeaveTheCall DEF callVars, answerVars
  <1>6. CASE LostTxLands
    <2>1. PICK id \in lost : LandTx(id)
      BY <1>6 DEF LostTxLands
    <2>2. /\ id \in TxId /\ id[1] \in 1..Len(Plan) /\ id[2] \in Sends
          /\ outcome' = outcome /\ attempt' = attempt
      BY <1>6, <2>1 DEF LostTxLands, TypeOK, TxId, callVars, answerVars
    <2>3. CASE Plan[id[1]].act
      <3>1. id = <<ActionIndex, id[2]>>
        BY <1>t, <2>2, <2>3, SettingFacts DEF TxId
      <3>2. Left(id[2])
        BY <2>1, <3>1 DEF Left
      <3>3. paidBy = {} /\ paidBy' = {id[2]}
        BY <2>1, <2>3 DEF LandTx, Applies
      <3>4. QED
        BY <2>2, <3>2, <3>3
    <2>4. CASE ~Plan[id[1]].act
      BY <2>1, <2>2, <2>4 DEF LandTx
    <2>5. QED
      BY <2>3, <2>4
  <1>7. CASE UNCHANGED vars
    BY <1>7 DEF vars, chainVars, callVars, answerVars
  <1>8. QED
    BY <1>1, <1>2, <1>3, <1>4, <1>5, <1>6, <1>7 DEF Next, CallStep

\* An error is answered by the end of the closes.
LEMMA AnswerSteps ==
    ASSUME [Next]_vars, outcome' # outcome, outcome' # "REJECTED"
    PROVE  CallReturnsAfterClosing
  <1>1. CASE \/ Prepare \/ SendAgain \/ Crash \/ SendLands \/ LostTxLands \/ UNCHANGED vars
    BY <1>1 DEF Prepare, SendAgain, Crash, SendLands, LostTxLands, vars, callVars, answerVars
  <1>2. CASE PrepareFails
    BY <1>2 DEF PrepareFails
  <1>3. CASE SendFails \/ SendUnsent \/ SendLost \/ SendExpires \/ HookFails
    BY <1>3, GiveUpSteps DEF GiveUp, answerVars
  <1>4. CASE \/ \E w \in Closers : CloseStep(w)
             \/ RecoverFinds \/ RecoverReturns \/ LostClosesLand
    BY <1>4, ClosersLeaveTheCall DEF callVars, answerVars
  <1>5. QED
    BY <1>1, <1>2, <1>3, <1>4 DEF Next, CallStep

\* A send of the action is left behind by a lost confirmation or a wrong expiry, and
\* by that only when the RPC client can be wrong.
LEMMA LeftBehind ==
    ASSUME AnswerInv
    PROVE  /\ (\E n \in Sends : Left(n)) => code = "RPC_ERROR" \/ WrongExpiry
           /\ WrongExpiry => ~ExpiryIsFinal
  <1>1. ASSUME NEW n \in Sends, Left(n)
        PROVE  code = "RPC_ERROR" \/ WrongExpiry
    BY <1>1 DEF AnswerInv, PaidInv, LeftFor, Left, WrongExpiry
  <1>2. ASSUME WrongExpiry
        PROVE  ~ExpiryIsFinal
    <2>1. PICK n \in Sends : Left(n) /\ (n < attempt \/ code = "TRANSACTION_EXPIRED")
      BY <1>2 DEF WrongExpiry, Left
    <2>2. attempt \in Nat /\ n \in Nat /\ LeftFor(n)
      BY <2>1, SettingsAssumption DEF AnswerInv, TypeOK, PaidInv, Sends
    <2>3. QED
      BY <2>1, <2>2 DEF LeftFor
  <1>3. QED
    BY <1>1, <1>2

\* Every step of the call is a step of Payment, or changes nothing of it, or follows a
\* wrong expiry of the transfer or withdraw.
LEMMA PromiseStep ==
    ASSUME AnswerInv, AnswerInv', [Next]_vars
    PROVE  [Promise!Next \/ (WrongExpiry /\ Promise!BreakPromise)]_<<paidBy, AnswerOf>>
  <1>1. ASSUME paidBy' = paidBy, outcome' = outcome
        PROVE  UNCHANGED <<paidBy, AnswerOf>>
    BY <1>1 DEF AnswerOf
  <1>2. ASSUME outcome' = outcome, pc = "send" \/ \E n \in Sends : Left(n), paidBy = {},
               \E n \in Sends : paidBy' = {n}
        PROVE  Promise!Pay \/ (WrongExpiry /\ Promise!BreakPromise)
    <2>1. AnswerOf' = AnswerOf
      BY <1>2 DEF AnswerOf
    <2>2. AnswerOf = "unpaid" => WrongExpiry
      <3> SUFFICES ASSUME AnswerOf = "unpaid" PROVE WrongExpiry
        OBVIOUS
      <3>1. outcome \notin {"none", "ok", "RPC_ERROR"}
        BY DEF AnswerOf
      <3>2. pc = "returned"
        BY <3>1 DEF AnswerInv, ControlInv
      <3>3. \E n \in Sends : Left(n)
        BY <1>2, <3>2
      <3>4. outcome # "REJECTED"
        BY <3>3 DEF AnswerInv, ControlInv, Left
      <3>5. outcome = code
        BY <3>1, <3>4 DEF AnswerInv, ControlInv, TypeOK
      <3>6. QED
        BY <3>1, <3>3, <3>5, LeftBehind
    <2>3. QED
      BY <1>2, <2>1, <2>2 DEF Promise!Pay, Promise!BreakPromise
  <1>3. ASSUME paidBy' = paidBy, outcome = "none", outcome' # outcome
        PROVE  Promise!Answer \/ (WrongExpiry /\ Promise!BreakPromise)
    <2>1. AnswerOf = "none"
      BY <1>3 DEF AnswerOf
    <2>2. CASE outcome' = "ok"
      <3>1. AnswerOf' = "paid" /\ paidBy # {}
        BY <1>3, <2>2 DEF AnswerOf, AnswerInv, ControlInv, PaidInv, ErrorCodes
      <3>2. QED
        BY <1>3, <2>1, <3>1 DEF Promise!Answer
    <2>3. CASE outcome' = "REJECTED"
      <3>1. AnswerOf' = "unpaid" /\ paidBy = {}
        BY <1>3, <2>3 DEF AnswerOf, AnswerInv, ControlInv
      <3>2. QED
        BY <1>3, <2>1, <3>1 DEF Promise!Answer
    <2>4. CASE outcome' = "RPC_ERROR"
      <3>1. AnswerOf' = "unknown"
        BY <2>4 DEF AnswerOf
      <3>2. QED
        BY <1>3, <2>1, <3>1 DEF Promise!Answer
    <2>5. CASE outcome' \in ErrorCodes /\ outcome' # "RPC_ERROR"
      <3>1. AnswerOf' = "unpaid"
        BY <2>5 DEF AnswerOf, ErrorCodes
      <3>2. paidBy = {} \/ WrongExpiry
        <4> SUFFICES ASSUME paidBy # {} PROVE WrongExpiry
          OBVIOUS
        <4>1. pc' = "returned" /\ pc # "returned" /\ code' = outcome'
          BY <1>3, <2>5 DEF AnswerInv, ControlInv
        <4>2. CallReturnsAfterClosing
          BY <1>3, <2>5, AnswerSteps DEF ErrorCodes
        <4>3. code = outcome'
          BY <4>2 DEF CallReturnsAfterClosing
        <4>4. code # "ok" /\ code # "RPC_ERROR"
          BY <2>5, <4>3 DEF ErrorCodes
        <4>5. \E n \in Sends : Left(n)
          BY <4>4 DEF AnswerInv, PaidInv
        <4>6. QED
          BY <4>4, <4>5, LeftBehind
      <3>3. QED
        BY <1>3, <2>1, <3>1, <3>2 DEF Promise!Answer, Promise!BreakPromise
    <2>6. QED
      BY <1>3, <2>2, <2>3, <2>4, <2>5 DEF AnswerInv, TypeOK
  <1>4. QED
    BY StepShape, <1>1, <1>2, <1>3 DEF Promise!Next

\* transfer and withdraw of the Rust crate, with retries, closes, recovery, lost
\* confirmations and dropped futures: the call pays at most once, an answer "ok" says
\* that it did, and every error but RPC_ERROR that it did not and will not, unless
\* the transfer or withdraw was wrongly taken for expired.
THEOREM KeepsPromiseHolds == Spec => KeepsPromise
  <1>1. Init => Promise!Init
    BY DEF Init, Promise!Init, AnswerOf
  <1>2. AnswerInv /\ AnswerInv' /\ [Next]_vars
          => [Promise!Next \/ (WrongExpiry /\ Promise!BreakPromise)]_<<paidBy, AnswerOf>>
    BY PromiseStep
  <1>3. QED
    BY <1>1, <1>2, AnswerInvCorrect, PTL DEF Spec, KeepsPromise

\* Sender::send with an RPC client that reports a transaction as expired only when it
\* can no longer land: the call implements Payment without exception.
THEOREM PromiseIsKeptToTheLetter == Spec /\ []ExpiryIsFinal => Promise!Spec
  <1>1. Init => Promise!Init
    BY DEF Init, Promise!Init, AnswerOf
  <1>2. AnswerInv /\ AnswerInv' /\ [Next]_vars /\ ExpiryIsFinal
          => [Promise!Next]_<<paidBy, AnswerOf>>
    BY PromiseStep, LeftBehind
  <1>3. QED
    BY <1>1, <1>2, AnswerInvCorrect, PTL DEF Spec, Promise!Spec

-----------------------------------------------------------------------------
(* What an error leaves open.                                              *)

\* The accounts that close_proof_accounts has still to answer for.
Pending(c) == c.sending \cup c.singles \cup c.rest

\* It is done when none is left, and tries one by one only when it is at one.
CloserInv(c) ==
    /\ c.st # "send" => Pending(c) = {}
    /\ c.singles # {} => \E p \in Proofs : c.sending = {p}

\* While no transaction is lost the call's lists say what is on the chain.  Before
\* it sends there is nothing.
NothingYet == pc = "prepare" => \A p \in Proofs : account[p] = "none"

\* While it sends, an account is verified only if the list holds it, and only
\* created between the two transactions that set it up.
ListsKnowAll ==
    pc = "send" => \A p \in Proofs :
        /\ account[p] = "verified" => p \in verified
        /\ account[p] = "created" => p \in Plan[next].verify \ Plan[next].create

\* While it closes after an error, a verified account is still to be closed or was
\* left open, and that only when a close went wrong.
ClosesKnowAll ==
    pc = "closing" /\ code \in ErrorCodes => \A p \in Proofs :
        /\ account[p] = "verified" => p \in Pending(closing["flow"]) \cup closing["flow"].open
        /\ account[p] = "created" => p \in unverified
        /\ p \in closing["flow"].open /\ ~interrupted => account[p] # "verified"

\* What it returned says it all.
ErrorKnowsAll ==
    outcome \in ErrorCodes => \A p \in Proofs :
        /\ Exists(p) => p \in leftOpen
        /\ ~interrupted => account[p] # "verified"

OpenInv == lost = {} => NothingYet /\ ListsKnowAll /\ ClosesKnowAll /\ ErrorKnowsAll

CloseInv == AnswerInv /\ (\A w \in Closers : CloserInv(closing[w])) /\ OpenInv

LEMMA SingletonSending ==
    ASSUME NEW p, NEW s, s = {p}
    PROVE  ~(Cardinality(s) > 1)
  <1>1. Cardinality({p}) = 1
    BY FS_Singleton
  <1>2. QED
    BY <1>1

\* Of a set of accounts that is not several every member is the only one.
LEMMA TriedAlone ==
    ASSUME setting \in Settings, NEW s \in SUBSET Proofs, ~(Cardinality(s) > 1), NEW p \in s
    PROVE  s = {p}
  <1>1. IsFiniteSet(s) /\ Cardinality(s) \in Nat
    BY SettingFacts, FS_Subset, FS_CardinalityType
  <1>2. Cardinality(s \ {p}) = Cardinality(s) - 1 /\ IsFiniteSet(s \ {p})
    BY <1>1, FS_RemoveElement
  <1>3. Cardinality(s \ {p}) = 0
    BY <1>1, <1>2, FS_CardinalityType
  <1>4. s \ {p} = {}
    BY <1>2, <1>3, FS_EmptySet
  <1>5. QED
    BY <1>4

\* One transaction of close_proof_accounts: its accounts are closed, or stay
\* with the closer, or are left open after they were tried alone.
CloseOutcome(w, d) ==
    \/ /\ ClosesLand(closing[w].sending)
       /\ Pending(d) = closing[w].singles \cup closing[w].rest
       /\ d.open = closing[w].open /\ interrupted' = interrupted
    \/ /\ account' = account
       /\ Pending(d) = Pending(closing[w]) /\ d.open = closing[w].open
       /\ interrupted' = FALSE => interrupted = FALSE
    \/ /\ account' = account
       /\ ~(Cardinality(closing[w].sending) > 1)
       /\ Pending(d) = closing[w].singles \cup closing[w].rest
       /\ d.open = closing[w].open \cup closing[w].sending
       /\ interrupted' = FALSE =>
             interrupted = FALSE /\ (w = "flow" => ~Closable(closing[w].sending))

LEMMA CloseStepShape ==
    ASSUME TypeOK, NEW w \in Closers, CloserInv(closing[w]), CloseStep(w)
    PROVE  \E d \in ClosingRec :
              closing' = [closing EXCEPT ![w] = d] /\ CloserInv(d) /\ CloseOutcome(w, d)
  <1> DEFINE c == closing[w]
  <1>1. c \in ClosingRec /\ closing \in [Closers -> ClosingRec] /\ interrupted \in BOOLEAN
    BY DEF TypeOK
  <1>2. c.st = "send"
    BY DEF CloseStep, CloseLands, CloseFails, CloseLost, CloseAgain
  <1>3. ASSUME NEW f \in ClosingRec, f.st = "send", NEW d \in Onward(f)
        PROVE  /\ d \in ClosingRec /\ CloserInv(d)
               /\ Pending(d) = f.singles \cup f.rest /\ d.open = f.open
    <2>1. OnTo(f, d)
      BY <1>3, OnwardShape
    <2>2. QED
      BY <2>1 DEF OnTo, CloserInv, Pending
  <1>4. CASE CloseLands(w)
    <2> DEFINE f == [c EXCEPT !.closed = c.closed \cup c.sending]
    <2>1. f \in ClosingRec /\ f.st = "send" /\ f.open = c.open /\ f.singles = c.singles /\ f.rest = c.rest
      BY <1>1, <1>2, LandedCloseShape
    <2>2. PICK d \in Onward(f) : closing' = [closing EXCEPT ![w] = d]
      BY <1>4 DEF CloseLands
    <2> HIDE DEF f
    <2>3. /\ d \in ClosingRec /\ CloserInv(d)
          /\ Pending(d) = c.singles \cup c.rest /\ d.open = c.open
      BY <1>3, <2>1, <2>2
    <2>4. ClosesLand(c.sending) /\ interrupted' = interrupted
      BY <1>4 DEF CloseLands
    <2>5. QED
      BY <2>2, <2>3, <2>4 DEF CloseOutcome
  <1>5. CASE CloseFails(w) \/ CloseLost(w)
    <2> DEFINE f == AfterFailedClose(c)
    <2>1. account' = account /\ \E d \in Onward(f) : closing' = [closing EXCEPT ![w] = d]
      BY <1>5 DEF CloseFails, CloseLost, chainVars
    <2>2. interrupted' = FALSE => interrupted = FALSE /\ (w = "flow" => ~Closable(c.sending))
      BY <1>1, <1>5 DEF CloseFails, CloseLost
    <2>3. f \in ClosingRec /\ f.st = "send" /\ f.rest = c.rest
      BY <1>1, <1>2, FailedCloseShape
    <2>4. PICK d \in Onward(f) : closing' = [closing EXCEPT ![w] = d]
      BY <2>1
    <2>5. \/ Cardinality(c.sending) > 1 /\ f.open = c.open /\ f.singles = c.sending
          \/ /\ ~(Cardinality(c.sending) > 1)
             /\ f.open = c.open \cup c.sending /\ f.singles = c.singles
      BY <1>1, <1>2, FailedCloseShape
    <2> HIDE DEF f
    <2>6. /\ d \in ClosingRec /\ CloserInv(d)
          /\ Pending(d) = f.singles \cup f.rest /\ d.open = f.open
      BY <1>3, <2>3, <2>4
    <2>7. CASE Cardinality(c.sending) > 1
      <3>1. c.singles = {}
        <4>1. ASSUME NEW p \in Proofs, c.sending = {p} PROVE FALSE
          BY <4>1, <2>7, SingletonSending
        <4>2. QED
          BY <4>1 DEF CloserInv
      <3>2. Pending(d) = Pending(c) /\ d.open = c.open
        BY <2>3, <2>5, <2>6, <2>7, <3>1 DEF Pending
      <3>3. QED
        BY <2>1, <2>2, <2>4, <2>6, <3>2 DEF CloseOutcome
    <2>8. CASE ~(Cardinality(c.sending) > 1)
      <3>1. Pending(d) = c.singles \cup c.rest /\ d.open = c.open \cup c.sending
        BY <2>3, <2>5, <2>6, <2>8
      <3>2. QED
        BY <2>1, <2>2, <2>4, <2>6, <2>8, <3>1 DEF CloseOutcome
    <2>9. QED
      BY <2>7, <2>8
  <1>6. CASE CloseAgain(w)
    <2>1. closing' = [closing EXCEPT ![w] = c]
      BY <1>1, <1>6 DEF CloseAgain
    <2>2. account' = account /\ interrupted' = interrupted
      BY <1>6 DEF CloseAgain, chainVars
    <2>3. QED
      BY <1>1, <2>1, <2>2 DEF CloseOutcome
  <1>7. QED
    BY <1>4, <1>5, <1>6 DEF CloseStep

-----------------------------------------------------------------------------

LEMMA ClosersIndependent ==
    ASSUME closing \in [Closers -> ClosingRec], NEW w \in Closers, NEW d, CloserInv(d),
           closing' = [closing EXCEPT ![w] = d],
           \A v \in Closers : CloserInv(closing[v]), setting' = setting
    PROVE  /\ closing'[w] = d /\ \A v \in Closers \ {w} : closing'[v] = closing[v]
           /\ (\A v \in Closers : CloserInv(closing[v]))'
  <1>1. closing'[w] = d /\ \A v \in Closers \ {w} : closing'[v] = closing[v]
    OBVIOUS
  <1>2. \A v \in Closers : CloserInv(closing'[v])
    BY <1>1
  <1>3. QED
    BY <1>1, <1>2, SameSetting DEF CloserInv, Pending

LEMMA NotClosingInv == CloserInv(NotClosing)
  BY DEF CloserInv, Pending, NotClosing

LEMMA StartClosingInv ==
    ASSUME NEW w \in Closers, NEW ps \in SUBSET Proofs, StartClosing(w, ps)
    PROVE  \E d \in ClosingRec :
              /\ closing' = [closing EXCEPT ![w] = d] /\ CloserInv(d)
              /\ Pending(d) = ps /\ d.open = {}
  BY StartClosingShape DEF CloserInv, Pending

\* Every step keeps the closers straight.
LEMMA StepCloserInv ==
    ASSUME TypeOK, [Next]_vars, \A w \in Closers : CloserInv(closing[w])
    PROVE  (\A w \in Closers : CloserInv(closing[w]))'
  <1>s. setting' = setting /\ setting \in Settings
    BY SettingStays DEF TypeOK
  <1>t. /\ closing \in [Closers -> ClosingRec] /\ "flow" \in Closers /\ "recover" \in Closers
        /\ verified \in SUBSET Proofs
    BY DEF TypeOK, Closers
  <1>1. CASE closing' = closing
    <2>1. \A w \in Closers : CloserInv(closing'[w])
      BY <1>1
    <2>2. QED
      BY <2>1, <1>s, SameSetting DEF CloserInv, Pending
  <1>2. ASSUME NEW w \in Closers, NEW ps \in SUBSET Proofs, StartClosing(w, ps)
        PROVE  (\A v \in Closers : CloserInv(closing[v]))'
    BY <1>2, <1>s, <1>t, StartClosingInv, ClosersIndependent
  <1>3. ASSUME NEW w \in Closers, closing' = [closing EXCEPT ![w] = NotClosing]
        PROVE  (\A v \in Closers : CloserInv(closing[v]))'
    BY <1>3, <1>s, <1>t, NotClosingInv, ClosersIndependent
  <1>4. CASE Prepare \/ PrepareFails \/ SendAgain \/ LostTxLands \/ LostClosesLand \/ UNCHANGED vars
    BY <1>1, <1>4 DEF Prepare, PrepareFails, SendAgain, LostTxLands, LostClosesLand, vars
  <1>5. CASE SendLands
    <2>1. closing' = closing \/ StartClosing("flow", {}) \/ StartClosing("flow", Proofs)
      BY <1>5 DEF SendLands
    <2>2. QED
      BY <1>1, <1>2, <1>t, <2>1
  <1>6. CASE SendFails \/ SendUnsent \/ SendLost \/ SendExpires \/ HookFails
    <2>1. StartClosing("flow", verified)
      BY <1>6, GiveUpSteps DEF GiveUp
    <2>2. QED
      BY <1>2, <1>t, <2>1
  <1>7. CASE CallReturnsAfterClosing \/ Crash \/ RecoverReturns
    BY <1>3, <1>7, <1>t DEF CallReturnsAfterClosing, Crash, RecoverReturns
  <1>8. CASE \E w \in Closers : CloseStep(w)
    BY <1>8, <1>s, <1>t, CloseStepShape, ClosersIndependent
  <1>9. CASE RecoverFinds
    <2>1. StartClosing("recover", {p \in Proofs : account[p] = "verified"})
      BY <1>9 DEF RecoverFinds
    <2>2. QED
      BY <1>2, <1>t, <2>1
  <1>10. QED
    BY <1>4, <1>5, <1>6, <1>7, <1>8, <1>9 DEF Next, CallStep

-----------------------------------------------------------------------------

\* What the closes of any caller do to the accounts.
AccountsClose ==
    \A p \in Proofs : account'[p] = account[p] \/ (account[p] = "verified" /\ account'[p] = "closed")

LEMMA ClosesClose ==
    ASSUME TypeOK, account' = account \/ \E ps : ClosesLand(ps)
    PROVE  AccountsClose
  BY DEF ClosesLand, Closable, AccountsClose, TypeOK

\* Steps of other callers and of the chain only close accounts.
LEMMA OpenInvCloses ==
    ASSUME OpenInv, setting' = setting, lost' = lost, interrupted' = interrupted,
           UNCHANGED callVars, closing'["flow"] = closing["flow"], AccountsClose
    PROVE  OpenInv'
  <1> SUFFICES ASSUME lost = {}
               PROVE  (NothingYet /\ ListsKnowAll /\ ClosesKnowAll /\ ErrorKnowsAll)'
    BY DEF OpenInv
  <1>1. /\ Proofs' = Proofs /\ Plan' = Plan
        /\ UNCHANGED <<pc, next, code, verified, unverified, outcome, leftOpen>>
    BY SameSetting DEF callVars, answerVars
  <1>2. /\ \A p \in Proofs : account'[p] # "closed" => account'[p] = account[p]
        /\ \A p \in Proofs : account[p] = "none" => account'[p] = "none"
    BY DEF AccountsClose
  <1>3. NothingYet /\ ListsKnowAll /\ ClosesKnowAll /\ ErrorKnowsAll
    BY DEF OpenInv
  <1>4. NothingYet'
    BY <1>1, <1>2, <1>3 DEF NothingYet
  <1>5. ListsKnowAll'
    BY <1>1, <1>2, <1>3 DEF ListsKnowAll
  <1>6. ClosesKnowAll'
    BY <1>1, <1>2, <1>3 DEF ClosesKnowAll, Pending
  <1>7. ErrorKnowsAll'
    BY <1>1, <1>2, <1>3 DEF ErrorKnowsAll, Exists
  <1>8. QED
    BY <1>4, <1>5, <1>6, <1>7

\* A transaction of the call's own closes.
LEMMA OpenInvOwnClose ==
    ASSUME TypeOK, OpenInv, CloserInv(closing["flow"]), setting' = setting, CloseStep("flow")
    PROVE  OpenInv'
  <1>1. UNCHANGED <<lost, callVars>> /\ "flow" \in Closers /\ setting \in Settings
    BY ClosersLeaveTheCall DEF Closers, TypeOK
  <1> SUFFICES ASSUME lost = {}
               PROVE  (NothingYet /\ ListsKnowAll /\ ClosesKnowAll /\ ErrorKnowsAll)'
    BY <1>1 DEF OpenInv
  <1>2. /\ Proofs' = Proofs /\ Plan' = Plan
        /\ UNCHANGED <<pc, next, code, verified, unverified, outcome, leftOpen>>
    BY <1>1, SameSetting DEF callVars, answerVars
  <1>3. PICK d \in ClosingRec : closing' = [closing EXCEPT !["flow"] = d] /\ CloseOutcome("flow", d)
    BY <1>1, CloseStepShape
  <1>4. closing'["flow"] = d
    BY <1>1, <1>3 DEF TypeOK
  <1>5. AccountsClose
    BY <1>3, ClosesClose DEF CloseOutcome
  <1>6. /\ \A p \in Proofs : account'[p] # "closed" => account'[p] = account[p]
        /\ \A p \in Proofs : account[p] = "none" => account'[p] = "none"
    BY <1>5 DEF AccountsClose
  <1>7. interrupted' = FALSE => interrupted = FALSE
    BY <1>3 DEF CloseOutcome
  <1>8. NothingYet /\ ListsKnowAll /\ ClosesKnowAll /\ ErrorKnowsAll
    BY DEF OpenInv
  <1>9. interrupted \in BOOLEAN /\ interrupted' \in BOOLEAN
    BY <1>1, CloseStepType DEF TypeOK
  <1>10. NothingYet' /\ ListsKnowAll'
    BY <1>2, <1>6, <1>8 DEF NothingYet, ListsKnowAll
  <1>11. ErrorKnowsAll'
    BY <1>2, <1>6, <1>7, <1>8, <1>9 DEF ErrorKnowsAll, Exists
  <1>12. ClosesKnowAll'
    <2> SUFFICES ASSUME pc = "closing", code \in ErrorCodes, NEW p \in Proofs
                 PROVE  /\ account'[p] = "verified" => p \in Pending(d) \cup d.open
                        /\ account'[p] = "created" => p \in unverified
                        /\ p \in d.open /\ ~interrupted' => account'[p] # "verified"
      BY <1>2, <1>4 DEF ClosesKnowAll, Pending
    <2>1. /\ account[p] = "verified" => p \in Pending(closing["flow"]) \cup closing["flow"].open
          /\ account[p] = "created" => p \in unverified
          /\ p \in closing["flow"].open /\ ~interrupted => account[p] # "verified"
      BY <1>8 DEF ClosesKnowAll
    <2>2. account'[p] = "created" => p \in unverified
      BY <1>6, <2>1
    <2>3. CASE /\ ClosesLand(closing["flow"].sending)
               /\ Pending(d) = closing["flow"].singles \cup closing["flow"].rest
               /\ d.open = closing["flow"].open /\ interrupted' = interrupted
      <3>1. p \in closing["flow"].sending => account'[p] = "closed"
        BY <2>3 DEF ClosesLand
      <3>2. account'[p] = "verified" => account[p] = "verified" /\ p \notin closing["flow"].sending
        BY <1>6, <3>1
      <3>3. QED
        BY <2>1, <2>2, <2>3, <3>2 DEF Pending
    <2>4. CASE /\ account' = account
               /\ Pending(d) = Pending(closing["flow"]) /\ d.open = closing["flow"].open
               /\ interrupted' = FALSE => interrupted = FALSE
      BY <1>9, <2>1, <2>4
    <2>5. CASE /\ account' = account
               /\ ~(Cardinality(closing["flow"].sending) > 1)
               /\ Pending(d) = closing["flow"].singles \cup closing["flow"].rest
               /\ d.open = closing["flow"].open \cup closing["flow"].sending
               /\ interrupted' = FALSE =>
                     interrupted = FALSE /\ ~Closable(closing["flow"].sending)
      <3>1. account'[p] = "verified" => p \in Pending(d) \cup d.open
        BY <2>1, <2>5 DEF Pending
      <3>2. ASSUME p \in closing["flow"].sending, interrupted' = FALSE
            PROVE  account'[p] # "verified"
        <4>1. closing["flow"].sending \in SUBSET Proofs
          BY <1>1, ClosingRecType DEF TypeOK
        <4>2. closing["flow"].sending = {p}
          BY <1>1, <2>5, <3>2, <4>1, TriedAlone
        <4>3. QED
          BY <2>5, <3>2, <4>2 DEF Closable
      <3>3. p \in d.open /\ interrupted' = FALSE => account'[p] # "verified"
        BY <1>9, <2>1, <2>5, <3>2
      <3>4. QED
        BY <1>9, <2>2, <3>1, <3>3
    <2>6. QED
      BY <1>3, <2>3, <2>4, <2>5 DEF CloseOutcome
  <1>13. QED
    BY <1>10, <1>11, <1>12

\* An error starts the closes of what the list holds.
LEMMA OpenInvGiveUp ==
    ASSUME AnswerInv, OpenInv, setting' = setting, pc = "send", lost = {},
           NEW e \in ErrorCodes, GiveUp(e)
    PROVE  OpenInv'
  <1>1. /\ pc' = "closing" /\ outcome' = "none"
        /\ UNCHANGED <<account, verified, interrupted>>
        /\ unverified' = unverified \cup (Plan[next].verify \ Plan[next].create)
    BY DEF GiveUp, chainVars, answerVars, AnswerInv, ControlInv
  <1>2. "flow" \in Closers /\ verified \in SUBSET Proofs /\ closing \in [Closers -> ClosingRec]
    BY DEF AnswerInv, TypeOK, Closers
  <1>3. PICK d \in ClosingRec :
          closing' = [closing EXCEPT !["flow"] = d] /\ Pending(d) = verified /\ d.open = {}
    BY <1>2, StartClosingInv DEF GiveUp
  <1>4. closing'["flow"] = d
    BY <1>2, <1>3
  <1>5. ListsKnowAll
    BY DEF OpenInv
  <1>6. ClosesKnowAll'
    <2> SUFFICES ASSUME NEW p \in Proofs
                 PROVE  /\ account[p] = "verified" => p \in Pending(d) \cup d.open
                        /\ account[p] = "created" => p \in unverified'
                        /\ p \notin d.open
      BY <1>1, <1>4, SameSetting DEF ClosesKnowAll, Pending
    <2>1. QED
      BY <1>1, <1>3, <1>5 DEF ListsKnowAll
  <1>7. NothingYet' /\ ListsKnowAll' /\ ErrorKnowsAll'
    BY <1>1 DEF NothingYet, ListsKnowAll, ErrorKnowsAll, ErrorCodes
  <1>8. QED
    BY <1>6, <1>7 DEF OpenInv

\* A transaction of the call lands: the next one goes on where it left off.
LEMMA OpenInvSendLands ==
    ASSUME AnswerInv, OpenInv, setting' = setting, SendLands
    PROVE  OpenInv'
  <1>1. /\ pc = "send" /\ outcome' = "none" /\ lost' = lost
        /\ verified' = verified \cup Plan[next].verify
        /\ LandTx(<<next, attempt>>)
    BY DEF SendLands, wireVars, answerVars, AnswerInv, ControlInv
  <1>2. setting \in Settings /\ next \in 1..Len(Plan) /\ Proofs' = Proofs /\ Plan' = Plan
    BY SameSetting DEF AnswerInv, TypeOK
  <1> SUFFICES ASSUME lost = {}
               PROVE  (NothingYet /\ ListsKnowAll /\ ClosesKnowAll /\ ErrorKnowsAll)'
    BY <1>1 DEF OpenInv
  <1>3. ErrorKnowsAll'
    BY <1>1 DEF ErrorKnowsAll, ErrorCodes
  <1>4. CASE ~(next < ActionIndex)
    <2>1. pc' = "closing" /\ code' = "ok"
      BY <1>4 DEF SendLands
    <2>2. QED
      BY <1>3, <2>1 DEF NothingYet, ListsKnowAll, ClosesKnowAll, ErrorCodes
  <1>5. CASE next < ActionIndex
    <2>1. pc' = "send" /\ next' = next + 1
      BY <1>1, <1>5 DEF SendLands
    <2>2. next # ActionIndex
      BY <1>2, <1>5, SettingFacts
    <2>3. /\ Plan[next].close = {}
          /\ Plan[next].create \ Plan[next].verify
                \subseteq Plan[next + 1].verify \ Plan[next + 1].create
      BY <1>2, <2>2, SettingFacts
    <2>4. ListsKnowAll
      BY DEF OpenInv
    <2>5. account' = AfterTx(Plan[next])
      BY <1>1 DEF LandTx
    <2>6. ASSUME NEW p \in Proofs
          PROVE  /\ account'[p] = "verified" => p \in verified'
                 /\ account'[p] = "created" => p \in Plan[next + 1].verify \ Plan[next + 1].create
      <3>1. CASE p \in Plan[next].verify
        BY <1>1, <2>3, <2>5, <3>1 DEF AfterTx
      <3>2. CASE p \in Plan[next].create \ Plan[next].verify
        <4>1. account'[p] = "created"
          BY <2>3, <2>5, <3>2 DEF AfterTx
        <4>2. QED
          BY <2>3, <3>2, <4>1
      <3>3. CASE p \notin Plan[next].create \cup Plan[next].verify
        <4>1. account'[p] = account[p]
          BY <2>3, <2>5, <3>3 DEF AfterTx
        <4>2. QED
          BY <1>1, <2>4, <3>3, <4>1 DEF ListsKnowAll
      <3>4. QED
        BY <3>1, <3>2, <3>3
    <2>7. ListsKnowAll'
      BY <1>2, <2>1, <2>6 DEF ListsKnowAll
    <2>8. QED
      BY <1>3, <2>1, <2>7 DEF NothingYet, ClosesKnowAll
  <1>6. QED
    BY <1>4, <1>5

LEMMA OpenInvReturns ==
    ASSUME AnswerInv, OpenInv, CloserInv(closing["flow"]), setting' = setting,
           CallReturnsAfterClosing
    PROVE  OpenInv'
  <1>1. /\ pc = "closing" /\ pc' = "returned" /\ outcome' = code
        /\ UNCHANGED <<account, lost, interrupted>>
        /\ code # "ok" => leftOpen' = Unclosed
        /\ closing["flow"].st = "done"
    BY DEF CallReturnsAfterClosing, chainVars, wireVars
  <1>2. Pending(closing["flow"]) = {}
    BY <1>1 DEF CloserInv
  <1> SUFFICES ASSUME lost = {}
               PROVE  (NothingYet /\ ListsKnowAll /\ ClosesKnowAll /\ ErrorKnowsAll)'
    BY <1>1 DEF OpenInv
  <1>3. NothingYet' /\ ListsKnowAll' /\ ClosesKnowAll'
    BY <1>1 DEF NothingYet, ListsKnowAll, ClosesKnowAll
  <1>4. ErrorKnowsAll'
    <2> SUFFICES ASSUME code \in ErrorCodes, NEW p \in Proofs
                 PROVE  /\ Exists(p) => p \in Unclosed
                        /\ ~interrupted => account[p] # "verified"
      BY <1>1, SameSetting DEF ErrorKnowsAll, Exists, ErrorCodes
    <2>1. /\ account[p] = "verified" => p \in closing["flow"].open
          /\ account[p] = "created" => p \in unverified
          /\ p \in closing["flow"].open /\ ~interrupted => account[p] # "verified"
      BY <1>1, <1>2 DEF OpenInv, ClosesKnowAll
    <2>2. QED
      BY <2>1 DEF Exists, Unclosed
  <1>5. QED
    BY <1>3, <1>4

LEMMA InitCloseInv == Init => CloseInv
  <1> SUFFICES ASSUME Init PROVE CloseInv
    OBVIOUS
  <1>1. \A w \in Closers : CloserInv(closing[w])
    BY NotClosingInv DEF Init
  <1>2. OpenInv
    BY DEF Init, OpenInv, NothingYet, ListsKnowAll, ClosesKnowAll, ErrorKnowsAll, ErrorCodes
  <1>3. QED
    BY <1>1, <1>2, InitAnswerInv DEF CloseInv

LEMMA StepCloseInv == CloseInv /\ [Next]_vars => CloseInv'
  <1> SUFFICES ASSUME CloseInv, [Next]_vars PROVE CloseInv'
    OBVIOUS
  <1>1. AnswerInv' /\ (\A w \in Closers : CloserInv(closing[w]))'
    BY StepAnswerInv, StepCloserInv DEF CloseInv, AnswerInv
  <1> SUFFICES OpenInv'
    BY <1>1 DEF CloseInv
  <1>s. setting' = setting /\ Proofs' = Proofs /\ Plan' = Plan
    BY SettingStays, SameSetting
  <1>t. /\ AnswerInv /\ TypeOK /\ OpenInv /\ \A w \in Closers : CloserInv(closing[w])
        /\ closing \in [Closers -> ClosingRec] /\ Closers = {"flow", "recover"}
    BY DEF CloseInv, AnswerInv, TypeOK, Closers
  <1>2. CASE Prepare
    <2>1. /\ pc = "prepare" /\ pc' = "send"
          /\ UNCHANGED <<account, lost, outcome>> /\ outcome = "none"
      BY <1>2, <1>t DEF Prepare, chainVars, wireVars, answerVars, AnswerInv, ControlInv
    <2>2. lost = {} => \A p \in Proofs : account[p] = "none"
      BY <1>t, <2>1 DEF OpenInv, NothingYet
    <2>3. QED
      BY <1>s, <2>1, <2>2 DEF OpenInv, NothingYet, ListsKnowAll, ClosesKnowAll, ErrorKnowsAll,
                              ErrorCodes
  <1>3. CASE PrepareFails
    <2>1. pc' = "returned" /\ outcome' = "REJECTED"
      BY <1>3 DEF PrepareFails
    <2>2. QED
      BY <2>1 DEF OpenInv, NothingYet, ListsKnowAll, ClosesKnowAll, ErrorKnowsAll, ErrorCodes
  <1>4. CASE SendLands
    BY <1>4, <1>s, <1>t, OpenInvSendLands
  <1>5. CASE SendFails \/ SendUnsent \/ SendLost \/ SendExpires \/ HookFails
    <2>1. PICK e \in ErrorCodes :
            /\ GiveUp(e) /\ pc = "send"
            /\ lost' = lost \/ lost' = lost \cup {<<next, attempt>>}
      BY <1>5, GiveUpSteps
    <2>2. CASE lost = {}
      BY <1>s, <1>t, <2>1, <2>2, OpenInvGiveUp
    <2>3. CASE lost # {}
      BY <2>1, <2>3 DEF OpenInv
    <2>4. QED
      BY <2>2, <2>3
  <1>6. CASE SendAgain
    <2>1. /\ UNCHANGED <<account, pc, next, code, verified, unverified, outcome, leftOpen, closing,
                         interrupted>>
          /\ Expired
      BY <1>6 DEF SendAgain, chainVars, answerVars
    <2>2. lost' = {} => lost = {}
      BY <2>1 DEF Expired
    <2>3. QED
      BY <1>s, <1>t, <2>1, <2>2 DEF OpenInv, NothingYet, ListsKnowAll, ClosesKnowAll, Pending,
                                    ErrorKnowsAll, Exists
  <1>7. CASE CallReturnsAfterClosing
    BY <1>7, <1>s, <1>t, OpenInvReturns
  <1>8. CASE Crash
    <2>1. pc' = "crashed" /\ outcome' = outcome /\ pc # "returned"
      BY <1>8 DEF Crash, answerVars
    <2>2. outcome' = "none"
      BY <1>t, <2>1 DEF AnswerInv, ControlInv
    <2>3. QED
      BY <2>1, <2>2 DEF OpenInv, NothingYet, ListsKnowAll, ClosesKnowAll, ErrorKnowsAll, ErrorCodes
  <1>9. CASE CloseStep("flow")
    BY <1>9, <1>s, <1>t, OpenInvOwnClose
  <1>10. CASE CloseStep("recover") \/ RecoverFinds \/ RecoverReturns \/ LostClosesLand
    <2>1. UNCHANGED <<lost, callVars>>
      BY <1>10, <1>t, ClosersLeaveTheCall
    <2>2. closing'["flow"] = closing["flow"] /\ interrupted' = interrupted /\ AccountsClose
      <3>1. CASE CloseStep("recover")
        <4>1. PICK d \in ClosingRec :
                closing' = [closing EXCEPT !["recover"] = d] /\ CloseOutcome("recover", d)
          BY <3>1, <1>t, CloseStepShape
        <4>2. AccountsClose
          BY <1>t, <4>1, ClosesClose DEF CloseOutcome
        <4>3. interrupted' = interrupted
          BY <3>1, <1>t DEF CloseStep, CloseLands, CloseFails, CloseLost, CloseAgain, TypeOK
        <4>4. QED
          BY <1>t, <4>1, <4>2, <4>3
      <3>2. CASE RecoverFinds
        <4>1. /\ StartClosing("recover", {p \in Proofs : account[p] = "verified"})
              /\ account' = account /\ interrupted' = interrupted
          BY <3>2 DEF RecoverFinds, chainVars
        <4>2. \E d : closing' = [closing EXCEPT !["recover"] = d]
          BY <4>1 DEF StartClosing
        <4>3. QED
          BY <1>t, <4>1, <4>2, ClosesClose
      <3>3. CASE RecoverReturns
        BY <3>3, <1>t, ClosesClose DEF RecoverReturns, chainVars
      <3>4. CASE LostClosesLand
        BY <3>4, <1>t, ClosesClose DEF LostClosesLand
      <3>5. QED
        BY <1>10, <3>1, <3>2, <3>3, <3>4
    <2>3. QED
      BY <1>s, <1>t, <2>1, <2>2, OpenInvCloses
  <1>11. CASE LostTxLands
    <2>1. lost # {} /\ lost' = lost
      BY <1>11 DEF LostTxLands, wireVars
    <2>2. QED
      BY <2>1 DEF OpenInv
  <1>12. CASE UNCHANGED vars
    <2>1. /\ UNCHANGED <<lost, callVars, closing, interrupted, account>>
      BY <1>12 DEF vars, chainVars, wireVars
    <2>2. QED
      BY <1>s, <1>t, <2>1, ClosesClose, OpenInvCloses
  <1>13. QED
    BY <1>2, <1>3, <1>4, <1>5, <1>6, <1>7, <1>8, <1>9, <1>10, <1>11, <1>12, <1>t
    DEF Next, CallStep

LEMMA CloseInvCorrect == Spec => []CloseInv
  BY InitCloseInv, StepCloseInv, PTL DEF Spec

\* Unless a transaction was lost, an error names every proof account that it left
\* open, the one whose proof was never verified included.
THEOREM ErrorNamesOpenAccountsHolds == Spec => []ErrorNamesOpenAccounts
  <1>1. CloseInv => ErrorNamesOpenAccounts
    BY DEF CloseInv, AnswerInv, OpenInv, ErrorKnowsAll, ErrorNamesOpenAccounts
  <1>2. QED
    BY <1>1, CloseInvCorrect, PTL

\* When its closes fail only because the chain refuses them, an error leaves no
\* verified proof account open, whatever recovery closed in between.
THEOREM ErrorLeavesNoneVerifiedHolds == Spec => []ErrorLeavesNoneVerified
  <1>1. CloseInv => ErrorLeavesNoneVerified
    BY DEF CloseInv, OpenInv, ErrorKnowsAll, ErrorLeavesNoneVerified
  <1>2. QED
    BY <1>1, CloseInvCorrect, PTL

-----------------------------------------------------------------------------
(* What bounds the work of a call.                                         *)

Stage(p) == CASE p = "prepare" -> 0 [] p = "send" -> 1 [] p = "closing" -> 2 [] OTHER -> 3

Several(c) == Cardinality(c.sending) > 1

\* close_proof_accounts has gone on: to its next batch, from a batch that failed to its
\* accounts one by one, or to the next of these.
ClosesFewer(c, d) ==
    \/ c.st = "send" /\ d.st = "done"
    \/ /\ c.st = "send" /\ d.st = "send"
       /\ \/ d.rest \subseteq c.rest /\ d.rest # c.rest
          \/ d.rest = c.rest /\ Several(c) /\ ~Several(d)
          \/ d.rest = c.rest /\ ~Several(d) /\ d.singles \subseteq c.singles /\ d.singles # c.singles

\* The call has gone on: to a later part, to the next transaction of the plan, to the
\* next time it sends this one, or with its closes.
Advances ==
    \/ Stage(pc') > Stage(pc)
    \/ pc' = pc /\ next' = next + 1 /\ next < Len(Plan)
    \/ UNCHANGED <<pc, next>> /\ attempt' = attempt + 1 /\ attempt < MaxRetries
    \/ UNCHANGED <<pc, next, attempt>> /\ ClosesFewer(closing["flow"], closing'["flow"])

LEMMA OnwardClosesFewer ==
    ASSUME NEW c \in ClosingRec, c.st = "send",
           NEW f \in ClosingRec, f.st = "send", f.rest = c.rest,
           f.singles = c.singles \/ (Several(c) /\ f.singles = c.sending),
           NEW d \in Onward(f)
    PROVE  ClosesFewer(c, d)
  <1>1. Several(c) => c.sending # {}
    BY FS_EmptySet DEF Several
  <1>2. CASE f.singles # {}
    <2>1. PICK p \in f.singles : d = [f EXCEPT !.sending = {p}, !.singles = f.singles \ {p}]
      BY <1>2 DEF Onward
    <2>2. d.st = "send" /\ d.rest = c.rest /\ d.sending = {p} /\ d.singles = f.singles \ {p}
      BY <2>1 DEF ClosingRec
    <2>3. ~Several(d)
      BY <2>2, SingletonSending DEF Several
    <2>4. CASE Several(c)
      BY <2>2, <2>3, <2>4 DEF ClosesFewer
    <2>5. CASE ~Several(c)
      <3>1. d.singles \subseteq c.singles /\ p \in c.singles /\ p \notin d.singles
        BY <2>1, <2>2, <2>5
      <3>2. QED
        BY <2>2, <2>3, <3>1 DEF ClosesFewer
    <2>6. QED
      BY <2>4, <2>5
  <1>3. CASE f.singles = {} /\ f.rest # {}
    <2>1. PICK b \in Chunks(f.rest) : d = [f EXCEPT !.sending = b, !.rest = f.rest \ b]
      BY <1>3 DEF Onward
    <2>2. b \subseteq c.rest /\ b # {}
      BY DEF Chunks
    <2>3. d.st = "send" /\ d.rest = c.rest \ b
      BY <2>1 DEF ClosingRec
    <2>4. QED
      BY <2>2, <2>3 DEF ClosesFewer
  <1>4. CASE f.singles = {} /\ f.rest = {}
    <2>1. d.st = "done"
      BY <1>4 DEF Onward, ClosingRec
    <2>2. QED
      BY <2>1 DEF ClosesFewer
  <1>5. QED
    BY <1>2, <1>3, <1>4

LEMMA CloseStepAdvances ==
    ASSUME TypeOK, NEW w \in Closers, CloseStep(w)
    PROVE  /\ \A v \in Closers \ {w} : closing'[v] = closing[v]
           /\ \/ ClosesFewer(closing[w], closing'[w])
              \/ CloseAgain(w) /\ closing'[w] = closing[w]
  <1>1. closing \in [Closers -> ClosingRec] /\ closing[w] \in ClosingRec
    BY DEF TypeOK
  <1>2. CASE CloseLands(w)
    <2> DEFINE f == [closing[w] EXCEPT !.closed = closing[w].closed \cup closing[w].sending]
    <2>1. closing[w].st = "send" /\ \E d \in Onward(f) : closing' = [closing EXCEPT ![w] = d]
      BY <1>2 DEF CloseLands
    <2>2. /\ f \in ClosingRec /\ f.st = "send"
          /\ f.singles = closing[w].singles /\ f.rest = closing[w].rest
      BY <1>1, <2>1, LandedCloseShape
    <2> HIDE DEF f
    <2>3. PICK d \in Onward(f) : closing' = [closing EXCEPT ![w] = d]
      BY <2>1
    <2>4. ClosesFewer(closing[w], d)
      BY <1>1, <2>1, <2>2, OnwardClosesFewer
    <2>5. QED
      BY <1>1, <2>3, <2>4
  <1>3. CASE CloseFails(w) \/ CloseLost(w)
    <2> DEFINE f == AfterFailedClose(closing[w])
    <2>1. closing[w].st = "send" /\ \E d \in Onward(f) : closing' = [closing EXCEPT ![w] = d]
      BY <1>3 DEF CloseFails, CloseLost
    <2>2. /\ f \in ClosingRec /\ f.st = "send" /\ f.rest = closing[w].rest
          /\ f.singles = closing[w].singles \/ (Several(closing[w]) /\ f.singles = closing[w].sending)
      BY <1>1, <2>1, FailedCloseShape DEF Several
    <2> HIDE DEF f
    <2>3. PICK d \in Onward(f) : closing' = [closing EXCEPT ![w] = d]
      BY <2>1
    <2>4. ClosesFewer(closing[w], d)
      BY <1>1, <2>1, <2>2, OnwardClosesFewer
    <2>5. QED
      BY <1>1, <2>3, <2>4
  <1>4. CASE CloseAgain(w)
    BY <1>4 DEF CloseAgain
  <1>5. QED
    BY <1>2, <1>3, <1>4 DEF CloseStep

\* ProofSetup, Sender::send, close_proof_accounts: every step of a call brings it further
\* in an order with no endless descent, since the plan, max_retries and the proof
\* accounts are finite; only a close that is sent again leaves it where it is.  What
\* others do either ends the call or leaves it where it is, too.
THEOREM CallAdvances ==
    TypeOK =>
        /\ CallStep => Advances
        /\ CloseStep("flow") => Advances \/ CloseAgain("flow")
        /\ Next => \/ Advances
                   \/ UNCHANGED <<pc, next, attempt>> /\ closing'["flow"] = closing["flow"]
  <1> SUFFICES ASSUME TypeOK
               PROVE  /\ CallStep => Advances
                      /\ CloseStep("flow") => Advances \/ CloseAgain("flow")
                      /\ Next => \/ Advances
                                 \/ /\ UNCHANGED <<pc, next, attempt>>
                                    /\ closing'["flow"] = closing["flow"]
    OBVIOUS
  <1>1. /\ closing \in [Closers -> ClosingRec] /\ Closers = {"flow", "recover"}
        /\ "flow" \in Closers /\ "recover" \in Closers /\ "flow" # "recover"
    BY DEF TypeOK, Closers
  <1>2. next \in 1..Len(Plan) /\ attempt \in Nat /\ MaxRetries \in Nat /\ ActionIndex = Len(Plan)
    BY SettingsAssumption DEF TypeOK, Sends, ActionIndex
  <1>3. ASSUME Prepare \/ PrepareFails \/ CallReturnsAfterClosing \/ Crash
        PROVE  Advances
    BY <1>3 DEF Prepare, PrepareFails, CallReturnsAfterClosing, Crash, Advances, Stage
  <1>4. ASSUME SendFails \/ SendUnsent \/ SendLost \/ SendExpires \/ HookFails
        PROVE  Advances
    BY <1>4, GiveUpSteps DEF GiveUp, Advances, Stage
  <1>5. ASSUME SendLands
        PROVE  Advances
    BY <1>2, <1>5 DEF SendLands, Advances, Stage
  <1>6. ASSUME SendAgain
        PROVE  Advances
    BY <1>6 DEF SendAgain, Advances
  <1>7. CallStep => Advances
    BY <1>3, <1>4, <1>5, <1>6 DEF CallStep
  <1>8. ASSUME NEW w \in Closers, CloseStep(w)
        PROVE  UNCHANGED <<pc, next, attempt>>
    BY <1>8, ClosersLeaveTheCall DEF callVars
  <1>9. CloseStep("flow") => Advances \/ (CloseAgain("flow") /\ closing'["flow"] = closing["flow"])
    BY <1>1, <1>8, CloseStepAdvances DEF Advances
  <1>10. CloseStep("recover") => closing'["flow"] = closing["flow"]
    BY <1>1, CloseStepAdvances
  <1>11. ASSUME RecoverFinds \/ RecoverReturns
         PROVE  UNCHANGED <<pc, next, attempt>> /\ closing'["flow"] = closing["flow"]
    <2>1. UNCHANGED <<pc, next, attempt>>
      BY <1>11, ClosersLeaveTheCall DEF callVars
    <2>2. \E d : closing' = [closing EXCEPT !["recover"] = d]
      BY <1>11 DEF RecoverFinds, RecoverReturns, StartClosing
    <2>3. QED
      BY <1>1, <2>1, <2>2
  <1>12. ASSUME LostTxLands \/ LostClosesLand
         PROVE  UNCHANGED <<pc, next, attempt>> /\ closing'["flow"] = closing["flow"]
    BY <1>12 DEF LostTxLands, LostClosesLand, callVars
  <1>13. QED
    BY <1>1, <1>3, <1>7, <1>8, <1>9, <1>10, <1>11, <1>12 DEF Next
=============================================================================
