-------------------------- MODULE PlaygroundProofs --------------------------
(***************************************************************************)
(* Proofs about Playground, for any number of faults: Mallory is never     *)
(* paid, Bob is paid twice only after a payment whose fate the page did    *)
(* not learn, and what the page has saved as done is done on chain.        *)
(***************************************************************************)
EXTENDS Playground, TLAPS, WellFoundedInduction

-----------------------------------------------------------------------------
(* The steps.                                                              *)

\* Step n of the page.
LEMMA StepTable ==
    /\ Steps[1] = Fund /\ Steps[2] = CreateMint /\ Steps[3] = DepositAndShow
    /\ Steps[4] = SendToBob /\ Steps[5] = Decrypt /\ Steps[6] = WithdrawAll
    /\ Steps[7] = TokenWithRules /\ Steps[8] = BlockedAndAllowed
  BY DEF Steps

\* How many operations each step has.
StepLen(n) ==
    CASE n = 1 -> 2 [] n = 2 -> 3 [] n = 3 -> 3 [] n = 4 -> 4
      [] n = 5 -> 1 [] n = 6 -> 3 [] n = 7 -> 10 [] OTHER -> 6

\* The operations of a step are numbered from 1.
LEMMA StepDomain ==
    \A n \in 1..Last : /\ Len(Steps[n]) = StepLen(n) /\ DOMAIN Steps[n] = 1..StepLen(n)
                       /\ StepLen(n) \in 1..10
  <1> SUFFICES ASSUME NEW n \in 1..Last
               PROVE  /\ Len(Steps[n]) = StepLen(n) /\ DOMAIN Steps[n] = 1..StepLen(n)
                      /\ StepLen(n) \in 1..10
    OBVIOUS
  <1>1. CASE n = 1
    BY <1>1, StepTable DEF Fund, StepLen
  <1>2. CASE n = 2
    BY <1>2, StepTable DEF CreateMint, StepLen
  <1>3. CASE n = 3
    BY <1>3, StepTable DEF DepositAndShow, StepLen
  <1>4. CASE n = 4
    BY <1>4, StepTable DEF SendToBob, StepLen
  <1>5. CASE n = 5
    BY <1>5, StepTable DEF Decrypt, StepLen
  <1>6. CASE n = 6
    BY <1>6, StepTable DEF WithdrawAll, StepLen
  <1>7. CASE n = 7
    BY <1>7, StepTable DEF TokenWithRules, StepLen
  <1>8. CASE n = 8
    BY <1>8, StepTable DEF BlockedAndAllowed, StepLen
  <1>9. QED
    BY <1>1, <1>2, <1>3, <1>4, <1>5, <1>6, <1>7, <1>8 DEF Last

\* Where each of the operations that change the chain stands.
IsAt(op, n, i) ==
    CASE op = "mint"        -> (n = 2 /\ i = 1) \/ (n = 7 /\ i = 2)
      [] op = "confYou"     -> (n = 2 /\ i = 2) \/ (n = 7 /\ i = 4)
      [] op = "mintTo"      -> (n = 2 /\ i = 3) \/ (n = 7 /\ i = 7)
      [] op = "deposit"     -> (n = 3 /\ i = 1) \/ (n = 7 /\ i = 8)
      [] op = "apply"       -> (n = 3 /\ i = 2) \/ (n = 7 /\ i = 9)
      [] op = "confBob"     -> (n = 4 /\ i = 2) \/ (n = 7 /\ i = 5)
      [] op = "confMallory" -> n = 7 /\ i = 6
      [] op = "policy"      -> n = 7 /\ i = 3
      [] op = "pay"         -> (n = 4 /\ i = 3) \/ (n = 8 /\ i = 4)
      [] op = "bobApply"    -> (n = 4 /\ i = 4) \/ (n = 8 /\ i = 5)
      [] op = "payMallory"  -> n = 8 /\ i = 2
      [] op = "closeProofs" -> n = 8 /\ i = 3
      [] op = "withdraw"    -> n = 6 /\ i = 2
      [] op = "balance"     -> (n = 4 /\ i = 1) \/ (n = 8 /\ i = 1)
      [] op = "bobBalance"  -> n = 6 /\ i = 1
      [] op = "rent"        -> n = 7 /\ i = 1
      [] op = "airdrop"     -> n = 1 /\ i = 1
      [] op = "poll"        -> n = 1 /\ i = 2
      [] op = "show"        -> (n = 3 /\ i = 3) \/ (n = 5 /\ i = 1) \/ (n = 6 /\ i = 3)
                                \/ (n = 7 /\ i = 10) \/ (n = 8 /\ i = 6)
      [] OTHER              -> FALSE

\* The table holds for the steps as they are defined.
LEMMA OperationAt ==
    ASSUME NEW n \in 1..Last, NEW i \in DOMAIN Steps[n]
    PROVE  IsAt(Steps[n][i], n, i) /\ Steps[n][i] \in Operations
  <1>0. i \in 1..StepLen(n) /\ Steps[n][i] \in Operations
    BY StepDomain DEF Operations
  <1>1. CASE n = 1
    BY <1>0, <1>1, StepTable DEF Fund, IsAt, StepLen
  <1>2. CASE n = 2
    BY <1>0, <1>2, StepTable DEF CreateMint, IsAt, StepLen
  <1>3. CASE n = 3
    BY <1>0, <1>3, StepTable DEF DepositAndShow, IsAt, StepLen
  <1>4. CASE n = 4
    BY <1>0, <1>4, StepTable DEF SendToBob, IsAt, StepLen
  <1>5. CASE n = 5
    BY <1>0, <1>5, StepTable DEF Decrypt, IsAt, StepLen
  <1>6. CASE n = 6
    BY <1>0, <1>6, StepTable DEF WithdrawAll, IsAt, StepLen
  <1>7. CASE n = 7
    BY <1>0, <1>7, StepTable DEF TokenWithRules, IsAt, StepLen
  <1>8. CASE n = 8
    BY <1>0, <1>8, StepTable DEF BlockedAndAllowed, IsAt, StepLen
  <1>9. QED
    BY <1>1, <1>2, <1>3, <1>4, <1>5, <1>6, <1>7, <1>8 DEF Last

LEMMA Least ==
    ASSUME NEW T \in SUBSET Nat, T # {}
    PROVE  \E x \in T : \A y \in T : x <= y
  <1> DEFINE R == OpToRel(<, Nat)
  <1>1. IsWellFoundedOn(R, Nat)
    BY NatLessThanWellFounded
  <1> HIDE DEF R
  <1>2. PICK x \in T : \A y \in T : ~(<<y, x>> \in R)
    BY <1>1, WFMin
  <1>3. \A a, b \in Nat : a < b => <<a, b>> \in R
    BY DEF R, OpToRel
  <1>4. \A y \in T : x <= y
    <2> TAKE y \in T
    <2>1. x \in Nat /\ y \in Nat
      OBVIOUS
    <2>2. ~(y < x)
      BY <1>2, <1>3, <2>1
    <2>3. QED
      BY <2>1, <2>2
  <1>5. QED
    BY <1>4

\* The next operation is the first that is not skipped.
LEMMA NextAtIs ==
    ASSUME NEW n \in 1..Last, NEW i \in 0..StepLen(n), NEW p
    PROVE  /\ NextAt(n, i, p) \in (i + 1)..(StepLen(n) + 1)
           /\ NextAt(n, i, p) \in DOMAIN Steps[n] => ~Skips(n, NextAt(n, i, p), p)
           /\ NextAt(n, i, p) \notin DOMAIN Steps[n] => NextAt(n, i, p) = StepLen(n) + 1
           /\ \A k \in (i + 1)..(NextAt(n, i, p) - 1) : Skips(n, k, p)
  <1> DEFINE len == StepLen(n)
             due == {j \in (i + 1)..Len(Steps[n]) : ~Skips(n, j, p)} \cup {Len(Steps[n]) + 1}
             P(j) == \A k \in due : j <= k
             j0 == NextAt(n, i, p)
  <1>0. Len(Steps[n]) = len /\ DOMAIN Steps[n] = 1..len /\ len \in Nat /\ i \in Nat /\ i <= len
    BY StepDomain
  <1> HIDE DEF len
  <1>1. due = {j \in (i + 1)..len : ~Skips(n, j, p)} \cup {len + 1}
    BY <1>0
  <1>2. due \in SUBSET Nat /\ due # {}
    BY <1>0, <1>1
  <1>3. j0 = CHOOSE j \in due : P(j)
    BY DEF NextAt
  <1> HIDE DEF due, j0
  <1>4. \E j \in due : P(j)
    BY <1>2, Least
  <1>5. j0 \in due /\ P(j0)
    <2> HIDE DEF P
    <2>1. QED
      BY <1>3, <1>4
  <1>6. j0 \in (i + 1)..(len + 1)
    BY <1>0, <1>1, <1>5
  <1>7. j0 \in 1..len => ~Skips(n, j0, p)
    BY <1>0, <1>1, <1>5
  <1>8. \A k \in (i + 1)..(j0 - 1) : Skips(n, k, p)
    <2> TAKE k \in (i + 1)..(j0 - 1)
    <2>1. k \notin due /\ k \in (i + 1)..len
      BY <1>0, <1>5, <1>6
    <2>2. QED
      BY <1>1, <2>1
  <1>9. j0 \notin 1..len => j0 = len + 1
    BY <1>0, <1>6
  <1>10. QED
    BY <1>0, <1>6, <1>7, <1>8, <1>9 DEF len, j0

\* What each step leaves out, operation by operation.
SkipTable(n, i, p) ==
    \/ n = 4 /\ i \in {1, 3} /\ "plain" \in p.sent
    \/ n = 4 /\ i = 2 /\ p.bobMint
    \/ n = 7 /\ i = 1 /\ p.stage > 0
    \/ n = 7 /\ i \in 2..9 /\ p.stage >= i - 1
    \/ n = 8 /\ i \in {1, 4} /\ "rules" \in p.sent
    \/ n = 8 /\ i = 2 /\ p.refused
    \/ n = 8 /\ i = 3 /\ p.cleaned
    \/ n = 8 /\ i = 5 /\ p.applied

\* The table is what Skips says.
LEMMA SkipsIs ==
    ASSUME NEW n \in 1..Last, NEW i \in DOMAIN Steps[n], NEW p \in Progress
    PROVE  Skips(n, i, p) <=> SkipTable(n, i, p)
  <1>0. i \in 1..StepLen(n)
    BY StepDomain
  <1>1. CASE n \in {1, 2, 3, 5, 6}
    BY <1>1 DEF Skips, SentBefore, StageBefore, DoneBefore, SkipTable
  <1>2. CASE n = 4
    BY <1>0, <1>2, StepTable
       DEF Skips, SentBefore, StageBefore, DoneBefore, SkipTable, SendToBob, TokenOf, StepLen
  <1>3. CASE n = 7
    BY <1>0, <1>3, StepTable
       DEF Skips, SentBefore, StageBefore, DoneBefore, SkipTable, TokenWithRules, StageOf, StepLen
  <1>4. CASE n = 8
    BY <1>0, <1>4, StepTable
       DEF Skips, SentBefore, StageBefore, DoneBefore, SkipTable, BlockedAndAllowed, TokenOf, StepLen
  <1>5. QED
    BY <1>1, <1>2, <1>3, <1>4 DEF Last

\* What each step notes, operation by operation.
NoteTable(n, i, p) ==
    CASE n = 2 /\ i = 1       -> [p EXCEPT !.mint = TRUE, !.bobMint = FALSE]
      [] n = 4 /\ i = 2       -> [p EXCEPT !.bobMint = TRUE]
      [] n = 4 /\ i = 3       -> [p EXCEPT !.sent = @ \cup {"plain"}]
      [] n = 8 /\ i = 4       -> [p EXCEPT !.sent = @ \cup {"rules"}]
      [] n = 7 /\ i \in 2..9  -> [p EXCEPT !.stage = i - 1]
      [] n = 8 /\ i = 2       -> [p EXCEPT !.refused = TRUE]
      [] n = 8 /\ i = 3       -> [p EXCEPT !.cleaned = TRUE]
      [] n = 8 /\ i = 5       -> [p EXCEPT !.applied = TRUE]
      [] OTHER                -> p

\* The table is what Noted does.
LEMMA NotedIs ==
    ASSUME NEW n \in 1..Last, NEW i \in DOMAIN Steps[n], NEW p
    PROVE  Noted(n, i, p) = NoteTable(n, i, p)
  <1>0. i \in 1..StepLen(n) /\ n \in 1..8
    BY StepDomain DEF Last
  <1>1. CASE n \in {1, 3, 5, 6}
    BY <1>1 DEF Noted, NoteTable
  <1>2. CASE n = 2
    BY <1>0, <1>2, StepTable DEF Noted, NoteTable, CreateMint, StepLen
  <1>3. CASE n = 4
    BY <1>0, <1>3, StepTable DEF Noted, NoteTable, SendToBob, StepLen, TokenOf
  <1>4. CASE n = 7
    BY <1>0, <1>4, StepTable DEF Noted, NoteTable, StageOf, StepLen
  <1>5. CASE n = 8
    BY <1>0, <1>5, StepTable DEF Noted, NoteTable, BlockedAndAllowed, StepLen, TokenOf
  <1>6. QED
    BY <1>0, <1>1, <1>2, <1>3, <1>4, <1>5

-----------------------------------------------------------------------------
(* The chain.                                                              *)

\* A call as Call makes it.
CallRec == [op : Operations, token : Tokens, amount : Nat, from : Nat, shown : Nat, proved : BOOLEAN]
GoodCall(c) == c \in CallRec /\ (c.proved => c.amount <= c.from)

\* What a call needs, operation by operation.
LEMMA NeedsOf ==
    ASSUME NEW c, Accepted(c)
    PROVE  LET t == tokens[c.token]
           IN  /\ funded
               /\ c.op \in {"pay", "payMallory"} => c.proved /\ t.account["you"].available = c.from
               /\ c.op = "withdraw" => c.proved /\ t.account["bob"].available = c.from
               /\ c.op = "payMallory" => "mallory" \in t.conf /\ ~t.policy
               /\ c.op = "deposit" => t.account["you"].public >= Deposit
               /\ c.op = "mintTo" => "you" \in t.conf
  BY DEF Accepted, WhoOf

\* What a call does to its token, by who holds what and by what is set.
Effect(c, t, u) ==
    /\ c.op = "mint" => u = NewToken
    /\ c.op # "mint" =>
        /\ u.policy = (t.policy \/ c.op = "policy")
        /\ u.conf = IF c.op \in {"confYou", "confBob", "confMallory"}
                    THEN t.conf \cup {Configures(c.op)} ELSE t.conf
        /\ u.bobPaid = IF c.op = "pay" THEN t.bobPaid + 1 ELSE t.bobPaid
        /\ u.malloryPaid = (t.malloryPaid \/ c.op = "payMallory")
        /\ u.account["you"] =
            LET a == t.account["you"]
            IN  CASE c.op = "mintTo"  -> [a EXCEPT !.public = @ + Minted(c.token)]
                  [] c.op = "deposit" -> [a EXCEPT !.public = @ - Deposit, !.pending = @ + Deposit]
                  [] c.op = "apply"   -> [a EXCEPT !.available = @ + a.pending, !.pending = 0,
                                                   !.shown = c.shown]
                  [] c.op \in {"pay", "payMallory"} ->
                        [a EXCEPT !.available = @ - c.amount, !.shown = c.shown]
                  [] OTHER -> a
        /\ u.account["bob"] =
            LET a == t.account["bob"]
            IN  CASE c.op = "bobApply" -> [a EXCEPT !.available = @ + a.pending, !.pending = 0,
                                                    !.shown = c.shown]
                  [] c.op = "pay"      -> [a EXCEPT !.pending = @ + c.amount]
                  [] c.op = "withdraw" -> [a EXCEPT !.available = @ - c.amount, !.shown = c.shown,
                                                    !.public = @ + c.amount]
                  [] OTHER -> a

\* The token after a call is what Effect says.
LEMMA AfterIs ==
    ASSUME NEW c, tokens[c.token] \in Token
    PROVE  Effect(c, tokens[c.token], After(c))
  <1> DEFINE t == tokens[c.token]
  <1>0. /\ t \in Token /\ t.account \in [{"you", "bob"} -> Money]
        /\ t.account["you"] \in Money /\ t.account["bob"] \in Money
    BY DEF Token
  <1>1. CASE c.op \in {"mint", "policy", "confYou", "confBob", "confMallory"}
    BY <1>0, <1>1 DEF After, Effect, Token
  <1>2. CASE c.op = "mintTo"
    BY <1>0, <1>2 DEF After, Effect, Token, Money
  <1>3. CASE c.op = "deposit"
    BY <1>0, <1>3 DEF After, Effect, Token, Money
  <1>4. CASE c.op = "apply"
    BY <1>0, <1>4 DEF After, Effect, Token, Money, WhoOf
  <1>5. CASE c.op = "bobApply"
    BY <1>0, <1>5 DEF After, Effect, Token, Money, WhoOf
  <1>6. CASE c.op = "pay"
    BY <1>0, <1>6 DEF After, Effect, Token, Money
  <1>7. CASE c.op = "payMallory"
    BY <1>0, <1>7 DEF After, Effect, Token, Money
  <1>8. CASE c.op = "withdraw"
    BY <1>0, <1>8 DEF After, Effect, Token, Money
  <1>9. CASE c.op \notin {"mint", "policy", "confYou", "confBob", "confMallory", "mintTo", "deposit",
                          "apply", "bobApply", "pay", "payMallory", "withdraw"}
    <2>1. After(c) = t
      BY <1>9 DEF After
    <2>2. t.policy \in BOOLEAN /\ t.malloryPaid \in BOOLEAN
      BY <1>0 DEF Token
    <2>3. QED
      BY <1>9, <2>1, <2>2 DEF Effect
  <1>10. QED
    BY <1>1, <1>2, <1>3, <1>4, <1>5, <1>6, <1>7, <1>8, <1>9

\* The shape of a token.
Fields == {"policy", "conf", "account", "bobPaid", "malloryPaid"}
Shaped(u) == /\ u = [f \in Fields |-> u[f]]
             /\ u.account = [w \in {"you", "bob"} |-> u.account[w]]

LEMMA AfterShaped ==
    ASSUME NEW c, tokens[c.token] \in Token
    PROVE  Shaped(After(c))
  <1> DEFINE t == tokens[c.token]
  <1>0. /\ t = [f \in Fields |-> t[f]] /\ t.account = [w \in {"you", "bob"} |-> t.account[w]]
        /\ t \in Token
    BY DEF Token, Fields
  <1>1. CASE c.op = "pay"
    BY <1>0, <1>1, ZenonT(60) DEF Shaped, After, Fields
  <1>2. CASE c.op = "withdraw"
    BY <1>0, <1>2, ZenonT(60) DEF Shaped, After, Fields
  <1>3. CASE c.op \in {"apply", "bobApply"}
    BY <1>0, <1>3, ZenonT(60) DEF Shaped, After, Fields
  <1>4. CASE c.op = "deposit"
    BY <1>0, <1>4, ZenonT(60) DEF Shaped, After, Fields
  <1>5. CASE c.op = "payMallory"
    BY <1>0, <1>5, ZenonT(60) DEF Shaped, After, Fields
  <1>6. CASE c.op = "mintTo"
    BY <1>0, <1>6 DEF Shaped, After, Fields
  <1>7. CASE c.op = "mint"
    <2>1. After(c) = NewToken
      BY <1>7 DEF After
    <2>2. Shaped(NewToken)
      BY DEF Shaped, Fields, NewToken
    <2>3. QED
      BY <2>1, <2>2
  <1>9. CASE c.op \in {"policy", "confYou", "confBob", "confMallory"}
    BY <1>0, <1>9, ZenonT(60) DEF Shaped, After, Fields
  <1>8. CASE c.op \notin {"mint", "policy", "confYou", "confBob", "confMallory", "mintTo", "deposit",
                          "apply", "bobApply", "pay", "payMallory", "withdraw"}
    BY <1>0, <1>8 DEF Shaped, After
  <1>10. QED
    BY <1>1, <1>2, <1>3, <1>4, <1>5, <1>6, <1>7, <1>8, <1>9

LEMMA MoneyWith ==
    ASSUME NEW m \in Money, NEW n \in Nat, NEW s \in Nat
    PROVE  /\ [m EXCEPT !.public = @ + n] \in Money
           /\ [m EXCEPT !.pending = @ + n] \in Money
           /\ [m EXCEPT !.available = @ + m.pending, !.pending = 0, !.shown = s] \in Money
           /\ m.public >= n => [m EXCEPT !.public = @ - n, !.pending = @ + n] \in Money
           /\ m.available >= n => [m EXCEPT !.available = @ - n, !.shown = s] \in Money
           /\ m.available >= n => [m EXCEPT !.available = @ - n, !.shown = s, !.public = @ + n] \in Money
  <1>1. m.public \in Nat /\ m.pending \in Nat /\ m.available \in Nat /\ m.shown \in Nat
    BY DEF Money
  <1>2. /\ m.public + n \in Nat /\ m.pending + n \in Nat /\ m.available + m.pending \in Nat
        /\ m.public >= n => m.public - n \in Nat
        /\ m.available >= n => m.available - n \in Nat
    BY <1>1
  <1>3. QED
    BY <1>1, <1>2 DEF Money

LEMMA TokenFrom ==
    ASSUME NEW u, Shaped(u),
           u.account["you"] \in Money, u.account["bob"] \in Money, u.policy \in BOOLEAN,
           u.conf \in SUBSET People, u.bobPaid \in Nat, u.malloryPaid \in BOOLEAN
    PROVE  u \in Token
  <1>1. u.account \in [{"you", "bob"} -> Money]
    BY DEF Shaped
  <1> DEFINE r == [policy |-> u.policy, conf |-> u.conf, account |-> u.account,
                   bobPaid |-> u.bobPaid, malloryPaid |-> u.malloryPaid]
  <1>2. r \in Token
    BY <1>1 DEF Token
  <1>3. u = r
    BY DEF Shaped, Fields
  <1>4. QED
    BY <1>2, <1>3

\* A call that is accepted leaves a token: no balance falls below zero.
LEMMA AfterType ==
    ASSUME NEW c, GoodCall(c), tokens[c.token] \in Token, Accepted(c)
    PROVE  After(c) \in Token
  <1> DEFINE t == tokens[c.token]
             u == After(c)
             y == t.account["you"]
             b == t.account["bob"]
  <1>0. /\ t \in Token /\ y \in Money /\ b \in Money
        /\ c \in CallRec /\ (c.proved => c.amount <= c.from)
        /\ c.op \in {"pay", "payMallory"} => c.proved /\ y.available = c.from
        /\ c.op = "withdraw" => c.proved /\ b.available = c.from
        /\ c.op = "deposit" => y.public >= Deposit
    BY NeedsOf DEF Token, GoodCall
  <1>1. c.amount \in Nat /\ c.from \in Nat /\ c.shown \in Nat
    BY <1>0 DEF CallRec
  <1>2. y.available \in Nat /\ b.available \in Nat /\ Minted(c.token) \in Nat /\ Deposit \in Nat
    BY <1>0 DEF Money, Minted, Deposit
  <1>3. /\ c.op \in {"pay", "payMallory"} => y.available >= c.amount
        /\ c.op = "withdraw" => b.available >= c.amount
    BY <1>0, <1>1, <1>2
  <1>4. Effect(c, t, u) /\ Shaped(u)
    BY AfterIs, AfterShaped
  <1>5. CASE c.op = "mint"
    <2>1. u = NewToken
      BY <1>4, <1>5 DEF Effect
    <2>2. QED
      BY <2>1 DEF NewToken, NoMoney, Token, Money
  <1>6. CASE c.op # "mint"
    <2> HIDE DEF u, t
    <2>1. u.account["you"] \in Money
      <3>1. CASE c.op = "mintTo"
        BY <1>0, <1>2, <1>4, <1>6, <3>1, MoneyWith DEF Effect
      <3>2. CASE c.op = "deposit"
        BY <1>0, <1>2, <1>4, <1>6, <3>2, MoneyWith, ZenonT(60) DEF Effect
      <3>3. CASE c.op = "apply"
        <4>1. u.account["you"] = [y EXCEPT !.available = @ + y.pending, !.pending = 0,
                                           !.shown = c.shown]
          BY <1>4, <1>6, <3>3 DEF Effect
        <4>2. y \in Money
          BY <1>0
        <4> HIDE DEF y
        <4>3. [y EXCEPT !.available = @ + y.pending, !.pending = 0, !.shown = c.shown] \in Money
          BY <1>1, <4>2, MoneyWith
        <4>4. QED
          BY <4>1, <4>3
      <3>4. CASE c.op \in {"pay", "payMallory"}
        <4>1. u.account["you"] = [y EXCEPT !.available = @ - c.amount, !.shown = c.shown]
          BY <1>4, <1>6, <3>4 DEF Effect
        <4>2. y \in Money /\ y.available >= c.amount
          BY <1>0, <1>3, <3>4
        <4> HIDE DEF y
        <4>3. [y EXCEPT !.available = @ - c.amount, !.shown = c.shown] \in Money
          BY <1>1, <4>2, MoneyWith
        <4>4. QED
          BY <4>1, <4>3
      <3>5. CASE c.op \notin {"mintTo", "deposit", "apply", "pay", "payMallory"}
        BY <1>0, <1>4, <1>6, <3>5 DEF Effect
      <3>6. QED
        BY <3>1, <3>2, <3>3, <3>4, <3>5
    <2>2. u.account["bob"] \in Money
      <3>1. CASE c.op = "bobApply"
        BY <1>0, <1>1, <1>4, <1>6, <3>1, MoneyWith DEF Effect
      <3>2. CASE c.op = "pay"
        BY <1>0, <1>1, <1>4, <1>6, <3>2, MoneyWith, ZenonT(60) DEF Effect
      <3>3. CASE c.op = "withdraw"
        <4>1. u.account["bob"] = [b EXCEPT !.available = @ - c.amount, !.shown = c.shown,
                                           !.public = @ + c.amount]
          BY <1>4, <1>6, <3>3 DEF Effect
        <4>2. b \in Money /\ b.available >= c.amount
          BY <1>0, <1>3, <3>3
        <4> HIDE DEF b
        <4>3. [b EXCEPT !.available = @ - c.amount, !.shown = c.shown, !.public = @ + c.amount] \in Money
          BY <1>1, <4>2, MoneyWith
        <4>4. QED
          BY <4>1, <4>3
      <3>4. CASE c.op \notin {"bobApply", "pay", "withdraw"}
        BY <1>0, <1>4, <1>6, <3>4 DEF Effect
      <3>5. QED
        BY <3>1, <3>2, <3>3, <3>4
    <2>3. u.policy \in BOOLEAN /\ u.malloryPaid \in BOOLEAN
      <3>1. /\ u.policy = (t.policy \/ c.op = "policy")
            /\ u.malloryPaid = (t.malloryPaid \/ c.op = "payMallory")
        BY <1>4, <1>6 DEF Effect
      <3>2. QED
        BY <3>1
    <2>4. u.conf \in SUBSET People
      <3>1. t.conf \in SUBSET People
        BY <1>0 DEF Token
      <3>2. u.conf = IF c.op \in {"confYou", "confBob", "confMallory"}
                     THEN t.conf \cup {Configures(c.op)} ELSE t.conf
        BY <1>4, <1>6 DEF Effect
      <3>3. QED
        BY <3>1, <3>2 DEF Configures, People
    <2>5. u.bobPaid \in Nat
      <3>1. t.bobPaid \in Nat
        BY <1>0 DEF Token
      <3>2. u.bobPaid = IF c.op = "pay" THEN t.bobPaid + 1 ELSE t.bobPaid
        BY <1>4, <1>6 DEF Effect
      <3>3. QED
        BY <3>1, <3>2
    <2>6. QED
      BY <1>4, <2>1, <2>2, <2>3, <2>4, <2>5, TokenFrom DEF u
  <1>7. QED
    BY <1>5, <1>6

\* The call of the operation that is awaited is made from what the chain holds.
LEMMA CallIs ==
    ASSUME TypeOK, busy
    PROVE  /\ step \in 1..Last /\ at \in DOMAIN Steps[step] /\ at \in 1..StepLen(step)
           /\ Op \in Operations /\ IsAt(Op, step, at)
           /\ GoodCall(Call) /\ Call.op = Op /\ Call.token = TokenOf(step)
           /\ Op # "withdraw" => Call.amount = amount
           /\ tokens[Call.token] \in Token
  <1>1. step \in 1..Last /\ at \in DOMAIN Steps[step] /\ at \in 1..StepLen(step)
    <2>1. step \in 1..Last /\ at \in DOMAIN Steps[step]
      BY DEF TypeOK, busy, Last
    <2>2. QED
      BY <2>1, StepDomain
  <1>2. Op \in Operations /\ IsAt(Op, step, at)
    BY <1>1, OperationAt DEF Op
  <1>3. TokenOf(step) \in Tokens
    BY DEF TokenOf, Tokens
  <1> DEFINE a == tokens[TokenOf(step)].account[WhoOf(Op)]
             x == IF Op = "withdraw" THEN a.shown ELSE amount
  <1>4. a \in Money /\ tokens[TokenOf(step)] \in Token
    BY <1>3 DEF TypeOK, Token, WhoOf
  <1>5. x \in Nat /\ a.available \in Nat /\ a.shown \in Nat /\ a.pending \in Nat
    BY <1>4 DEF Money, TypeOK
  <1>6. Call = [op |-> Op, token |-> TokenOf(step), amount |-> x, from |-> a.available,
                shown |-> IF Op \in {"apply", "bobApply"} THEN a.shown + a.pending
                          ELSE IF x <= a.shown THEN a.shown - x ELSE 0,
                proved |-> a.shown = a.available /\ x <= a.shown]
    BY DEF Call, Op
  <1> HIDE DEF a, x
  <1>7. GoodCall(Call)
    <2>1. Call.proved => Call.amount <= Call.from
      BY <1>5, <1>6
    <2>2. (IF Op \in {"apply", "bobApply"} THEN a.shown + a.pending
           ELSE IF x <= a.shown THEN a.shown - x ELSE 0) \in Nat
      BY <1>5
    <2>3. Call \in CallRec
      BY <1>2, <1>3, <1>5, <1>6, <2>2 DEF CallRec
    <2>4. QED
      BY <2>1, <2>3 DEF GoodCall
  <1>8. Call.op = Op /\ Call.token = TokenOf(step) /\ Call.amount = x
    BY <1>6
  <1>9. QED
    BY <1>1, <1>2, <1>4, <1>7, <1>8 DEF x

-----------------------------------------------------------------------------
(* The page.                                                               *)

LEMMA NotedType ==
    ASSUME NEW n \in 1..Last, NEW i \in DOMAIN Steps[n], NEW p \in Progress
    PROVE  NoteTable(n, i, p) \in Progress
  <1>0. n \in 1..8 /\ i \in 1..StepLen(n)
    BY StepDomain DEF Last
  <1>1. CASE n = 7 /\ i \in 2..9
    <2>1. i - 1 \in 0..8 /\ NoteTable(n, i, p) = [p EXCEPT !.stage = i - 1]
      BY <1>0, <1>1 DEF NoteTable
    <2>2. QED
      BY <2>1 DEF Progress
  <1>2. CASE ~(n = 7 /\ i \in 2..9)
    <2> DEFINE q == NoteTable(n, i, p)
    <2>1. q \in {p, [p EXCEPT !.mint = TRUE, !.bobMint = FALSE], [p EXCEPT !.bobMint = TRUE],
                [p EXCEPT !.sent = @ \cup {"plain"}], [p EXCEPT !.sent = @ \cup {"rules"}],
                [p EXCEPT !.refused = TRUE], [p EXCEPT !.cleaned = TRUE],
                [p EXCEPT !.applied = TRUE]}
      BY <1>2 DEF NoteTable
    <2> HIDE DEF q
    <2>2. [p EXCEPT !.mint = TRUE, !.bobMint = FALSE] \in Progress
      BY DEF Progress
    <2>3. [p EXCEPT !.bobMint = TRUE] \in Progress
      BY DEF Progress
    <2>4. [p EXCEPT !.sent = @ \cup {"plain"}] \in Progress
      BY DEF Progress, Tokens
    <2>5. [p EXCEPT !.sent = @ \cup {"rules"}] \in Progress
      BY DEF Progress, Tokens
    <2>6. /\ [p EXCEPT !.refused = TRUE] \in Progress /\ [p EXCEPT !.cleaned = TRUE] \in Progress
          /\ [p EXCEPT !.applied = TRUE] \in Progress
      BY DEF Progress
    <2>7. QED
      BY <2>1, <2>2, <2>3, <2>4, <2>5, <2>6 DEF q
  <1>3. QED
    BY <1>1, <1>2

\* The step goes on with its next operation and amount x.
GoesOn(x, p) ==
    /\ step' = step /\ amount' = x /\ progress' = p
    /\ at' \in (at + 1)..StepLen(step) /\ ~SkipTable(step, at', p)
    /\ \A k \in (at + 1)..(at' - 1) : SkipTable(step, k, p)
    /\ stored' = IF p = progress THEN stored ELSE IF storing THEN {p} ELSE {}

\* The step was at its last operation.
Ends(p) ==
    /\ step' = 0 /\ at' = 0 /\ amount' = 0
    /\ progress' = [p EXCEPT !.done = IF p.done > step THEN p.done ELSE step]
    /\ \A k \in (at + 1)..StepLen(step) : SkipTable(step, k, p)
    /\ stored' = IF storing THEN {progress'} ELSE {}

\* Proceed goes on to a next operation or ends the step.
LEMMA ProceedIs ==
    ASSUME TypeOK, busy, NEW x, Proceed(x)
    PROVE  LET p == NoteTable(step, at, progress)
           IN  p \in Progress /\ (GoesOn(x, p) \/ Ends(p))
  <1> DEFINE p == NoteTable(step, at, progress)
             j == NextAt(step, at, p)
  <1>0. /\ step \in 1..Last /\ at \in DOMAIN Steps[step] /\ at \in 1..StepLen(step)
        /\ DOMAIN Steps[step] = 1..StepLen(step) /\ StepLen(step) \in 1..10
    <2>1. step \in 1..Last /\ at \in DOMAIN Steps[step]
      BY DEF TypeOK, busy, Last
    <2>2. QED
      BY <2>1, StepDomain
  <1>1. progress \in Progress
    BY DEF TypeOK
  <1>2. Noted(step, at, progress) = p /\ p \in Progress
    BY <1>0, <1>1, NotedIs, NotedType
  <1> HIDE DEF p
  <1>3. /\ j \in (at + 1)..(StepLen(step) + 1)
        /\ j \in DOMAIN Steps[step] => ~Skips(step, j, p)
        /\ j \notin DOMAIN Steps[step] => j = StepLen(step) + 1
        /\ \A k \in (at + 1)..(j - 1) : Skips(step, k, p)
    <2>1. at \in 0..StepLen(step)
      BY <1>0
    <2>2. QED
      BY <1>0, <2>1, NextAtIs
  <1> HIDE DEF j
  <1>4. \A k \in 1..StepLen(step) : Skips(step, k, p) <=> SkipTable(step, k, p)
    BY <1>0, <1>2, SkipsIs
  <1>5. CASE j \in DOMAIN Steps[step]
    <2>1. /\ progress' = p /\ at' = j /\ amount' = x /\ step' = step
          /\ IF p = progress THEN stored' = stored ELSE Save(p)
      BY <1>2, <1>5 DEF Proceed, j
    <2>2. j \in (at + 1)..StepLen(step) /\ j \in 1..StepLen(step)
      BY <1>0, <1>3, <1>5
    <2>3. ~SkipTable(step, j, p)
      BY <1>3, <1>4, <1>5, <2>2
    <2>4. \A k \in (at + 1)..(j - 1) : SkipTable(step, k, p)
      <3> TAKE k \in (at + 1)..(j - 1)
      <3>1. k \in 1..StepLen(step)
        BY <1>0, <2>2
      <3>2. QED
        BY <1>3, <1>4, <3>1
    <2>5. QED
      BY <1>2, <2>1, <2>2, <2>3, <2>4 DEF GoesOn, Save, p
  <1>6. CASE j \notin DOMAIN Steps[step]
    <2>1. Finish(p)
      BY <1>2, <1>6 DEF Proceed, j
    <2>2. \A k \in (at + 1)..StepLen(step) : SkipTable(step, k, p)
      <3> TAKE k \in (at + 1)..StepLen(step)
      <3>1. k \in 1..StepLen(step) /\ k \in (at + 1)..(j - 1)
        BY <1>0, <1>3, <1>6
      <3>2. QED
        BY <1>3, <1>4, <3>1
    <2>3. QED
      BY <1>2, <2>1, <2>2 DEF Finish, Ends, Save, p
  <1>7. QED
    BY <1>5, <1>6

\* What Press finds to be the first operation of the next step.
LEMMA PressIs ==
    ASSUME TypeOK, Press
    PROVE  /\ page = "ready" /\ ~busy /\ step' = progress.done + 1 /\ step' \in 1..Last
           /\ at' \in 1..(StepLen(step') + 1)
           /\ at' \in 1..StepLen(step') => ~SkipTable(step', at', progress)
           /\ \A k \in 1..(at' - 1) : SkipTable(step', k, progress)
  <1>1. /\ page = "ready" /\ ~busy /\ step' = progress.done + 1
        /\ at' = NextAt(progress.done + 1, 0, progress) /\ progress.done < Last
    BY DEF Press
  <1>2. progress \in Progress /\ progress.done \in 0..Last
    BY DEF TypeOK, Progress
  <1> DEFINE n == progress.done + 1
  <1>3. n \in 1..Last
    BY <1>1, <1>2 DEF Last
  <1>4. DOMAIN Steps[n] = 1..StepLen(n) /\ StepLen(n) \in 1..10
    BY <1>3, StepDomain
  <1> HIDE DEF n
  <1>5. /\ NextAt(n, 0, progress) \in 1..(StepLen(n) + 1)
        /\ NextAt(n, 0, progress) \in DOMAIN Steps[n] => ~Skips(n, NextAt(n, 0, progress), progress)
        /\ \A k \in 1..(NextAt(n, 0, progress) - 1) : Skips(n, k, progress)
    <2>1. 0 \in 0..StepLen(n) /\ 0 + 1 = 1
      BY <1>4
    <2>2. QED
      BY <1>3, <2>1, NextAtIs
  <1>6. \A k \in 1..StepLen(n) : Skips(n, k, progress) <=> SkipTable(n, k, progress)
    BY <1>2, <1>3, <1>4, SkipsIs
  <1>7. step' = n /\ at' = NextAt(n, 0, progress)
    BY <1>1 DEF n
  <1>8. \A k \in 1..(at' - 1) : k \in 1..StepLen(n)
    BY <1>4, <1>5, <1>7
  <1>9. QED
    BY <1>1, <1>3, <1>4, <1>5, <1>6, <1>7, <1>8

-----------------------------------------------------------------------------
(* Types, and how the running step and the progress belong together.       *)

\* A step runs on a loaded page only, it is the one after those done, and what it awaits
\* was not done before.  A page that is reset has forgotten everything, but watchFunding
\* may still count step 1 as done.
ControlOK ==
    /\ storing \in BOOLEAN /\ progress \in Progress
    /\ stored \subseteq {progress} /\ (storing \/ stored = {})
    /\ page \in {"loading", "ready", "broken", "resetting", "restarting"}
    /\ step \in 0..Last /\ at \in Nat /\ amount \in Nat
    /\ step # 0 => /\ at \in 1..StepLen(step) /\ step = progress.done + 1 /\ page = "ready"
                   /\ ~SkipTable(step, at, progress)
    /\ page \in {"resetting", "restarting"} => progress \in {Fresh, [Fresh EXCEPT !.done = 1]}

ChainOK ==
    /\ tokens \in [Tokens -> Token] /\ funded \in BOOLEAN
    /\ \A c \in inflight : GoodCall(c) /\ Matters(c.op)

RestOK ==
    /\ watch \in {"off", "asleep", "asking"} /\ faults \in 0..MaxFaults
    /\ overtaken \in BOOLEAN /\ blind \subseteq (1..Last) \X Operations

TypeInv == ControlOK /\ ChainOK /\ RestOK

LEMMA FreshTyped == Fresh \in Progress /\ [Fresh EXCEPT !.done = 1] \in Progress
  <1>1. Fresh \in Progress
    BY DEF Fresh, Progress, Last
  <1>2. \A p \in Progress : [p EXCEPT !.done = 1] \in Progress
    BY DEF Progress, Last
  <1>3. QED
    BY <1>1, <1>2

LEMMA NewTyped == [m \in Tokens |-> NewToken] \in [Tokens -> Token]
  BY DEF NewToken, NoMoney, Token, Money

\* What TypeInv gives to the steps below.
LEMMA TypesHold ==
    ASSUME TypeInv
    PROVE  /\ TypeOK /\ stored \subseteq {progress}
           /\ busy => /\ step \in 1..Last /\ at \in 1..StepLen(step) /\ IsAt(Op, step, at)
                      /\ GoodCall(Call) /\ Call.op = Op /\ Call.token = TokenOf(step)
                      /\ Op # "withdraw" => Call.amount = amount
                      /\ <<step, Op>> \in (1..Last) \X Operations
  <1>1. TypeOK
    <2>1. busy => at \in DOMAIN Steps[step]
      <3>1. SUFFICES ASSUME busy PROVE at \in DOMAIN Steps[step]
        OBVIOUS
      <3>2. step \in 1..Last /\ at \in 1..StepLen(step)
        BY <3>1 DEF TypeInv, ControlOK, busy, Last
      <3>3. QED
        BY <3>2, StepDomain
    <2>2. \A c \in inflight : c.op \in Operations /\ c.token \in Tokens
      BY DEF TypeInv, ChainOK, GoodCall, CallRec
    <2>3. stored \subseteq Progress
      BY DEF TypeInv, ControlOK
    <2>4. QED
      BY <2>1, <2>2, <2>3 DEF TypeInv, ControlOK, ChainOK, RestOK, TypeOK
  <1>2. QED
    BY <1>1, CallIs DEF TypeInv, ControlOK

LEMMA GiveUpKeeps ==
    ASSUME ControlOK, GiveUp, UNCHANGED <<storing, page>>
    PROVE  ControlOK'
  BY DEF ControlOK, GiveUp, Last

LEMMA NoteKeepsDone ==
    ASSUME NEW n, NEW i, NEW p \in Progress
    PROVE  NoteTable(n, i, p).done = p.done
  <1>1. NoteTable(n, i, p) \in {p, [p EXCEPT !.mint = TRUE, !.bobMint = FALSE], [p EXCEPT !.bobMint = TRUE],
                [p EXCEPT !.sent = @ \cup {"plain"}], [p EXCEPT !.sent = @ \cup {"rules"}],
                [p EXCEPT !.stage = i - 1], [p EXCEPT !.refused = TRUE],
                [p EXCEPT !.cleaned = TRUE], [p EXCEPT !.applied = TRUE]}
    BY DEF NoteTable
  <1> DEFINE q == NoteTable(n, i, p)
  <1> HIDE DEF q
  <1>2. QED
    BY <1>1 DEF Progress, q

LEMMA ProceedKeeps ==
    ASSUME TypeInv, busy, NEW x \in Nat, Proceed(x), UNCHANGED <<storing, page>>
    PROVE  ControlOK'
  <1> DEFINE p == NoteTable(step, at, progress)
  <1>1. TypeOK /\ step \in 1..Last /\ at \in 1..StepLen(step) /\ ControlOK
    BY TypesHold DEF TypeInv
  <1>2. p \in Progress /\ (GoesOn(x, p) \/ Ends(p))
    BY <1>1, ProceedIs
  <1>3. p.done = progress.done /\ progress \in Progress
    BY <1>1, NoteKeepsDone DEF ControlOK
  <1> HIDE DEF p
  <1>4. /\ storing' \in BOOLEAN /\ page = "ready" /\ page' = "ready" /\ step = progress.done + 1
        /\ storing' = storing /\ stored \subseteq {progress} /\ (storing \/ stored = {})
    BY <1>1 DEF ControlOK, busy
  <1>5. CASE GoesOn(x, p)
    <2>1. /\ step' = step /\ amount' \in Nat /\ progress' = p
          /\ at' \in (at + 1)..StepLen(step) /\ ~SkipTable(step', at', progress')
      BY <1>5 DEF GoesOn
    <2>2. at' \in Nat /\ at' \in 1..StepLen(step') /\ step' = progress'.done + 1
      BY <1>1, <1>3, <1>4, <2>1
    <2>3. stored' \subseteq {progress'} /\ (storing' \/ stored' = {})
      BY <1>4, <1>5 DEF GoesOn
    <2>4. QED
      BY <1>1, <1>2, <1>4, <2>1, <2>2, <2>3 DEF ControlOK
  <1>6. CASE Ends(p)
    <2>1. step' = 0 /\ at' = 0 /\ amount' = 0
      BY <1>6 DEF Ends
    <2>2. progress' = [p EXCEPT !.done = IF p.done > step THEN p.done ELSE step]
      BY <1>6 DEF Ends
    <2>3. (IF p.done > step THEN p.done ELSE step) \in 0..Last
      BY <1>1, <1>2 DEF Progress, Last
    <2>4. progress' \in Progress
      BY <1>2, <2>2, <2>3 DEF Progress
    <2>5. stored' \subseteq {progress'} /\ (storing' \/ stored' = {})
      BY <1>4, <1>6 DEF Ends
    <2>6. QED
      BY <1>4, <2>1, <2>4, <2>5 DEF ControlOK, Last
  <1>7. QED
    BY <1>2, <1>5, <1>6

LEMMA StartsKeeps ==
    ASSUME ControlOK, NEW k, Starts(k)
    PROVE  ControlOK'
  <1>1. progress' \in Progress /\ stored' \subseteq {progress'}
    BY FreshTyped DEF ControlOK, Starts
  <1>2. QED
    BY <1>1 DEF ControlOK, Starts, Last

LEMMA AfterKeeps ==
    ASSUME ChainOK, NEW c, GoodCall(c), Accepted(c),
           tokens' = [tokens EXCEPT ![c.token] = After(c)]
    PROVE  tokens' \in [Tokens -> Token]
  <1>1. c.token \in Tokens /\ tokens \in [Tokens -> Token]
    BY DEF GoodCall, CallRec, ChainOK
  <1>2. After(c) \in Token
    BY <1>1, AfterType
  <1>3. QED
    BY <1>1, <1>2

LEMMA LandKeeps ==
    ASSUME ChainOK, NEW c, GoodCall(c), Accepted(c), Land(c), funded' = funded
    PROVE  ChainOK'
  <1>1. tokens' \in [Tokens -> Token]
    BY AfterKeeps DEF Land
  <1>2. inflight' \subseteq inflight
    BY DEF Land
  <1>3. QED
    BY <1>1, <1>2 DEF ChainOK

LEMMA BlindKeeps ==
    ASSUME TypeInv, busy, GoesBlind
    PROVE  ChainOK'
  <1>1. ChainOK /\ GoodCall(Call) /\ Call.op = Op /\ Matters(Op) /\ Accepted(Call) /\ funded' = funded
    BY TypesHold DEF TypeInv, GoesBlind
  <1>2. CASE Land(Call)
    BY <1>1, <1>2, LandKeeps
  <1>3. CASE inflight' = inflight \cup {Call} /\ UNCHANGED tokens
    BY <1>1, <1>3 DEF ChainOK
  <1>4. QED
    BY <1>2, <1>3 DEF GoesBlind

LEMMA InitTyped == Init => TypeInv
  <1> SUFFICES ASSUME Init PROVE TypeInv
    OBVIOUS
  <1>1. ControlOK
    BY FreshTyped DEF Init, ControlOK, Last
  <1>2. ChainOK
    BY NewTyped DEF Init, ChainOK
  <1>3. RestOK
    <2>1. 0 \in 0..MaxFaults
      BY FaultsAssumption
    <2>2. QED
      BY <2>1 DEF Init, RestOK
  <1>4. QED
    BY <1>1, <1>2, <1>3 DEF TypeInv

\* Every action keeps the types.
LEMMA TypeKeeps == TypeInv /\ [Next]_vars => TypeInv'
  <1> SUFFICES ASSUME TypeInv, [Next]_vars PROVE TypeInv'
    OBVIOUS
  <1>0. TypeOK /\ ControlOK /\ ChainOK /\ RestOK
    BY TypesHold DEF TypeInv
  <1>a. busy => /\ GoodCall(Call) /\ step \in 1..Last /\ Call.op = Op
                /\ blind \cup {<<step, Op>>} \subseteq (1..Last) \X Operations
    BY <1>0, TypesHold DEF RestOK
  <1>b. Fault => faults' \in 0..MaxFaults
    BY <1>0, FaultsAssumption DEF Fault, RestOK
  <1>c. UNCHANGED chainVars => ChainOK'
    BY <1>0 DEF chainVars, ChainOK
  <1>1. CASE UNCHANGED vars
    <2>1. ControlOK' /\ RestOK'
      BY <1>0, <1>1 DEF vars, pageVars, history, ControlOK, RestOK
    <2>2. QED
      BY <1>1, <1>c, <2>1 DEF vars, TypeInv
  <1>2. CASE PageReady
    <2>1. ControlOK' /\ RestOK'
      BY <1>0, <1>2 DEF PageReady, history, ControlOK, RestOK
    <2>2. QED
      BY <1>2, <1>c, <2>1 DEF PageReady, TypeInv
  <1>3. CASE PageBreaks
    <2>1. ControlOK' /\ RestOK'
      BY <1>0, <1>3, <1>b DEF PageBreaks, ControlOK, RestOK
    <2>2. QED
      BY <1>3, <1>c, <2>1 DEF PageBreaks, TypeInv
  <1>4. CASE Press
    <2>1. /\ step' = progress.done + 1 /\ step' \in 1..Last /\ at' \in 1..(StepLen(step') + 1)
          /\ \A k \in 1..(at' - 1) : SkipTable(step', k, progress)
          /\ at' \in 1..StepLen(step') => ~SkipTable(step', at', progress)
      BY <1>0, <1>4, PressIs
    <2>2. ~SkipTable(step', StepLen(step'), progress) /\ StepLen(step') \in 1..10
      BY <2>1 DEF SkipTable, StepLen, Last
    <2>3. at' \in 1..StepLen(step')
      <3>1. ~(StepLen(step') \in 1..(at' - 1))
        BY <2>1, <2>2
      <3>2. QED
        BY <2>1, <2>2, <3>1
    <2>4. ControlOK' /\ RestOK'
      <3>1. /\ page = "ready" /\ page' = page /\ progress' = progress /\ stored' = stored
            /\ storing' = storing /\ amount' = amount /\ UNCHANGED <<watch, history>>
        BY <1>4 DEF Press
      <3>2. ControlOK'
        BY <1>0, <2>1, <2>2, <2>3, <3>1 DEF ControlOK, Last
      <3>3. RestOK'
        BY <1>0, <3>1 DEF RestOK, history
      <3>4. QED
        BY <3>2, <3>3
    <2>5. QED
      BY <1>4, <1>c, <2>4 DEF Press, TypeInv
  <1>5. CASE ReadAnswered
    <2>1. PICK x \in Nat : Proceed(x)
      <3>1. CASE Op = "balance"
        <4>1. PICK y \in 1..tokens[TokenOf(step)].account["you"].shown : Proceed(y)
          BY <1>5, <3>1 DEF ReadAnswered
        <4>2. y \in Nat
          OBVIOUS
        <4>3. QED
          BY <4>1, <4>2
      <3>2. CASE Op # "balance"
        BY <1>0, <1>5, <3>2 DEF ReadAnswered, ControlOK
      <3>3. QED
        BY <3>1, <3>2
    <2>2. ControlOK'
      BY <1>5, <2>1, ProceedKeeps DEF ReadAnswered
    <2>3. RestOK'
      BY <1>0, <1>5 DEF ReadAnswered, history, RestOK
    <2>4. QED
      BY <1>5, <1>c, <2>2, <2>3 DEF ReadAnswered, TypeInv
  <1>6. CASE AirdropTaken
    <2>1. Proceed(amount) /\ amount \in Nat /\ busy /\ UNCHANGED <<storing, page>>
      BY <1>0, <1>6 DEF AirdropTaken, ControlOK
    <2>2. ControlOK'
      BY <2>1, ProceedKeeps
    <2>3. ChainOK' /\ RestOK'
      BY <1>0, <1>6 DEF AirdropTaken, history, RestOK, ChainOK
    <2>4. QED
      BY <2>2, <2>3 DEF TypeInv
  <1>7. CASE CallLands
    <2>1. busy /\ Accepted(Call) /\ Land(Call) /\ UNCHANGED <<storing, page, watch, funded, history>>
      BY <1>7 DEF CallLands
    <2>2. ControlOK'
      <3>1. CASE GiveUp
        BY <1>0, <2>1, <3>1, GiveUpKeeps
      <3>2. CASE Proceed(amount)
        <4>1. amount \in Nat
          BY <1>0 DEF ControlOK
        <4>2. QED
          BY <2>1, <3>2, <4>1, ProceedKeeps
      <3>3. QED
        BY <1>7, <3>1, <3>2 DEF CallLands
    <2>3. ChainOK'
      BY <1>0, <1>a, <2>1, LandKeeps
    <2>4. RestOK'
      BY <1>0, <2>1 DEF history, RestOK
    <2>5. QED
      BY <2>2, <2>3, <2>4 DEF TypeInv
  <1>8. CASE OpRefused
    <2>1. busy /\ (Proceed(amount) \/ GiveUp) /\ UNCHANGED <<storing, page, watch, chainVars, history>>
      BY <1>8 DEF OpRefused
    <2>2. ControlOK'
      <3>1. CASE GiveUp
        BY <1>0, <2>1, <3>1, GiveUpKeeps
      <3>2. CASE Proceed(amount)
        <4>1. amount \in Nat
          BY <1>0 DEF ControlOK
        <4>2. QED
          BY <2>1, <3>2, <4>1, ProceedKeeps
      <3>3. QED
        BY <2>1, <3>1, <3>2
    <2>3. RestOK'
      BY <1>0, <2>1 DEF history, RestOK
    <2>4. QED
      BY <1>c, <2>1, <2>2, <2>3 DEF TypeInv
  <1>9. CASE OpFails
    <2>1. /\ busy /\ (Proceed(amount) \/ GiveUp) /\ UNCHANGED <<storing, page, watch, chainVars>>
          /\ Fault /\ overtaken' = overtaken /\ blind' \subseteq blind \cup {<<step, Op>>}
      BY <1>9 DEF OpFails, Blinded
    <2>2. ControlOK'
      <3>1. CASE GiveUp
        BY <1>0, <2>1, <3>1, GiveUpKeeps
      <3>2. CASE Proceed(amount)
        <4>1. amount \in Nat
          BY <1>0 DEF ControlOK
        <4>2. QED
          BY <2>1, <3>2, <4>1, ProceedKeeps
      <3>3. QED
        BY <2>1, <3>1, <3>2
    <2>3. RestOK'
      BY <1>0, <1>a, <1>b, <2>1 DEF RestOK
    <2>4. QED
      BY <1>c, <2>1, <2>2, <2>3 DEF TypeInv
  <1>10. CASE OpLost
    <2>1. /\ busy /\ GiveUp /\ GoesBlind /\ UNCHANGED <<storing, page, watch>>
          /\ Fault /\ overtaken' = overtaken /\ blind' \subseteq blind \cup {<<step, Op>>}
      BY <1>10 DEF OpLost, Blinded
    <2>2. ControlOK' /\ ChainOK'
      BY <1>0, <2>1, GiveUpKeeps, BlindKeeps
    <2>3. RestOK'
      BY <1>0, <1>a, <1>b, <2>1 DEF RestOK
    <2>4. QED
      BY <2>2, <2>3 DEF TypeInv
  <1>11. CASE Reload
    <2>1. /\ Starts(stored # {}) /\ Fault /\ overtaken' = overtaken /\ watch' = "off"
          /\ (busy /\ blind' \subseteq blind \cup {<<step, Op>>}) \/ blind' = blind
      BY <1>11 DEF Reload, Blinded, Starts
    <2>2. ControlOK'
      BY <1>0, <2>1, StartsKeeps
    <2>3. ChainOK'
      <3>1. CASE stored = {}
        BY <1>11, <3>1, NewTyped DEF Reload, Starts, ChainOK
      <3>2. CASE stored # {}
        BY <1>11, <1>c, <3>2, BlindKeeps DEF Reload
      <3>3. QED
        BY <3>1, <3>2
    <2>4. RestOK'
      BY <1>0, <1>a, <1>b, <2>1 DEF RestOK
    <2>5. QED
      BY <2>2, <2>3, <2>4 DEF TypeInv
  <1>12. CASE ReloadBroken
    <2>1. Starts(stored # {}) /\ UNCHANGED history /\ watch' = "off"
      BY <1>12 DEF ReloadBroken, Starts
    <2>2. ControlOK'
      BY <1>0, <2>1, StartsKeeps
    <2>3. ChainOK'
      <3>1. CASE stored = {}
        BY <1>12, <3>1, NewTyped DEF ReloadBroken, Starts, ChainOK
      <3>2. CASE stored # {}
        BY <1>12, <1>c, <3>2 DEF ReloadBroken
      <3>3. QED
        BY <3>1, <3>2
    <2>4. RestOK'
      BY <1>0, <2>1 DEF RestOK, history
    <2>5. QED
      BY <2>2, <2>3, <2>4 DEF TypeInv
  <1>13. CASE \E how \in {"resetting", "restarting"} : Reset(how)
    <2>1. PICK how \in {"resetting", "restarting"} : Reset(how)
      BY <1>13
    <2>2. ControlOK'
      BY <1>0, <2>1, FreshTyped DEF Reset, Save, ControlOK, busy
    <2>3. RestOK'
      BY <1>0, <1>b, <2>1 DEF Reset, RestOK
    <2>4. QED
      BY <1>c, <2>1, <2>2, <2>3 DEF Reset, TypeInv
  <1>14. CASE Unload
    <2>1. Starts(FALSE) /\ UNCHANGED history /\ watch' = "off"
      BY <1>14 DEF Unload, Starts
    <2>2. ControlOK'
      BY <1>0, <2>1, StartsKeeps
    <2>3. ChainOK'
      BY <1>14, NewTyped DEF Unload, Starts, ChainOK
    <2>4. RestOK'
      BY <1>0, <2>1 DEF RestOK, history
    <2>5. QED
      BY <2>2, <2>3, <2>4 DEF TypeInv
  <1>15. CASE WatchAnswered
    <2>1. RestOK'
      BY <1>0, <1>15 DEF WatchAnswered, RestOK
    <2>2. ControlOK'
      <3>1. CASE UNCHANGED <<progress, stored>>
        BY <1>0, <1>15, <3>1 DEF WatchAnswered, ControlOK
      <3>2. CASE ~busy /\ progress' = [progress EXCEPT !.done = 1] /\ Save(progress')
        <4>1. progress' \in Progress
          BY <1>0, <3>2 DEF ControlOK, Progress, Last
        <4>2. page \in {"resetting", "restarting"} => progress' = [Fresh EXCEPT !.done = 1]
          BY <1>0, <3>2 DEF ControlOK, Fresh
        <4>3. stored' \subseteq {progress'} /\ (storing \/ stored' = {})
          BY <3>2 DEF Save
        <4>4. UNCHANGED <<storing, page, step, at, amount>>
          BY <1>15 DEF WatchAnswered
        <4>5. QED
          BY <1>0, <3>2, <4>1, <4>2, <4>3, <4>4 DEF ControlOK, busy
      <3>3. QED
        BY <1>15, <3>1, <3>2 DEF WatchAnswered
    <2>3. QED
      BY <1>15, <1>c, <2>1, <2>2 DEF WatchAnswered, TypeInv
  <1>16. CASE WatchWakes
    <2>1. ControlOK' /\ RestOK'
      BY <1>0, <1>16 DEF WatchWakes, history, ControlOK, RestOK
    <2>2. QED
      BY <1>16, <1>c, <2>1 DEF WatchWakes, TypeInv
  <1>17. CASE TopUp
    <2>1. ControlOK' /\ RestOK'
      BY <1>0, <1>17 DEF TopUp, pageVars, history, ControlOK, RestOK
    <2>2. ChainOK'
      BY <1>0, <1>17 DEF TopUp, ChainOK
    <2>3. QED
      BY <2>1, <2>2 DEF TypeInv
  <1>18. ASSUME NEW c \in inflight, LandsLate(c)
         PROVE  TypeInv'
    <2>1. ControlOK' /\ RestOK'
      BY <1>0, <1>18 DEF LandsLate, pageVars, history, ControlOK, RestOK
    <2>2. tokens' \in [Tokens -> Token]
      BY <1>0, <1>18, AfterKeeps DEF LandsLate, ChainOK
    <2>3. ChainOK'
      BY <1>0, <1>18, <2>2 DEF LandsLate, ChainOK
    <2>4. QED
      BY <2>1, <2>3 DEF TypeInv
  <1>19. QED
    BY <1>1, <1>2, <1>3, <1>4, <1>5, <1>6, <1>7, <1>8, <1>9, <1>10, <1>11, <1>12, <1>13, <1>14,
       <1>15, <1>16, <1>17, <1>18 DEF Next, OpAnswered

\* The variables keep their types, a step runs only on a loaded page and awaits something that
\* was not done before, and what is stored is the progress of the page, if anything.
THEOREM TypeCorrect == Spec => []TypeInv
  BY InitTyped, TypeKeeps, PTL DEF Spec

-----------------------------------------------------------------------------
(* The kinds of steps: what the actions do to the chain, to the progress   *)
(* and to the running step, as the invariants below need it.               *)

Resetting == {"resetting", "restarting"}

ChainKept == tokens' = tokens /\ inflight' = inflight

\* c lands; what is in flight for a mint that is replaced is of no account.
Lands(c) ==
    /\ GoodCall(c) /\ Accepted(c) /\ tokens[c.token] \in Token
    /\ tokens' = [tokens EXCEPT ![c.token] = After(c)]
    /\ inflight' \subseteq inflight
    /\ c.op = "mint" => \A d \in inflight' : d.token # c.token

\* Nothing happens to the chain or the progress; a step may be given up.
Pauses ==
    /\ ChainKept /\ progress' = progress
    /\ step' = 0 \/ (step' = step /\ at' = at /\ amount' = amount)
    /\ page \in Resetting \/ page' \in Resetting => page' = page

Opens ==
    /\ ChainKept /\ progress' = progress /\ step = 0
    /\ step' = progress.done + 1 /\ step' \in 1..Last
    /\ page = "ready" /\ page' = "ready" /\ at' \in 1..(StepLen(step') + 1)
    /\ \A k \in 1..(at' - 1) : SkipTable(step', k, progress)

\* The awaited operation is over and the page notes it; the next one has amount x.
Notes(x) ==
    /\ busy /\ page = "ready" /\ page' = "ready"
    /\ LET p == NoteTable(step, at, progress) IN p \in Progress /\ (GoesOn(x, p) \/ Ends(p))

\* The chain is not changed by it.
Reported ==
    /\ ChainKept
    /\ \/ Op = "balance" /\ \E x \in 1..tokens[TokenOf(step)].account["you"].shown : Notes(x)
       \/ Op \in {"airdrop", "poll", "rent", "show", "closeProofs"} /\ Notes(amount)
       \/ Op = "bobBalance" /\ tokens[TokenOf(step)].account["bob"].shown > 0 /\ Notes(amount)
       \/ Op = "payMallory" /\ RefusedBySentinel(Call) /\ Notes(amount)

Carried == Notes(amount) /\ Lands(Call) /\ Op \notin Reads \cup {"airdrop", "payMallory"}

\* The page gives up on a call that landed or can land; it knows of a payment to Mallory only.
Unseen ==
    /\ busy /\ progress' = progress /\ step' = 0 /\ page' \notin Resetting
    /\ Accepted(Call) /\ Matters(Op)
    /\ \/ Lands(Call)
       \/ tokens' = tokens /\ inflight' = inflight \cup {Call}
    /\ <<step, Op>> \in blind' \/ (Op = "payMallory" /\ Lands(Call))

Late(c) ==
    /\ c \in inflight /\ Lands(c) /\ Matters(c.op)
    /\ progress' = progress /\ step' = step /\ at' = at /\ amount' = amount /\ page' = page

\* New keys.
Anew ==
    /\ tokens' = [m \in Tokens |-> NewToken] /\ inflight' = {}
    /\ progress' \in {Fresh, [Fresh EXCEPT !.done = 1]} /\ step' = 0 /\ page' = "loading"

Forgets == ChainKept /\ progress' = Fresh /\ step = 0 /\ step' = 0 /\ page' \in Resetting

Counted == 
    /\ ChainKept /\ progress' = [progress EXCEPT !.done = 1] /\ step = 0 /\ step' = 0 /\ page' = page
    /\ overtaken' = (overtaken \/ progress.done > 1)

\* What is recorded for the properties stays recorded.
Recorded == blind \subseteq blind' /\ (overtaken => overtaken')

StepKind ==
    \/ Pauses \/ Opens \/ Reported \/ Carried \/ Unseen \/ (\E c \in inflight : Late(c))
    \/ Anew \/ Forgets \/ Counted

LEMMA CallLandsAs ==
    ASSUME TypeInv, busy, Accepted(Call), Land(Call)
    PROVE  Lands(Call)
  <1>1. GoodCall(Call)
    BY TypesHold
  <1>2. tokens[Call.token] \in Token
    BY <1>1 DEF GoodCall, CallRec, TypeInv, ChainOK
  <1>3. QED
    BY <1>1, <1>2 DEF Lands, Land

LEMMA NotesAs ==
    ASSUME TypeInv, busy, NEW x, Proceed(x), page' = page
    PROVE  Notes(x)
  <1>1. page = "ready"
    BY DEF TypeInv, ControlOK, busy
  <1>2. QED
    BY <1>1, TypesHold, ProceedIs DEF Notes

LEMMA BlindAs ==
    ASSUME TypeInv, busy, GoesBlind, progress' = progress, step' = 0, page' \notin Resetting,
           <<step, Op>> \in blind'
    PROVE  Unseen
  <1>1. Accepted(Call) /\ Matters(Op)
    BY DEF GoesBlind
  <1>2. CASE Land(Call)
    BY <1>1, <1>2, CallLandsAs DEF Unseen
  <1>3. CASE inflight' = inflight \cup {Call} /\ UNCHANGED tokens
    BY <1>1, <1>3 DEF Unseen
  <1>4. QED
    BY <1>2, <1>3 DEF GoesBlind

LEMMA StartsAs ==
    ASSUME TypeInv, NEW k, Starts(k)
    PROVE  /\ step' = 0 /\ page' = "loading"
           /\ stored # {} => progress' = progress
           /\ stored = {} => progress' = Fresh
           /\ ~k => tokens' = [m \in Tokens |-> NewToken] /\ inflight' = {}
  <1>1. stored \subseteq {progress}
    BY DEF TypeInv, ControlOK
  <1>2. stored # {} => stored = {progress}
    BY <1>1
  <1>3. QED
    BY <1>2 DEF Starts

\* Every step of the specification is of one of these kinds.
LEMMA KindOfStep == TypeInv /\ [Next]_vars => Recorded /\ StepKind
  <1> SUFFICES ASSUME TypeInv, [Next]_vars PROVE Recorded /\ StepKind
    OBVIOUS
  <1>1. CASE UNCHANGED vars
    BY <1>1 DEF vars, pageVars, chainVars, history, Recorded, StepKind, Pauses, ChainKept
  <1>2. CASE PageReady \/ PageBreaks \/ WatchWakes \/ TopUp
    BY <1>2 DEF PageReady, PageBreaks, WatchWakes, TopUp, pageVars, chainVars, history, Recorded,
                StepKind, Pauses, ChainKept, Resetting
  <1>3. CASE Press
    <2>1. Opens
      BY <1>3, PressIs, TypesHold DEF Press, Opens, ChainKept, chainVars, busy
    <2>2. QED
      BY <1>3, <2>1 DEF Press, history, Recorded, StepKind
  <1>4. CASE ReadAnswered
    <2>1. ChainKept /\ page' = page /\ Recorded /\ busy /\ Op \in Reads
      BY <1>4 DEF ReadAnswered, ChainKept, chainVars, history, Recorded
    <2>2. CASE Op = "balance"
      <3>1. PICK x \in 1..tokens[TokenOf(step)].account["you"].shown : Proceed(x)
        BY <1>4, <2>2 DEF ReadAnswered
      <3>2. Notes(x)
        BY <2>1, <3>1, NotesAs
      <3>3. QED
        BY <2>1, <2>2, <3>2 DEF Reported, StepKind
    <2>3. CASE Op # "balance"
      <3>1. Proceed(amount) /\ (Op = "bobBalance" => tokens[TokenOf(step)].account["bob"].shown > 0)
        BY <1>4, <2>3 DEF ReadAnswered
      <3>2. Notes(amount)
        BY <2>1, <3>1, NotesAs
      <3>3. QED
        BY <2>1, <2>3, <3>1, <3>2 DEF Reported, StepKind, Reads
    <2>4. QED
      BY <2>2, <2>3
  <1>5. CASE AirdropTaken
    <2>1. Notes(amount)
      BY <1>5, NotesAs DEF AirdropTaken
    <2>2. QED
      BY <1>5, <2>1 DEF AirdropTaken, Reported, StepKind, ChainKept, history, Recorded
  <1>6. CASE CallLands
    <2>1. Lands(Call) /\ Recorded /\ page' = page /\ busy /\ Accepted(Call)
      BY <1>6, CallLandsAs DEF CallLands, history, Recorded
    <2>2. CASE Op = "payMallory"
      <3>1. page = "ready" /\ progress' = progress /\ step' = 0
        BY <1>6, <2>1, <2>2 DEF TypeInv, ControlOK, busy, CallLands, GiveUp
      <3>2. Matters(Op)
        BY <2>2 DEF Matters
      <3>3. QED
        BY <2>1, <2>2, <3>1, <3>2 DEF Unseen, StepKind, Resetting
    <2>3. CASE Op # "payMallory"
      <3>1. Notes(amount) /\ Op \notin Reads \cup {"airdrop"}
        BY <1>6, <2>3, NotesAs DEF CallLands
      <3>2. QED
        BY <2>1, <2>3, <3>1 DEF Carried, StepKind
    <2>4. QED
      BY <2>2, <2>3
  <1>7. CASE OpRefused
    <2>1. ChainKept /\ Recorded /\ page' = page /\ busy
      BY <1>7 DEF OpRefused, chainVars, ChainKept, history, Recorded
    <2>2. CASE GiveUp
      BY <2>1, <2>2 DEF GiveUp, StepKind, Pauses
    <2>3. CASE ~GiveUp
      <3>1. Proceed(amount) /\ (RefusedBySentinel(Call) \/ Op = "closeProofs")
        BY <1>7, <2>3 DEF OpRefused
      <3>2. Notes(amount)
        BY <2>1, <3>1, NotesAs
      <3>3. RefusedBySentinel(Call) => Op = "payMallory"
        BY <2>1, TypesHold DEF RefusedBySentinel
      <3>4. QED
        BY <2>1, <3>1, <3>2, <3>3 DEF Reported, StepKind
    <2>4. QED
      BY <2>2, <2>3
  <1>8. CASE OpFails
    <2>1. ChainKept /\ Recorded /\ page' = page /\ busy
      BY <1>8 DEF OpFails, chainVars, ChainKept, Blinded, Recorded
    <2>2. CASE Op = "closeProofs"
      BY <1>8, <2>1, <2>2, NotesAs DEF OpFails, Reported, StepKind
    <2>3. CASE Op # "closeProofs"
      BY <1>8, <2>1, <2>3 DEF OpFails, GiveUp, StepKind, Pauses
    <2>4. QED
      BY <2>2, <2>3
  <1>9. CASE OpLost
    <2>1. page = "ready" /\ page' = page /\ busy
      BY <1>9 DEF OpLost, TypeInv, ControlOK, busy
    <2>2. Unseen
      BY <1>9, <2>1, BlindAs DEF OpLost, GiveUp, Blinded, Resetting
    <2>3. QED
      BY <1>9, <2>2 DEF OpLost, Blinded, Recorded, StepKind
  <1>10. CASE Reload
    <2>1. Recorded
      BY <1>10 DEF Reload, Blinded, Recorded
    <2>2. Starts(stored # {}) /\ page = "ready"
      BY <1>10 DEF Reload
    <2>3. CASE stored = {}
      BY <2>1, <2>2, <2>3, StartsAs DEF StepKind, Anew
    <2>4. CASE stored # {} /\ busy /\ GoesBlind
      <3>1. <<step, Op>> \in blind'
        BY <1>10, <2>4 DEF Reload, Blinded, GoesBlind
      <3>2. Unseen
        BY <2>2, <2>4, <3>1, StartsAs, BlindAs DEF Resetting
      <3>3. QED
        BY <2>1, <3>2 DEF StepKind
    <2>5. CASE stored # {} /\ UNCHANGED chainVars
      BY <2>1, <2>2, <2>5, StartsAs DEF StepKind, Pauses, ChainKept, chainVars, Resetting
    <2>6. QED
      BY <1>10, <2>3, <2>4, <2>5 DEF Reload
  <1>11. CASE ReloadBroken
    <2>1. Recorded /\ Starts(stored # {})
      BY <1>11 DEF ReloadBroken, history, Recorded
    <2>2. CASE stored = {}
      BY <2>1, <2>2, StartsAs DEF StepKind, Anew
    <2>3. CASE stored # {}
      BY <1>11, <2>1, <2>3, StartsAs
         DEF ReloadBroken, StepKind, Pauses, ChainKept, chainVars, Resetting
    <2>4. QED
      BY <2>2, <2>3
  <1>12. CASE \E how \in Resetting : Reset(how)
    BY <1>12 DEF Reset, StepKind, Forgets, ChainKept, chainVars, Recorded, busy
  <1>13. CASE Unload
    <2>1. Recorded /\ Starts(FALSE) /\ page \in Resetting
      BY <1>13 DEF Unload, history, Recorded, Resetting
    <2>2. progress \in {Fresh, [Fresh EXCEPT !.done = 1]}
      BY <2>1 DEF TypeInv, ControlOK, Resetting
    <2>3. QED
      BY <2>1, <2>2, StartsAs DEF StepKind, Anew
  <1>14. CASE WatchAnswered
    <2>1. ChainKept /\ Recorded /\ UNCHANGED <<page, step, at, amount>>
      BY <1>14 DEF WatchAnswered, chainVars, ChainKept, Recorded
    <2>2. CASE progress' = progress
      BY <2>1, <2>2 DEF StepKind, Pauses
    <2>3. CASE /\ ~busy /\ progress' = [progress EXCEPT !.done = 1]
               /\ overtaken' = (overtaken \/ progress.done > 1)
      BY <2>1, <2>3 DEF StepKind, Counted, busy
    <2>4. QED
      BY <1>14, <2>2, <2>3 DEF WatchAnswered
  <1>15. ASSUME NEW c \in inflight, LandsLate(c)
         PROVE  Recorded /\ StepKind
    <2>1. GoodCall(c) /\ Matters(c.op) /\ tokens[c.token] \in Token
      BY DEF TypeInv, ChainOK, GoodCall, CallRec
    <2>2. Lands(c)
      <3>1. c.op # "mint"
        BY <2>1 DEF Matters
      <3>2. QED
        BY <1>15, <2>1, <3>1 DEF LandsLate, Lands
    <2>3. Late(c)
      BY <1>15, <2>1, <2>2 DEF LandsLate, Late, pageVars
    <2>4. QED
      BY <1>15, <2>3 DEF LandsLate, history, Recorded, StepKind
  <1>16. QED
    BY <1>1, <1>2, <1>3, <1>4, <1>5, <1>6, <1>7, <1>8, <1>9, <1>10, <1>11, <1>12, <1>13, <1>14,
       <1>15 DEF Next, OpAnswered, Resetting

-----------------------------------------------------------------------------
(* Mallory is not paid.                                                    *)

\* Whoever configures an account for Mallory does so when the policy is set: the running
\* step, because it gets there only with stage 2 noted, and a call that can still land,
\* because it was made then.
MalloryInv ==
    /\ \A m \in Tokens : "mallory" \in tokens[m].conf => tokens[m].policy
    /\ \A c \in inflight : c.op = "confMallory" => tokens[c.token].policy
    /\ progress.stage >= 2 => tokens["rules"].policy
    /\ step = 7 /\ at >= 4 => progress.stage >= 2
    /\ MalloryNeverPaid

\* After a call that is not a new mint, what was set is set; Mallory's account is new only
\* when her call lands.
LEMMA LandsSets ==
    ASSUME TypeInv, NEW c, Lands(c)
    PROVE  /\ c.token \in Tokens /\ tokens' = [tokens EXCEPT ![c.token] = After(c)]
           /\ \A m \in Tokens \ {c.token} : tokens'[m] = tokens[m]
           /\ tokens'[c.token] = After(c) /\ Effect(c, tokens[c.token], tokens'[c.token])
  <1>1. c.token \in Tokens /\ tokens \in [Tokens -> Token]
    BY DEF Lands, GoodCall, CallRec, TypeInv, ChainOK
  <1>2. Effect(c, tokens[c.token], After(c))
    BY <1>1, AfterIs
  <1>3. QED
    BY <1>1, <1>2 DEF Lands

LEMMA MalloryLands ==
    ASSUME TypeInv, MalloryInv, NEW c, Lands(c),
           c.op = "confMallory" => tokens[c.token].policy
    PROVE  /\ \A m \in Tokens : "mallory" \in tokens'[m].conf => tokens'[m].policy
           /\ MalloryNeverPaid'
           /\ c.op # "mint" => \A m \in Tokens : tokens[m].policy => tokens'[m].policy
           /\ \A m \in Tokens \ {c.token} : tokens'[m] = tokens[m]
           /\ c.op = "policy" => tokens'[c.token].policy
           /\ \A d \in inflight' : d.op = "confMallory" => tokens'[d.token].policy
  <1> DEFINE t == tokens[c.token]
             u == tokens'[c.token]
  <1>1. /\ c.token \in Tokens /\ \A m \in Tokens \ {c.token} : tokens'[m] = tokens[m]
        /\ Effect(c, t, u)
    BY LandsSets
  <1>2. c.op # "payMallory"
    <2>1. c.op = "payMallory" => "mallory" \in t.conf /\ ~t.policy
      BY NeedsOf DEF Lands
    <2>2. QED
      BY <1>1, <2>1 DEF MalloryInv
  <1>3. CASE c.op = "mint"
    <2>1. u = NewToken
      BY <1>1, <1>3 DEF Effect
    <2>2. \A d \in inflight' : d \in inflight /\ d.token # c.token /\ d.token \in Tokens
      BY <1>3 DEF Lands, TypeInv, ChainOK, GoodCall, CallRec
    <2>3. QED
      BY <1>1, <1>3, <2>1, <2>2 DEF MalloryInv, MalloryNeverPaid, NewToken
  <1>4. CASE c.op # "mint"
    <2> HIDE DEF t, u
    <2>1. /\ u.policy = (t.policy \/ c.op = "policy")
          /\ u.conf = IF c.op \in {"confYou", "confBob", "confMallory"}
                      THEN t.conf \cup {Configures(c.op)} ELSE t.conf
          /\ u.malloryPaid = (t.malloryPaid \/ c.op = "payMallory")
      BY <1>1, <1>4 DEF Effect
    <2>2. (t.policy => u.policy) /\ (c.op = "policy" => u.policy)
      BY <2>1
    <2>3. "mallory" \in u.conf => "mallory" \in t.conf \/ c.op = "confMallory"
      BY <2>1 DEF Configures
    <2>4. ~u.malloryPaid
      BY <1>1, <1>2, <2>1 DEF MalloryInv, MalloryNeverPaid, t
    <2>5. \A m \in Tokens : tokens[m].policy => tokens'[m].policy
      BY <1>1, <2>2 DEF t, u
    <2>6. \A m \in Tokens : "mallory" \in tokens'[m].conf => tokens'[m].policy
      BY <1>1, <2>2, <2>3 DEF t, u, MalloryInv
    <2>7. MalloryNeverPaid'
      BY <1>1, <2>4 DEF MalloryInv, MalloryNeverPaid, t, u
    <2>8. \A d \in inflight' : d.op = "confMallory" => tokens'[d.token].policy
      <3>1. \A d \in inflight' : d \in inflight /\ d.token \in Tokens
        BY DEF Lands, TypeInv, ChainOK, GoodCall, CallRec
      <3>2. QED
        BY <2>5, <3>1 DEF MalloryInv
    <2>9. QED
      BY <1>1, <1>4, <2>2, <2>5, <2>6, <2>7, <2>8 DEF u
  <1>5. QED
    BY <1>3, <1>4

\* What the page notes of the stages of step 7, and how it gets past the policy.
LEMMA StageNotes ==
    ASSUME TypeInv, NEW x, Notes(x), step = 7 /\ at >= 4 => progress.stage >= 2
    PROVE  /\ progress'.stage >= 2 => progress.stage >= 2 \/ (step = 7 /\ at \in 3..9)
           /\ step' = 7 /\ at' >= 4 => progress'.stage >= 2
           /\ step = 7 /\ at = 2 => progress'.stage = 1
  <1> DEFINE p == NoteTable(step, at, progress)
  <1>1. /\ p \in Progress /\ (GoesOn(x, p) \/ Ends(p)) /\ progress \in Progress
        /\ step \in 1..8 /\ at \in 1..StepLen(step)
    BY TypesHold DEF Notes, TypeInv, ControlOK, Last
  <1>2. p.stage = IF step = 7 /\ at \in 2..9 THEN at - 1 ELSE progress.stage
    BY <1>1 DEF NoteTable, Progress
  <1> HIDE DEF p
  <1>3. progress'.stage = p.stage
    BY <1>1 DEF GoesOn, Ends, Progress
  <1>4. progress.stage \in Nat /\ at \in Nat /\ at >= 1
    BY <1>1 DEF Progress, StepLen
  <1>5. step' = 7 /\ at' >= 4 => progress'.stage >= 2
    <2>1. SUFFICES ASSUME step' = 7, at' >= 4 PROVE p.stage >= 2
      BY <1>3
    <2>2. GoesOn(x, p) /\ step = 7
      BY <1>1, <2>1 DEF Ends, GoesOn
    <2>3. at' \in (at + 1)..10 /\ \A k \in (at + 1)..(at' - 1) : SkipTable(7, k, p)
      BY <2>2 DEF GoesOn, StepLen
    <2>4. CASE at >= 3
      BY <1>2, <1>4, <2>2, <2>4
    <2>5. CASE at < 3
      <3>1. 3 \in (at + 1)..(at' - 1)
        <4>1. PICK z : z = at'
          OBVIOUS
        <4>2. z \in (at + 1)..10 /\ z >= 4
          BY <2>1, <2>3, <4>1
        <4>3. 3 \in (at + 1)..(z - 1)
          BY <1>4, <2>5, <4>2
        <4>4. QED
          BY <4>1, <4>3
      <3>2. SkipTable(7, 3, p)
        BY <2>3, <3>1
      <3>3. p.stage \in Nat
        BY <1>1 DEF Progress
      <3>4. QED
        BY <3>2, <3>3 DEF SkipTable
    <2>6. QED
      BY <1>4, <2>4, <2>5
  <1>6. QED
    BY <1>2, <1>3, <1>4, <1>5

\* The invariant is inductive, with the types.
LEMMA MalloryKeeps == TypeInv /\ MalloryInv /\ Recorded /\ StepKind => MalloryInv'
  <1> SUFFICES ASSUME TypeInv, MalloryInv, Recorded, StepKind PROVE MalloryInv'
    OBVIOUS
  <1>0. progress \in Progress /\ progress.stage \in Nat
    BY DEF TypeInv, ControlOK, Progress
  <1>1. CASE Pauses
    BY <1>1 DEF Pauses, ChainKept, MalloryInv, MalloryNeverPaid
  <1>2. CASE Opens
    <2>1. step' = 7 /\ at' >= 4 => progress.stage >= 2
      <3>1. SUFFICES ASSUME step' = 7, at' >= 4 PROVE progress.stage >= 2
        OBVIOUS
      <3>2. at' \in 1..11 /\ \A k \in 1..(at' - 1) : SkipTable(7, k, progress)
        BY <1>2, <3>1 DEF Opens, StepLen
      <3>3. 3 \in 1..(at' - 1)
        <4>1. PICK z : z = at'
          OBVIOUS
        <4>2. z \in 1..11 /\ z >= 4
          BY <3>1, <3>2, <4>1
        <4>3. 3 \in 1..(z - 1)
          BY <4>2
        <4>4. QED
          BY <4>1, <4>3
      <3>4. SkipTable(7, 3, progress)
        BY <3>2, <3>3
      <3>5. QED
        BY <1>0, <3>4 DEF SkipTable
    <2>2. QED
      BY <1>2, <2>1 DEF Opens, ChainKept, MalloryInv, MalloryNeverPaid
  <1>3. CASE Reported
    <2>1. PICK x : Notes(x)
      BY <1>3 DEF Reported
    <2>2. ~(step = 7 /\ at \in 3..9) \/ progress.stage >= 2
      <3>1. IsAt(Op, step, at) /\ Op \in {"balance", "airdrop", "poll", "rent", "show", "closeProofs",
                                        "bobBalance", "payMallory"}
        BY <1>3, <2>1, TypesHold DEF Reported, Notes
      <3>2. QED
        BY <3>1 DEF IsAt
    <2>3. QED
      BY <1>3, <2>1, <2>2, StageNotes DEF Reported, ChainKept, MalloryInv, MalloryNeverPaid
  <1>4. CASE Carried
    <2>1. Notes(amount) /\ Lands(Call) /\ busy
      BY <1>4 DEF Carried, Notes
    <2>2. Call.op = Op /\ Call.token = TokenOf(step) /\ IsAt(Op, step, at) /\ step \in 1..8
          /\ at \in 1..StepLen(step)
      BY <2>1, TypesHold DEF Last
    <2>3. Op = "confMallory" => step = 7 /\ at = 6
      BY <2>2 DEF IsAt
    <2>4. Op = "confMallory" => tokens[Call.token].policy
      BY <2>2, <2>3 DEF MalloryInv, TokenOf
    <2>5. /\ \A m \in Tokens : "mallory" \in tokens'[m].conf => tokens'[m].policy
          /\ MalloryNeverPaid'
          /\ Op # "mint" => \A m \in Tokens : tokens[m].policy => tokens'[m].policy
          /\ \A m \in Tokens \ {Call.token} : tokens'[m] = tokens[m]
          /\ Op = "policy" => tokens'[Call.token].policy
          /\ \A d \in inflight' : d.op = "confMallory" => tokens'[d.token].policy
      BY <2>1, <2>2, <2>4, MalloryLands
    <2>6. /\ progress'.stage >= 2 => progress.stage >= 2 \/ (step = 7 /\ at \in 3..9)
          /\ step' = 7 /\ at' >= 4 => progress'.stage >= 2
          /\ step = 7 /\ at = 2 => progress'.stage = 1
      BY <2>1, StageNotes DEF MalloryInv
    <2>7. progress'.stage >= 2 => tokens'["rules"].policy
      <3>1. SUFFICES ASSUME progress'.stage >= 2 PROVE tokens'["rules"].policy
        OBVIOUS
      <3>2. "rules" \in Tokens
        BY DEF Tokens
      <3>3. CASE Op = "mint"
        <4>1. step = 2
          BY <2>2, <2>6, <3>1, <3>3 DEF IsAt
        <4>2. Call.token # "rules" /\ progress.stage >= 2
          BY <2>2, <2>6, <3>1, <4>1 DEF TokenOf
        <4>3. QED
          BY <2>5, <3>2, <4>2 DEF MalloryInv
      <3>4. CASE Op # "mint" /\ tokens["rules"].policy
        BY <2>5, <3>2, <3>4
      <3>5. CASE Op # "mint" /\ ~tokens["rules"].policy
        <4>1. step = 7 /\ at = 3
          <5>1. step = 7 /\ at \in 3..9 /\ ~(progress.stage >= 2)
            BY <2>6, <3>1, <3>5 DEF MalloryInv
          <5>2. QED
            BY <5>1 DEF MalloryInv
        <4>2. Op = "policy"
          BY <4>1, StepTable DEF Op, TokenWithRules
        <4>3. QED
          BY <2>2, <2>5, <4>1, <4>2 DEF TokenOf
      <3>6. QED
        BY <3>3, <3>4, <3>5
    <2>8. QED
      BY <2>5, <2>6, <2>7 DEF MalloryInv
  <1>5. CASE Unseen
    <2>1. Call.op = Op /\ Call.token = TokenOf(step) /\ IsAt(Op, step, at) /\ step \in 1..8
          /\ progress' = progress /\ step' = 0
      BY <1>5, TypesHold DEF Unseen, Last
    <2>2. Op = "confMallory" => step = 7 /\ at = 6
      BY <2>1 DEF IsAt
    <2>3. Op = "confMallory" => tokens[Call.token].policy
      BY <2>1, <2>2 DEF MalloryInv, TokenOf
    <2>4. CASE Lands(Call)
      <3>1. /\ \A m \in Tokens : "mallory" \in tokens'[m].conf => tokens'[m].policy
            /\ MalloryNeverPaid'
            /\ Op # "mint" => \A m \in Tokens : tokens[m].policy => tokens'[m].policy
            /\ \A m \in Tokens \ {Call.token} : tokens'[m] = tokens[m]
            /\ \A d \in inflight' : d.op = "confMallory" => tokens'[d.token].policy
        BY <2>1, <2>3, <2>4, MalloryLands
      <3>2. "rules" \in Tokens
        BY DEF Tokens
      <3>3. Op # "mint"
        BY <1>5 DEF Unseen, Matters
      <3>4. QED
        BY <2>1, <3>1, <3>2, <3>3 DEF MalloryInv
    <2>5. CASE tokens' = tokens /\ inflight' = inflight \cup {Call}
      BY <2>1, <2>3, <2>5 DEF MalloryInv, MalloryNeverPaid
    <2>6. QED
      BY <1>5, <2>4, <2>5 DEF Unseen
  <1>6. ASSUME NEW c \in inflight, Late(c)
        PROVE  MalloryInv'
    <2>1. /\ \A m \in Tokens : "mallory" \in tokens'[m].conf => tokens'[m].policy
          /\ MalloryNeverPaid'
          /\ c.op # "mint" => \A m \in Tokens : tokens[m].policy => tokens'[m].policy
          /\ \A d \in inflight' : d.op = "confMallory" => tokens'[d.token].policy
      BY <1>6, MalloryLands DEF Late, MalloryInv
    <2>2. c.op # "mint" /\ "rules" \in Tokens
      BY <1>6 DEF Late, Matters, Tokens
    <2>3. QED
      BY <1>6, <2>1, <2>2 DEF Late, MalloryInv
  <1>7. CASE Anew
    <2>1. progress'.stage = 0 /\ step' = 0
      BY <1>7 DEF Anew, Fresh
    <2>2. \A m \in Tokens : "mallory" \notin tokens'[m].conf /\ ~tokens'[m].malloryPaid
      BY <1>7 DEF Anew, NewToken
    <2>3. inflight' = {}
      BY <1>7 DEF Anew
    <2>4. QED
      BY <2>1, <2>2, <2>3 DEF MalloryInv, MalloryNeverPaid
  <1>8. CASE Forgets
    <2>1. progress'.stage = 0
      BY <1>8 DEF Forgets, Fresh
    <2>2. QED
      BY <1>8, <2>1 DEF Forgets, ChainKept, MalloryInv, MalloryNeverPaid
  <1>9. CASE Counted
    <2>1. progress'.stage = progress.stage
      BY <1>0, <1>9 DEF Counted, Progress
    <2>2. QED
      BY <1>9, <2>1 DEF Counted, ChainKept, MalloryInv, MalloryNeverPaid
  <1>10. QED
    BY <1>1, <1>2, <1>3, <1>4, <1>5, <1>6, <1>7, <1>8, <1>9 DEF StepKind

\* Mallory is on the blocklist before anybody can pay her, and no retry, reload or late
\* landing gets a payment to her through.
THEOREM MalloryNeverPaidHolds == Spec => []MalloryNeverPaid
  <1>1. Init => MalloryInv
    <2> SUFFICES ASSUME Init PROVE MalloryInv
      OBVIOUS
    <2>1. \A m \in Tokens : tokens[m].conf = {} /\ tokens[m].malloryPaid = FALSE
      BY DEF Init, NewToken
    <2>2. inflight = {} /\ step = 0 /\ progress.stage = 0
      BY DEF Init, Fresh
    <2>3. QED
      BY <2>1, <2>2 DEF MalloryInv, MalloryNeverPaid
  <1>2. TypeInv /\ MalloryInv /\ [Next]_vars => MalloryInv'
    BY KindOfStep, MalloryKeeps
  <1>3. MalloryInv => MalloryNeverPaid
    BY DEF MalloryInv
  <1>4. QED
    BY <1>1, <1>2, <1>3, TypeCorrect, PTL DEF Spec

-----------------------------------------------------------------------------
(* Bob is not paid twice without need.                                     *)

PayStep(m) == IF m = "plain" THEN 4 ELSE 8

\* As long as no payment on m went out of sight, none is in flight, and one that landed is
\* noted, so that the operation is skipped from then on.
PaysInv ==
    \A m \in Tokens : <<PayStep(m), "pay">> \notin blind =>
        /\ \A c \in inflight : c.token = m => c.op # "pay"
        /\ tokens[m].bobPaid <= 1
        /\ tokens[m].bobPaid >= 1 => m \in progress.sent \/ page \in Resetting

\* The payments that are noted.
LEMMA SentNotes ==
    ASSUME TypeInv, NEW x, Notes(x)
    PROVE  progress'.sent = IF step = 4 /\ at = 3 THEN progress.sent \cup {"plain"}
                            ELSE IF step = 8 /\ at = 4 THEN progress.sent \cup {"rules"}
                            ELSE progress.sent
  <1> DEFINE p == NoteTable(step, at, progress)
  <1>1. p \in Progress /\ (GoesOn(x, p) \/ Ends(p)) /\ progress \in Progress
    BY DEF Notes, TypeInv, ControlOK
  <1>2. p.sent = IF step = 4 /\ at = 3 THEN progress.sent \cup {"plain"}
                 ELSE IF step = 8 /\ at = 4 THEN progress.sent \cup {"rules"}
                 ELSE progress.sent
    BY <1>1 DEF NoteTable, Progress
  <1> HIDE DEF p
  <1>3. progress'.sent = p.sent
    BY <1>1 DEF GoesOn, Ends, Progress
  <1>4. QED
    BY <1>2, <1>3

\* How often Bob was paid after c landed.
LEMMA PaidLands ==
    ASSUME TypeInv, NEW c, Lands(c), NEW m \in Tokens
    PROVE  /\ tokens'[m].bobPaid = IF c.token = m /\ c.op = "mint" THEN 0
                                   ELSE IF c.token = m /\ c.op = "pay" THEN tokens[m].bobPaid + 1
                                   ELSE tokens[m].bobPaid
           /\ tokens[m].bobPaid \in Nat
  <1>1. tokens[m].bobPaid \in Nat
    BY DEF TypeInv, ChainOK, Token
  <1>2. CASE c.token # m
    BY <1>1, <1>2, LandsSets
  <1>3. CASE c.token = m /\ c.op = "mint"
    <2>1. tokens'[m] = NewToken
      BY <1>3, LandsSets DEF Effect
    <2>2. QED
      BY <1>1, <1>3, <2>1 DEF NewToken
  <1>4. CASE c.token = m /\ c.op # "mint"
    <2>1. tokens'[m].bobPaid = IF c.op = "pay" THEN tokens[m].bobPaid + 1 ELSE tokens[m].bobPaid
      BY <1>4, LandsSets DEF Effect
    <2>2. QED
      BY <1>1, <1>4, <2>1
  <1>5. QED
    BY <1>2, <1>3, <1>4

\* The invariant is inductive, with the types.
LEMMA PaysKeeps == TypeInv /\ PaysInv /\ Recorded /\ StepKind => PaysInv'
  <1> SUFFICES ASSUME TypeInv, PaysInv, Recorded, StepKind, NEW m \in Tokens,
                      <<PayStep(m), "pay">> \notin blind'
               PROVE  /\ \A c \in inflight' : c.token = m => c.op # "pay"
                      /\ tokens'[m].bobPaid <= 1
                      /\ tokens'[m].bobPaid >= 1 => m \in progress'.sent \/ page' \in Resetting
    BY DEF PaysInv
  <1>0. /\ \A c \in inflight : c.token = m => c.op # "pay"
        /\ tokens[m].bobPaid <= 1
        /\ tokens[m].bobPaid >= 1 => m \in progress.sent \/ page \in Resetting
        /\ tokens[m].bobPaid \in Nat
    BY DEF PaysInv, Recorded, TypeInv, ChainOK, Token
  <1>1. CASE Pauses \/ Opens
    BY <1>0, <1>1 DEF Pauses, Opens, ChainKept
  <1>2. CASE Reported
    <2>1. PICK x : Notes(x)
      BY <1>2 DEF Reported
    <2>2. progress.sent \subseteq progress'.sent /\ page' = page
      BY <2>1, SentNotes DEF Notes
    <2>3. QED
      BY <1>0, <1>2, <2>2 DEF Reported, ChainKept
  <1>3. CASE Carried
    <2>1. /\ Notes(amount) /\ Lands(Call) /\ busy /\ page = "ready" /\ page' = "ready"
          /\ inflight' \subseteq inflight
      BY <1>3 DEF Carried, Notes, Lands
    <2>2. /\ Call.op = Op /\ Call.token = TokenOf(step) /\ IsAt(Op, step, at)
          /\ ~SkipTable(step, at, progress)
      BY <2>1, TypesHold DEF TypeInv, ControlOK, busy
    <2>3. progress.sent \subseteq progress'.sent
      BY <2>1, SentNotes
    <2>4. CASE Op = "pay" /\ TokenOf(step) = m
      <3>1. (step = 4 /\ at = 3 /\ m = "plain") \/ (step = 8 /\ at = 4 /\ m = "rules")
        BY <2>2, <2>4 DEF IsAt, TokenOf
      <3>2. m \notin progress.sent
        BY <2>2, <3>1 DEF SkipTable
      <3>3. tokens[m].bobPaid = 0
        BY <1>0, <2>1, <3>2 DEF Resetting
      <3>4. tokens'[m].bobPaid = 1
        BY <2>1, <2>2, <2>4, <3>3, PaidLands
      <3>5. m \in progress'.sent
        BY <2>1, <3>1, SentNotes
      <3>6. QED
        BY <1>0, <2>1, <3>4, <3>5
    <2>5. CASE ~(Op = "pay" /\ TokenOf(step) = m)
      <3>1. tokens'[m].bobPaid \in {0, tokens[m].bobPaid}
        BY <2>1, <2>2, <2>5, PaidLands
      <3>2. QED
        BY <1>0, <2>1, <2>3, <3>1 DEF Resetting
    <2>6. QED
      BY <2>4, <2>5
  <1>4. CASE Unseen
    <2>1. /\ busy /\ progress' = progress /\ page = "ready" /\ Matters(Op)
          /\ Call.op = Op /\ Call.token = TokenOf(step) /\ IsAt(Op, step, at)
          /\ <<step, Op>> \in blind' \/ Op = "payMallory"
      BY <1>4, TypesHold DEF Unseen, TypeInv, ControlOK, busy
    <2>2. ~(Op = "pay" /\ TokenOf(step) = m)
      <3>1. Op = "pay" /\ TokenOf(step) = m => step = PayStep(m)
        BY <2>1 DEF IsAt, TokenOf, PayStep
      <3>2. QED
        BY <2>1, <3>1
    <2>3. CASE Lands(Call)
      <3>1. tokens'[m].bobPaid \in {0, tokens[m].bobPaid}
        BY <2>1, <2>2, <2>3, PaidLands
      <3>2. inflight' \subseteq inflight
        BY <2>3 DEF Lands
      <3>3. QED
        BY <1>0, <2>1, <3>1, <3>2 DEF Resetting
    <2>4. CASE tokens' = tokens /\ inflight' = inflight \cup {Call}
      BY <1>0, <2>1, <2>2, <2>4 DEF Resetting
    <2>5. QED
      BY <1>4, <2>3, <2>4 DEF Unseen
  <1>5. ASSUME NEW c \in inflight, Late(c)
        PROVE  /\ \A d \in inflight' : d.token = m => d.op # "pay"
               /\ tokens'[m].bobPaid <= 1
               /\ tokens'[m].bobPaid >= 1 => m \in progress'.sent \/ page' \in Resetting
    <2>1. Lands(c) /\ progress' = progress /\ page' = page /\ inflight' \subseteq inflight
      BY <1>5 DEF Late, Lands
    <2>2. ~(c.op = "pay" /\ c.token = m)
      BY <1>0
    <2>3. tokens'[m].bobPaid \in {0, tokens[m].bobPaid}
      BY <2>1, <2>2, PaidLands
    <2>4. QED
      BY <1>0, <2>1, <2>3
  <1>6. CASE Anew
    BY <1>6 DEF Anew, NewToken
  <1>7. CASE Forgets
    BY <1>0, <1>7 DEF Forgets, ChainKept
  <1>8. CASE Counted
    <2>1. progress'.sent = progress.sent
      BY <1>8 DEF Counted, TypeInv, ControlOK, Progress
    <2>2. QED
      BY <1>0, <1>8, <2>1 DEF Counted, ChainKept
  <1>9. QED
    BY <1>1, <1>2, <1>3, <1>4, <1>5, <1>6, <1>7, <1>8 DEF StepKind

\* "A retry after a failure part-way through must not [...] send twice": Bob is paid twice on
\* a token only if the page did not learn what became of a payment.
THEOREM PaysAgainOnlyBlindHolds == Spec => []PaysAgainOnlyBlind
  <1>1. Init => PaysInv
    BY DEF Init, PaysInv, NewToken
  <1>2. TypeInv /\ PaysInv /\ [Next]_vars => PaysInv'
    BY KindOfStep, PaysKeeps
  <1>3. TypeInv /\ PaysInv => PaysAgainOnlyBlind
    <2> SUFFICES ASSUME TypeInv, PaysInv, NEW m \in Tokens, tokens[m].bobPaid > 1
                 PROVE  \E n \in {4, 8} : TokenOf(n) = m /\ <<n, "pay">> \in blind
      BY DEF PaysAgainOnlyBlind
    <2>1. tokens[m].bobPaid \in Nat
      BY DEF TypeInv, ChainOK, Token
    <2>2. <<PayStep(m), "pay">> \in blind
      BY <2>1 DEF PaysInv
    <2>3. PayStep(m) \in {4, 8} /\ TokenOf(PayStep(m)) = m
      BY DEF PayStep, TokenOf, Tokens
    <2>4. QED
      BY <2>2, <2>3
  <1>4. QED
    BY <1>1, <1>2, <1>3, TypeCorrect, PTL DEF Spec

-----------------------------------------------------------------------------
(* What is done is done on chain.                                          *)

\* What a token keeps once it has it, whatever lands on it but a new mint.
DepositLanded(t)  == t.account["you"].available + t.account["you"].pending + t.bobPaid >= 1
DepositApplied(t) == t.account["you"].available + t.bobPaid >= 1
BobSees(t)  == t.account["bob"].shown >= 1 \/ t.account["bob"].public >= 1
BobHolds(t) == t.account["bob"].available + t.account["bob"].public >= 1
BobGot(t)   == t.account["bob"].public >= 1

\* What Bob was paid has reached him, and he will see it.
Reached(t) ==
    LET b == t.account["bob"]
    IN  t.bobPaid >= 1 => /\ b.pending + b.available + b.public >= 1
                          /\ b.pending >= 1 \/ BobSees(t)

\* A payment pays something, and what Bob's own calls leave him does not look like nothing.
Fine(c, ts) ==
    /\ c.op = "pay" => c.amount >= 1
    /\ c.op = "bobApply" => c.shown >= 1 \/ BobGot(ts[c.token])
    /\ c.op = "withdraw" => c.token = "plain" /\ (c.amount >= 1 \/ BobGot(ts[c.token]))

\* What operation k of step n leaves behind, when it was done with amount a or left out.
Passed(n, k, p, a, ts) ==
    /\ n = 2 /\ k = 2 => "you" \in ts["plain"].conf
    /\ n = 3 /\ k = 1 => DepositLanded(ts["plain"])
    /\ n = 3 /\ k = 2 => DepositApplied(ts["plain"])
    /\ n = 4 /\ k = 1 => "plain" \in p.sent \/ a >= 1
    /\ n = 4 /\ k = 3 => "plain" \in p.sent
    /\ n = 4 /\ k = 4 => BobHolds(ts["plain"])
    /\ n = 6 /\ k = 1 => BobSees(ts["plain"])
    /\ n = 6 /\ k = 2 => BobGot(ts["plain"])
    /\ n = 7 /\ k \in 2..9 => p.stage >= k - 1
    /\ n = 8 /\ k = 1 => "rules" \in p.sent \/ a >= 1
    /\ n = 8 /\ k = 2 => p.refused
    /\ n = 8 /\ k = 4 => "rules" \in p.sent
    /\ n = 8 /\ k = 5 => p.applied

\* What the notes of the page stand for.
NotesTrue(p, ts) ==
    /\ p.bobMint => "bob" \in ts["plain"].conf /\ p.done >= 3
    /\ "plain" \in p.sent => ts["plain"].bobPaid >= 1 /\ p.done >= 3
    /\ p.stage >= 2 => ts["rules"].policy
    /\ p.stage >= 3 => "you" \in ts["rules"].conf
    /\ p.stage >= 4 => "bob" \in ts["rules"].conf
    /\ p.stage >= 5 => "mallory" \in ts["rules"].conf
    /\ p.refused => p.stage = 8
    /\ "rules" \in p.sent => ts["rules"].bobPaid >= 1 /\ p.refused
    /\ p.applied => p.refused /\ BobHolds(ts["rules"])

\* What the steps that count as done stand for.
DoneTrue(p, ts) ==
    /\ p.done >= 2 => "you" \in ts["plain"].conf
    /\ p.done >= 3 => DepositApplied(ts["plain"])
    /\ p.done >= 4 => "plain" \in p.sent /\ BobHolds(ts["plain"])
    /\ p.done >= 6 => BobGot(ts["plain"])
    /\ p.done >= 7 => p.stage = 8
    /\ p.done >= 8 => p.applied

SavedParts ==
    /\ \A c \in inflight : Fine(c, tokens)
    /\ \A m \in Tokens : Reached(tokens[m])
    /\ tokens["rules"].account["bob"].public = 0
    /\ busy => \A k \in 1..(at - 1) : Passed(step, k, progress, amount, tokens)
    /\ NotesTrue(progress, tokens)
    /\ DoneTrue(progress, tokens)

SavedInv == ~overtaken => SavedParts

\* The balances after c landed, where c is not a new mint.
LEMMA LandsMoney ==
    ASSUME TypeInv, NEW c, Lands(c), c.op # "mint"
    PROVE  LET t == tokens[c.token]
               u == tokens'[c.token]
               y == t.account["you"]
               b == t.account["bob"]
           IN  /\ u.account["you"].available =
                    IF c.op = "apply" THEN y.available + y.pending
                    ELSE IF c.op \in {"pay", "payMallory"} THEN y.available - c.amount ELSE y.available
               /\ u.account["you"].pending =
                    IF c.op = "apply" THEN 0
                    ELSE IF c.op = "deposit" THEN y.pending + Deposit ELSE y.pending
               /\ u.account["bob"].available =
                    IF c.op = "bobApply" THEN b.available + b.pending
                    ELSE IF c.op = "withdraw" THEN b.available - c.amount ELSE b.available
               /\ u.account["bob"].pending =
                    IF c.op = "bobApply" THEN 0
                    ELSE IF c.op = "pay" THEN b.pending + c.amount ELSE b.pending
               /\ u.account["bob"].shown =
                    IF c.op \in {"bobApply", "withdraw"} THEN c.shown ELSE b.shown
               /\ u.account["bob"].public =
                    IF c.op = "withdraw" THEN b.public + c.amount ELSE b.public
  <1> DEFINE t == tokens[c.token]
             u == tokens'[c.token]
             y == t.account["you"]
             b == t.account["bob"]
  <1>1. Effect(c, t, u) /\ c.token \in Tokens
    BY LandsSets
  <1>2. y \in Money /\ b \in Money
    BY <1>1 DEF TypeInv, ChainOK, Token
  <1>3. u.account["you"] =
            CASE c.op = "mintTo"  -> [y EXCEPT !.public = @ + Minted(c.token)]
              [] c.op = "deposit" -> [y EXCEPT !.public = @ - Deposit, !.pending = @ + Deposit]
              [] c.op = "apply"   -> [y EXCEPT !.available = @ + y.pending, !.pending = 0,
                                               !.shown = c.shown]
              [] c.op \in {"pay", "payMallory"} ->
                    [y EXCEPT !.available = @ - c.amount, !.shown = c.shown]
              [] OTHER -> y
    BY <1>1 DEF Effect
  <1>4. u.account["bob"] =
            CASE c.op = "bobApply" -> [b EXCEPT !.available = @ + b.pending, !.pending = 0,
                                                !.shown = c.shown]
              [] c.op = "pay"      -> [b EXCEPT !.pending = @ + c.amount]
              [] c.op = "withdraw" -> [b EXCEPT !.available = @ - c.amount, !.shown = c.shown,
                                                !.public = @ + c.amount]
              [] OTHER -> b
    BY <1>1 DEF Effect
  <1> HIDE DEF t, u, y, b
  <1>5. /\ u.account["you"].available =
                IF c.op = "apply" THEN y.available + y.pending
                ELSE IF c.op \in {"pay", "payMallory"} THEN y.available - c.amount ELSE y.available
        /\ u.account["you"].pending =
                IF c.op = "apply" THEN 0
                ELSE IF c.op = "deposit" THEN y.pending + Deposit ELSE y.pending
    BY <1>2, <1>3 DEF Money
  <1>6. /\ u.account["bob"].available =
                IF c.op = "bobApply" THEN b.available + b.pending
                ELSE IF c.op = "withdraw" THEN b.available - c.amount ELSE b.available
        /\ u.account["bob"].pending =
                IF c.op = "bobApply" THEN 0
                ELSE IF c.op = "pay" THEN b.pending + c.amount ELSE b.pending
        /\ u.account["bob"].shown =
                IF c.op \in {"bobApply", "withdraw"} THEN c.shown ELSE b.shown
        /\ u.account["bob"].public =
                IF c.op = "withdraw" THEN b.public + c.amount ELSE b.public
    BY <1>2, <1>4 DEF Money
  <1>7. QED
    BY <1>5, <1>6 DEF t, u, y, b

\* u has what t has of all this.
Keeps(t, u) ==
    /\ t.conf \subseteq u.conf /\ (t.policy => u.policy)
    /\ t.bobPaid >= 1 => u.bobPaid >= 1
    /\ DepositLanded(t) => DepositLanded(u)
    /\ DepositApplied(t) => DepositApplied(u)
    /\ BobSees(t) => BobSees(u)
    /\ BobHolds(t) => BobHolds(u)
    /\ BobGot(t) => BobGot(u)
    /\ Reached(t) => Reached(u)

\* The balances of a token are numbers, and what a call takes was there.
LEMMA Balances ==
    ASSUME TypeInv, NEW m \in Tokens
    PROVE  LET t == tokens[m]
           IN  /\ t.account["you"].available \in Nat /\ t.account["you"].pending \in Nat
               /\ t.account["bob"].available \in Nat /\ t.account["bob"].pending \in Nat
               /\ t.account["bob"].shown \in Nat /\ t.account["bob"].public \in Nat
               /\ t.bobPaid \in Nat
  <1> DEFINE t == tokens[m]
  <1>1. t \in Token
    BY DEF TypeInv, ChainOK
  <1> HIDE DEF t
  <1>2. t.account["you"] \in Money /\ t.account["bob"] \in Money /\ t.bobPaid \in Nat
    BY <1>1 DEF Token
  <1>3. QED
    BY <1>2 DEF Money, t

\* A call that lands takes nothing of this away, and adds what it is for.
LEMMA LandsKeeps ==
    ASSUME TypeInv, NEW c, Lands(c), Fine(c, tokens), c.op \notin {"mint", "payMallory"}
    PROVE  /\ Keeps(tokens[c.token], tokens'[c.token])
           /\ c.op = "apply" /\ DepositLanded(tokens[c.token]) => DepositApplied(tokens'[c.token])
           /\ c.op = "deposit" => DepositLanded(tokens'[c.token])
           /\ /\ c.op = "bobApply" /\ Reached(tokens[c.token]) /\ tokens[c.token].bobPaid >= 1
              => BobHolds(tokens'[c.token])
           /\ c.op = "withdraw" => BobGot(tokens'[c.token])
           /\ c.op # "withdraw" => tokens'[c.token].account["bob"].public
                                    = tokens[c.token].account["bob"].public
           /\ c.op = "policy" => tokens'[c.token].policy
           /\ c.op = "pay" => tokens'[c.token].bobPaid >= 1
           /\ c.op \in {"confYou", "confBob", "confMallory"} => Configures(c.op) \in tokens'[c.token].conf
  <1> DEFINE t == tokens[c.token]
             u == tokens'[c.token]
             y == t.account["you"]
             b == t.account["bob"]
             v == u.account["you"]
             w == u.account["bob"]
  <1>1. /\ Effect(c, t, u) /\ c.token \in Tokens /\ c.amount \in Nat /\ c.shown \in Nat
        /\ c.from \in Nat /\ (c.proved => c.amount <= c.from)
    BY LandsSets DEF Lands, GoodCall, CallRec
  <1>2. /\ c.op \in {"pay", "payMallory"} => c.proved /\ y.available = c.from
        /\ c.op = "withdraw" => c.proved /\ b.available = c.from
    BY NeedsOf DEF Lands
  <1>3. /\ y.available \in Nat /\ y.pending \in Nat /\ b.available \in Nat /\ b.pending \in Nat
        /\ b.shown \in Nat /\ b.public \in Nat /\ t.bobPaid \in Nat
    BY <1>1, Balances
  <1>4. /\ c.op \in {"pay", "payMallory"} => c.amount <= y.available
        /\ c.op = "withdraw" => c.amount <= b.available
    BY <1>1, <1>2
  <1>5. u.bobPaid = IF c.op = "pay" THEN t.bobPaid + 1 ELSE t.bobPaid
    BY <1>1 DEF Effect
  <1>6. /\ v.available = IF c.op = "apply" THEN y.available + y.pending
                         ELSE IF c.op \in {"pay", "payMallory"} THEN y.available - c.amount
                         ELSE y.available
        /\ v.pending = IF c.op = "apply" THEN 0
                       ELSE IF c.op = "deposit" THEN y.pending + 2 ELSE y.pending
        /\ w.available = IF c.op = "bobApply" THEN b.available + b.pending
                         ELSE IF c.op = "withdraw" THEN b.available - c.amount ELSE b.available
        /\ w.pending = IF c.op = "bobApply" THEN 0
                       ELSE IF c.op = "pay" THEN b.pending + c.amount ELSE b.pending
        /\ w.shown = IF c.op \in {"bobApply", "withdraw"} THEN c.shown ELSE b.shown
        /\ w.public = IF c.op = "withdraw" THEN b.public + c.amount ELSE b.public
    BY LandsMoney DEF Deposit
  <1>7. /\ c.op = "pay" => c.amount >= 1
        /\ c.op = "bobApply" => c.shown >= 1 \/ b.public >= 1
        /\ c.op = "withdraw" => c.amount >= 1 \/ b.public >= 1
    BY DEF Fine, BobGot
  <1>8. /\ u.policy = (t.policy \/ c.op = "policy")
        /\ u.conf = IF c.op \in {"confYou", "confBob", "confMallory"}
                    THEN t.conf \cup {Configures(c.op)} ELSE t.conf
    BY <1>1 DEF Effect
  <1>9. /\ t.conf \subseteq u.conf /\ (t.policy => u.policy) /\ (c.op = "policy" => u.policy)
        /\ c.op \in {"confYou", "confBob", "confMallory"} => Configures(c.op) \in u.conf
    BY <1>8
  <1> HIDE DEF t, u, y, b, v, w
  <1>10. /\ t.bobPaid >= 1 => u.bobPaid >= 1
         /\ y.available + y.pending + t.bobPaid >= 1 => v.available + v.pending + u.bobPaid >= 1
         /\ y.available + t.bobPaid >= 1 => v.available + u.bobPaid >= 1
         /\ c.op = "apply" /\ y.available + y.pending + t.bobPaid >= 1 => v.available + u.bobPaid >= 1
         /\ c.op = "deposit" => v.available + v.pending + u.bobPaid >= 1
         /\ c.op = "pay" => u.bobPaid >= 1
    <2>1. CASE c.op = "pay"
      BY <1>1, <1>3, <1>4, <1>5, <1>6, <2>1
    <2>2. CASE c.op = "apply"
      BY <1>3, <1>5, <1>6, <2>2
    <2>3. CASE c.op \notin {"pay", "apply"}
      BY <1>3, <1>5, <1>6, <2>3
    <2>4. QED
      BY <2>1, <2>2, <2>3
  <1>11. /\ b.shown >= 1 \/ b.public >= 1 => w.shown >= 1 \/ w.public >= 1
         /\ b.available + b.public >= 1 => w.available + w.public >= 1
         /\ b.public >= 1 => w.public >= 1
         /\ c.op = "withdraw" => w.public >= 1
         /\ c.op = "bobApply" /\ b.pending + b.available + b.public >= 1 => w.available + w.public >= 1
         /\ c.op # "withdraw" => w.public = b.public
    BY <1>1, <1>3, <1>4, <1>6, <1>7
  <1>12. Reached(t) => Reached(u)
    <2>1. CASE c.op = "pay"
      <3>1. w.pending + w.available + w.public >= 1 /\ w.pending >= 1
        BY <1>1, <1>3, <1>6, <1>7, <2>1
      <3>2. QED
        BY <3>1 DEF Reached, BobSees, w
    <2>2. CASE c.op # "pay"
      <3>1. u.bobPaid = t.bobPaid
        BY <1>5, <2>2
      <3>2. b.pending + b.available + b.public >= 1 => w.pending + w.available + w.public >= 1
        BY <1>1, <1>3, <1>4, <1>6, <2>2
      <3>3. (b.pending >= 1 \/ b.shown >= 1 \/ b.public >= 1)
            => (w.pending >= 1 \/ w.shown >= 1 \/ w.public >= 1)
        BY <1>1, <1>3, <1>6, <1>7, <2>2
      <3>4. QED
        BY <3>1, <3>2, <3>3 DEF Reached, BobSees, b, w
    <2>3. QED
      BY <2>1, <2>2
  <1>13. Keeps(t, u)
    BY <1>9, <1>10, <1>11, <1>12
       DEF Keeps, DepositLanded, DepositApplied, BobSees, BobHolds, BobGot, y, b, v, w
  <1>14. QED
    BY <1>9, <1>10, <1>11, <1>13
       DEF DepositLanded, DepositApplied, BobHolds, BobGot, Reached, t, u, y, b, v, w

\* What is left out has left behind what it should, whatever the amount.
LEMMA SkippedPassed ==
    ASSUME NEW n \in 1..8, NEW k, NEW p, NEW a, NEW ts, SkipTable(n, k, p)
    PROVE  Passed(n, k, p, a, ts)
  BY DEF SkipTable, Passed

\* It stays so.
LEMMA PassedStays ==
    ASSUME NEW n, NEW k, NEW p \in Progress, NEW q \in Progress, NEW a, NEW ts, NEW us,
           Keeps(ts["plain"], us["plain"]),
           p.sent \subseteq q.sent, p.stage <= q.stage, p.refused => q.refused, p.applied => q.applied,
           Passed(n, k, p, a, ts)
    PROVE  Passed(n, k, q, a, us)
  <1>1. CASE n = 7
    <2>1. p.stage \in Nat /\ q.stage \in Nat
      BY DEF Progress
    <2>2. k \in 2..9 => q.stage >= k - 1
      <3>1. SUFFICES ASSUME k \in 2..9 PROVE q.stage >= k - 1
        OBVIOUS
      <3>2. p.stage >= k - 1
        BY <1>1, <3>1 DEF Passed
      <3>3. QED
        BY <2>1, <3>1, <3>2
    <2>3. QED
      BY <1>1, <2>2 DEF Passed
  <1>2. CASE n # 7
    BY <1>2 DEF Passed, Keeps
  <1>3. QED
    BY <1>1, <1>2

\* What a step that notes does to the progress and to the running step.
LEMMA NotesIs ==
    ASSUME TypeInv, NEW x, Notes(x)
    PROVE  /\ step \in 1..8 /\ at \in 1..StepLen(step) /\ step = progress.done + 1
           /\ progress \in Progress /\ progress' \in Progress
           /\ ~SkipTable(step, at, progress)
           /\ progress'.bobMint => ~(step = 2 /\ at = 1) /\ (progress.bobMint \/ (step = 4 /\ at = 2))
           /\ progress'.stage = (IF step = 7 /\ at \in 2..9 THEN at - 1 ELSE progress.stage)
           /\ progress'.refused <=> progress.refused \/ (step = 8 /\ at = 2)
           /\ progress'.applied <=> progress.applied \/ (step = 8 /\ at = 5)
           /\ \/ /\ step' = step /\ amount' = x /\ progress'.done = progress.done
                 /\ at' \in (at + 1)..StepLen(step)
                 /\ \A k \in (at + 1)..(at' - 1) : SkipTable(step, k, progress')
              \/ /\ step' = 0 /\ progress'.done = step
                 /\ \A k \in (at + 1)..StepLen(step) : SkipTable(step, k, progress')
  <1> DEFINE p == NoteTable(step, at, progress)
  <1>1. /\ p \in Progress /\ (GoesOn(x, p) \/ Ends(p)) /\ progress \in Progress
        /\ step \in 1..8 /\ at \in 1..StepLen(step) /\ step = progress.done + 1
        /\ ~SkipTable(step, at, progress)
    BY TypesHold DEF Notes, TypeInv, ControlOK, Last, busy
  <1>2. /\ p.bobMint => ~(step = 2 /\ at = 1) /\ (progress.bobMint \/ (step = 4 /\ at = 2))
        /\ p.refused <=> progress.refused \/ (step = 8 /\ at = 2)
        /\ p.applied <=> progress.applied \/ (step = 8 /\ at = 5)
    <2>1. CASE step = 2 /\ at = 1
      BY <1>1, <2>1 DEF NoteTable, Progress
    <2>2. CASE step = 4 /\ at = 2
      <3>1. p = [progress EXCEPT !.bobMint = TRUE]
        BY <2>2 DEF NoteTable
      <3> HIDE DEF p
      <3>2. p.bobMint /\ (p.refused <=> progress.refused) /\ (p.applied <=> progress.applied)
        BY <1>1, <3>1 DEF Progress
      <3>3. QED
        BY <2>2, <3>2
    <2>3. CASE step = 8 /\ at = 2
      <3>1. p = [progress EXCEPT !.refused = TRUE]
        BY <2>3 DEF NoteTable
      <3> HIDE DEF p
      <3>2. (p.bobMint <=> progress.bobMint) /\ p.refused /\ (p.applied <=> progress.applied)
        BY <1>1, <3>1 DEF Progress
      <3>3. QED
        BY <2>3, <3>2
    <2>4. CASE step = 8 /\ at = 5
      <3>1. p = [progress EXCEPT !.applied = TRUE]
        BY <2>4 DEF NoteTable
      <3> HIDE DEF p
      <3>2. (p.bobMint <=> progress.bobMint) /\ (p.refused <=> progress.refused) /\ p.applied
        BY <1>1, <3>1 DEF Progress
      <3>3. QED
        BY <2>4, <3>2
    <2>5. CASE <<step, at>> \notin {<<2, 1>>, <<4, 2>>, <<8, 2>>, <<8, 5>>}
      <3>1. p \in {progress, [progress EXCEPT !.sent = @ \cup {"plain"}],
                  [progress EXCEPT !.sent = @ \cup {"rules"}], [progress EXCEPT !.stage = at - 1],
                  [progress EXCEPT !.cleaned = TRUE]}
        BY <2>5 DEF NoteTable
      <3> HIDE DEF p
      <3>2. /\ (p.bobMint <=> progress.bobMint) /\ (p.refused <=> progress.refused)
            /\ (p.applied <=> progress.applied)
        BY <1>1, <3>1 DEF Progress
      <3>3. QED
        BY <2>5, <3>2
    <2>6. QED
      BY <2>1, <2>2, <2>3, <2>4, <2>5
  <1>3. p.stage = (IF step = 7 /\ at \in 2..9 THEN at - 1 ELSE progress.stage)
    BY <1>1 DEF NoteTable, Progress
  <1>4. p.done = progress.done
    BY <1>1, NoteKeepsDone
  <1> HIDE DEF p
  <1>5. CASE GoesOn(x, p)
    BY <1>1, <1>2, <1>3, <1>4, <1>5 DEF GoesOn
  <1>6. CASE Ends(p)
    <2>1. (IF p.done > step THEN p.done ELSE step) = step /\ step \in 0..Last
      BY <1>1, <1>4 DEF Progress, Last
    <2>2. progress' = [p EXCEPT !.done = step] /\ step' = 0
      BY <1>6, <2>1 DEF Ends
    <2>3. /\ progress' \in Progress /\ progress'.done = step /\ progress'.bobMint = p.bobMint
          /\ progress'.sent = p.sent /\ progress'.stage = p.stage /\ progress'.refused = p.refused
          /\ progress'.cleaned = p.cleaned /\ progress'.applied = p.applied
      BY <1>1, <2>1, <2>2 DEF Progress
    <2>4. \A k \in (at + 1)..StepLen(step) : SkipTable(step, k, p)
      BY <1>6 DEF Ends
    <2>5. \A k \in (at + 1)..StepLen(step) : SkipTable(step, k, progress')
      BY <2>3, <2>4 DEF SkipTable
    <2>6. QED
      BY <1>1, <1>2, <1>3, <2>2, <2>3, <2>5
  <1>7. QED
    BY <1>1, <1>5, <1>6

\* What the call of the running step is made from leaves it with something to carry.
LEMMA CallFine ==
    ASSUME TypeInv, SavedParts, busy
    PROVE  Fine(Call, tokens)
  <1> DEFINE m == TokenOf(step)
             b == tokens[m].account["bob"]
  <1>1. /\ step \in 1..8 /\ at \in 1..StepLen(step) /\ IsAt(Op, step, at) /\ Call.op = Op
        /\ Call.token = m /\ (Op # "withdraw" => Call.amount = amount)
        /\ ~SkipTable(step, at, progress)
    BY TypesHold DEF TypeInv, ControlOK, Last, busy
  <1>2. \A k \in 1..(at - 1) : Passed(step, k, progress, amount, tokens)
    BY DEF SavedParts
  <1>3. m \in Tokens
    BY DEF TokenOf, Tokens
  <1>4. b.shown \in Nat /\ b.pending \in Nat
    BY <1>3, Balances
  <1>5. Op = "pay" => amount >= 1
    <2>1. SUFFICES ASSUME Op = "pay" PROVE amount >= 1
      OBVIOUS
    <2>2. CASE step = 4 /\ at = 3
      <3>1. Passed(4, 1, progress, amount, tokens)
        BY <1>2, <2>2
      <3>2. QED
        BY <1>1, <2>2, <3>1 DEF Passed, SkipTable
    <2>3. CASE step = 8 /\ at = 4
      <3>1. Passed(8, 1, progress, amount, tokens)
        BY <1>2, <2>3
      <3>2. QED
        BY <1>1, <2>3, <3>1 DEF Passed, SkipTable
    <2>4. QED
      BY <1>1, <2>1, <2>2, <2>3 DEF IsAt
  <1>6. Op = "bobApply" => Call.shown >= 1 \/ BobGot(tokens[m])
    <2>1. SUFFICES ASSUME Op = "bobApply" PROVE Call.shown >= 1 \/ BobGot(tokens[m])
      OBVIOUS
    <2>2. Call.shown = b.shown + b.pending
      BY <2>1 DEF Call, Op, WhoOf
    <2>3. m \in progress.sent
      <3>1. CASE step = 4 /\ at = 4
        <4>1. Passed(4, 3, progress, amount, tokens)
          BY <1>2, <3>1
        <4>2. QED
          BY <3>1, <4>1 DEF Passed, TokenOf
      <3>2. CASE step = 8 /\ at = 5
        <4>1. Passed(8, 4, progress, amount, tokens)
          BY <1>2, <3>2
        <4>2. QED
          BY <3>2, <4>1 DEF Passed, TokenOf
      <3>3. QED
        BY <1>1, <2>1, <3>1, <3>2 DEF IsAt
    <2>4. tokens[m].bobPaid >= 1
      BY <1>3, <2>3 DEF SavedParts, NotesTrue, Tokens
    <2>5. b.pending >= 1 \/ b.shown >= 1 \/ BobGot(tokens[m])
      BY <1>3, <2>4 DEF SavedParts, Reached, BobSees, BobGot
    <2>6. QED
      BY <1>4, <2>2, <2>5
  <1>7. Op = "withdraw" => m = "plain" /\ (Call.amount >= 1 \/ BobGot(tokens[m]))
    <2>1. SUFFICES ASSUME Op = "withdraw" PROVE m = "plain" /\ (Call.amount >= 1 \/ BobGot(tokens[m]))
      OBVIOUS
    <2>2. step = 6 /\ at = 2 /\ m = "plain"
      BY <1>1, <2>1 DEF IsAt, TokenOf
    <2>3. Call.amount = b.shown
      BY <2>1 DEF Call, Op, WhoOf
    <2>4. Passed(6, 1, progress, amount, tokens)
      BY <1>2, <2>2
    <2>5. QED
      BY <2>2, <2>3, <2>4 DEF Passed, BobSees, BobGot
  <1>8. QED
    BY <1>1, <1>5, <1>6, <1>7 DEF Fine

\* What the chain holds when operation i of step n has just landed.
Noticed(n, i, ts) ==
    /\ n = 4 /\ i = 2 => "bob" \in ts["plain"].conf
    /\ n = 4 /\ i = 3 => ts["plain"].bobPaid >= 1
    /\ n = 7 /\ i = 3 => ts["rules"].policy
    /\ n = 7 /\ i = 4 => "you" \in ts["rules"].conf
    /\ n = 7 /\ i = 5 => "bob" \in ts["rules"].conf
    /\ n = 7 /\ i = 6 => "mallory" \in ts["rules"].conf
    /\ n = 8 /\ i = 4 => ts["rules"].bobPaid >= 1
    /\ n = 8 /\ i = 5 => BobHolds(ts["rules"])

\* When an operation of the step is done, its notes and the step's end stay true.
LEMMA NotesSaved ==
    ASSUME TypeInv, SavedParts, NEW x, Notes(x),
           \A m \in Tokens : Keeps(tokens[m], tokens'[m]),
           Passed(step, at, progress', x, tokens'), Noticed(step, at, tokens'),
           at > 1 => x = amount
    PROVE  /\ step' # 0 => \A k \in 1..(at' - 1) : Passed(step', k, progress', amount', tokens')
           /\ NotesTrue(progress', tokens')
           /\ DoneTrue(progress', tokens')
  <1>1. PICK q, us : q = progress' /\ us = tokens'
    OBVIOUS
  <1> DEFINE p == progress
  <1>2. /\ step \in 1..8 /\ at \in 1..StepLen(step) /\ StepLen(step) \in 1..10
        /\ step = p.done + 1 /\ p \in Progress /\ q \in Progress /\ ~SkipTable(step, at, p)
    BY <1>1, NotesIs, StepDomain DEF Last
  <1>3. /\ q.bobMint => ~(step = 2 /\ at = 1) /\ (p.bobMint \/ (step = 4 /\ at = 2))
        /\ q.stage = (IF step = 7 /\ at \in 2..9 THEN at - 1 ELSE p.stage)
        /\ q.refused <=> p.refused \/ (step = 8 /\ at = 2)
        /\ q.applied <=> p.applied \/ (step = 8 /\ at = 5)
        /\ q.sent = IF step = 4 /\ at = 3 THEN p.sent \cup {"plain"}
                    ELSE IF step = 8 /\ at = 4 THEN p.sent \cup {"rules"}
                    ELSE p.sent
    BY <1>1, NotesIs, SentNotes
  <1>4. /\ p.done \in 0..8 /\ q.done \in 0..8 /\ p.stage \in 0..8 /\ q.stage \in 0..8
        /\ p.done \in Nat /\ q.done \in Nat /\ p.stage \in Nat /\ q.stage \in Nat
        /\ at \in Nat /\ at >= 1
    BY <1>2 DEF Progress, Last
  <1>5. /\ \/ step' = step /\ amount' = x /\ q.done = p.done /\ at' \in (at + 1)..StepLen(step)
              /\ \A k \in (at + 1)..(at' - 1) : SkipTable(step, k, q)
           \/ step' = 0 /\ q.done = step /\ \A k \in (at + 1)..StepLen(step) : SkipTable(step, k, q)
    BY <1>1, NotesIs
  <1>6. \A m \in Tokens : Keeps(tokens[m], us[m])
    BY <1>1
  <1>7. Passed(step, at, q, x, us) /\ Noticed(step, at, us)
    BY <1>1
  <1>8. /\ p.sent \subseteq q.sent /\ p.stage <= q.stage /\ (p.refused => q.refused)
        /\ (p.applied => q.applied)
    <2>1. p.stage <= q.stage
      BY <1>2, <1>3, <1>4 DEF SkipTable
    <2>2. QED
      BY <1>3, <2>1
  <1>9. \A k \in 1..at : Passed(step, k, q, x, us)
    <2> TAKE k \in 1..at
    <2>1. CASE k = at
      BY <1>7, <2>1
    <2>2. CASE k # at
      <3>1. k \in 1..(at - 1) /\ at > 1
        BY <1>4, <2>2
      <3>2. Passed(step, k, p, amount, tokens) /\ x = amount
        BY <3>1 DEF SavedParts, Notes
      <3>3. Keeps(tokens["plain"], us["plain"])
        BY <1>6 DEF Tokens
      <3>4. QED
        BY <1>2, <1>8, <3>2, <3>3, PassedStays
    <2>3. QED
      BY <2>1, <2>2
  <1>10. \A k \in 1..StepLen(step) : SkipTable(step, k, q) => Passed(step, k, q, x, us)
    BY <1>2, SkippedPassed
  <1> HIDE DEF p
  <1>11. NotesTrue(p, tokens) /\ DoneTrue(p, tokens)
    BY DEF SavedParts, p
  <1>12. Keeps(tokens["plain"], us["plain"]) /\ Keeps(tokens["rules"], us["rules"])
    BY <1>6 DEF Tokens
  <1>13. p.done <= q.done /\ q.done <= p.done + 1
    BY <1>2, <1>4, <1>5
  <1>14. NotesTrue(q, us)
    <2>1. q.bobMint => "bob" \in us["plain"].conf /\ q.done >= 3
      <3>1. SUFFICES ASSUME q.bobMint PROVE "bob" \in us["plain"].conf /\ q.done >= 3
        OBVIOUS
      <3>2. CASE p.bobMint
        BY <1>4, <1>11, <1>12, <1>13, <3>2 DEF NotesTrue, Keeps
      <3>3. CASE step = 4 /\ at = 2
        BY <1>2, <1>4, <1>7, <1>13, <3>3 DEF Noticed
      <3>4. QED
        BY <1>3, <3>1, <3>2, <3>3
    <2>2. "plain" \in q.sent => us["plain"].bobPaid >= 1 /\ q.done >= 3
      <3>1. SUFFICES ASSUME "plain" \in q.sent PROVE us["plain"].bobPaid >= 1 /\ q.done >= 3
        OBVIOUS
      <3>2. CASE "plain" \in p.sent
        BY <1>4, <1>11, <1>12, <1>13, <3>2 DEF NotesTrue, Keeps
      <3>3. CASE step = 4 /\ at = 3
        BY <1>2, <1>4, <1>7, <1>13, <3>3 DEF Noticed
      <3>4. QED
        BY <1>3, <3>1, <3>2, <3>3
    <2>3. CASE step = 7
      <3>1. at >= 3 => p.stage >= at - 2
        <4>1. SUFFICES ASSUME at >= 3 PROVE p.stage >= at - 2
          OBVIOUS
        <4>2. at - 1 \in 1..(at - 1) /\ at - 1 \in 2..9
          BY <1>2, <1>4, <2>3, <4>1 DEF StepLen
        <4>3. Passed(7, at - 1, p, amount, tokens)
          BY <2>3, <4>2 DEF SavedParts, Notes, p
        <4>4. p.stage >= (at - 1) - 1
          BY <4>2, <4>3 DEF Passed
        <4>5. QED
          BY <1>4, <4>4
      <3>2. at \in 2..9 => p.stage < at - 1
        BY <1>2, <1>4, <2>3 DEF SkipTable
      <3>3. /\ q.stage >= 2 => us["rules"].policy
            /\ q.stage >= 3 => "you" \in us["rules"].conf
            /\ q.stage >= 4 => "bob" \in us["rules"].conf
            /\ q.stage >= 5 => "mallory" \in us["rules"].conf
        <4>1. CASE at \in 2..9
          <5>1. q.stage = at - 1
            BY <1>3, <2>3, <4>1
          <5>2. q.stage >= 2 => at = 3 \/ p.stage >= 2
            BY <1>4, <3>1, <5>1
          <5>3. q.stage >= 3 => at = 4 \/ p.stage >= 3
            BY <1>4, <3>1, <5>1
          <5>4. q.stage >= 4 => at = 5 \/ p.stage >= 4
            BY <1>4, <3>1, <5>1
          <5>5. q.stage >= 5 => at = 6 \/ p.stage >= 5
            BY <1>4, <3>1, <5>1
          <5>6. QED
            BY <1>7, <1>11, <1>12, <2>3, <5>2, <5>3, <5>4, <5>5 DEF Noticed, NotesTrue, Keeps
        <4>2. CASE at \notin 2..9
          BY <1>3, <1>11, <1>12, <4>2 DEF NotesTrue, Keeps
        <4>3. QED
          BY <4>1, <4>2
      <3>4. q.refused => q.stage = 8
        <4>1. SUFFICES ASSUME q.refused PROVE q.stage = 8
          OBVIOUS
        <4>2. p.stage = 8
          BY <1>3, <1>11, <2>3, <4>1 DEF NotesTrue
        <4>3. at \notin 2..9
          BY <1>4, <3>2, <4>2
        <4>4. QED
          BY <1>3, <4>2, <4>3
      <3>5. "rules" \in q.sent => us["rules"].bobPaid >= 1 /\ q.refused
        BY <1>3, <1>11, <1>12, <2>3 DEF NotesTrue, Keeps
      <3>6. q.applied => q.refused /\ BobHolds(us["rules"])
        BY <1>3, <1>11, <1>12, <2>3 DEF NotesTrue, Keeps
      <3>7. QED
        BY <2>1, <2>2, <3>3, <3>4, <3>5, <3>6 DEF NotesTrue
    <2>4. CASE step # 7
      <3>1. q.stage = p.stage
        BY <1>3, <2>4
      <3>2. /\ q.stage >= 2 => us["rules"].policy
            /\ q.stage >= 3 => "you" \in us["rules"].conf
            /\ q.stage >= 4 => "bob" \in us["rules"].conf
            /\ q.stage >= 5 => "mallory" \in us["rules"].conf
        BY <1>11, <1>12, <3>1 DEF NotesTrue, Keeps
      <3>3. q.refused => q.stage = 8
        <4>1. CASE p.refused
          BY <1>11, <3>1, <4>1 DEF NotesTrue
        <4>2. CASE step = 8 /\ at = 2
          <5>1. p.done >= 7
            BY <1>2, <1>4, <4>2
          <5>2. QED
            BY <1>11, <3>1, <5>1 DEF DoneTrue
        <4>3. QED
          BY <1>3, <4>1, <4>2
      <3>4. step = 8 /\ at \in {4, 5} => q.refused
        <4>1. SUFFICES ASSUME step = 8, at \in {4, 5} PROVE q.refused
          OBVIOUS
        <4>2. Passed(8, 2, q, x, us)
          BY <1>9, <4>1
        <4>3. QED
          BY <4>2 DEF Passed
      <3>5. "rules" \in q.sent => us["rules"].bobPaid >= 1 /\ q.refused
        <4>1. CASE "rules" \in p.sent
          BY <1>8, <1>11, <1>12, <4>1 DEF NotesTrue, Keeps
        <4>2. CASE step = 8 /\ at = 4
          BY <1>7, <3>4, <4>2 DEF Noticed
        <4>3. QED
          BY <1>3, <4>1, <4>2
      <3>6. q.applied => q.refused /\ BobHolds(us["rules"])
        <4>1. CASE p.applied
          BY <1>8, <1>11, <1>12, <4>1 DEF NotesTrue, Keeps
        <4>2. CASE step = 8 /\ at = 5
          BY <1>7, <3>4, <4>2 DEF Noticed
        <4>3. QED
          BY <1>3, <4>1, <4>2
      <3>7. QED
        BY <2>1, <2>2, <3>2, <3>3, <3>5, <3>6 DEF NotesTrue
    <2>5. QED
      BY <2>3, <2>4
  <1>15. /\ p.done >= 2 => "you" \in us["plain"].conf
         /\ p.done >= 3 => DepositApplied(us["plain"])
         /\ p.done >= 4 => "plain" \in q.sent /\ BobHolds(us["plain"])
         /\ p.done >= 6 => BobGot(us["plain"])
         /\ p.done >= 7 => q.stage = 8
         /\ p.done >= 8 => q.applied
    <2>1. p.done >= 7 => q.stage = 8
      BY <1>4, <1>8, <1>11 DEF DoneTrue
    <2>2. QED
      BY <1>8, <1>11, <1>12, <2>1 DEF DoneTrue, Keeps
  <1>16. CASE step' = step
    <2>1. /\ amount' = x /\ q.done = p.done /\ at' \in (at + 1)..StepLen(step)
          /\ \A k \in (at + 1)..(at' - 1) : SkipTable(step, k, q)
      BY <1>2, <1>5, <1>16
    <2>2. DoneTrue(q, us)
      BY <1>15, <2>1 DEF DoneTrue
    <2>3. PICK z : z = at'
      OBVIOUS
    <2>4. \A k \in 1..(z - 1) : Passed(step, k, q, x, us)
      <3>1. z \in (at + 1)..StepLen(step) /\ \A k \in (at + 1)..(z - 1) : SkipTable(step, k, q)
        BY <2>1, <2>3
      <3> TAKE k \in 1..(z - 1)
      <3>2. CASE k <= at
        <4>1. k \in 1..at
          BY <1>4, <3>1, <3>2
        <4>2. QED
          BY <1>9, <4>1
      <3>3. CASE ~(k <= at)
        <4>1. k \in (at + 1)..(z - 1) /\ k \in 1..StepLen(step)
          BY <1>2, <1>4, <3>1, <3>3
        <4>2. QED
          BY <1>10, <3>1, <4>1
      <3>4. QED
        BY <3>2, <3>3
    <2>5. QED
      BY <1>1, <1>14, <1>16, <2>1, <2>2, <2>3, <2>4
  <1>17. CASE step' # step
    <2>1. /\ step' = 0 /\ q.done = step
          /\ \A k \in (at + 1)..StepLen(step) : SkipTable(step, k, q)
      BY <1>5, <1>17
    <2>2. \A k \in 1..StepLen(step) : Passed(step, k, q, x, us)
      <3> TAKE k \in 1..StepLen(step)
      <3>1. CASE k <= at
        <4>1. k \in 1..at
          BY <1>4, <3>1
        <4>2. QED
          BY <1>9, <4>1
      <3>2. CASE ~(k <= at)
        <4>1. k \in (at + 1)..StepLen(step)
          BY <1>2, <1>4, <3>2
        <4>2. QED
          BY <1>10, <2>1, <4>1
      <3>3. QED
        BY <3>1, <3>2
    <2>3. step = 2 => "you" \in us["plain"].conf
      <3>1. SUFFICES ASSUME step = 2 PROVE "you" \in us["plain"].conf
        OBVIOUS
      <3>2. Passed(2, 2, q, x, us)
        BY <2>2, <3>1 DEF StepLen
      <3>3. QED
        BY <3>2 DEF Passed
    <2>4. step = 3 => DepositApplied(us["plain"])
      <3>1. SUFFICES ASSUME step = 3 PROVE DepositApplied(us["plain"])
        OBVIOUS
      <3>2. Passed(3, 2, q, x, us)
        BY <2>2, <3>1 DEF StepLen
      <3>3. QED
        BY <3>2 DEF Passed
    <2>5. step = 4 => "plain" \in q.sent /\ BobHolds(us["plain"])
      <3>1. SUFFICES ASSUME step = 4 PROVE "plain" \in q.sent /\ BobHolds(us["plain"])
        OBVIOUS
      <3>2. Passed(4, 3, q, x, us) /\ Passed(4, 4, q, x, us)
        BY <2>2, <3>1 DEF StepLen
      <3>3. QED
        BY <3>2 DEF Passed
    <2>6. step = 6 => BobGot(us["plain"])
      <3>1. SUFFICES ASSUME step = 6 PROVE BobGot(us["plain"])
        OBVIOUS
      <3>2. Passed(6, 2, q, x, us)
        BY <2>2, <3>1 DEF StepLen
      <3>3. QED
        BY <3>2 DEF Passed
    <2>7. step = 7 => q.stage = 8
      <3>1. SUFFICES ASSUME step = 7 PROVE q.stage = 8
        OBVIOUS
      <3>2. Passed(7, 9, q, x, us)
        BY <2>2, <3>1 DEF StepLen
      <3>3. q.stage >= 8
        BY <3>2 DEF Passed
      <3>4. QED
        BY <1>4, <3>3
    <2>8. step = 8 => q.applied
      <3>1. SUFFICES ASSUME step = 8 PROVE q.applied
        OBVIOUS
      <3>2. Passed(8, 5, q, x, us)
        BY <2>2, <3>1 DEF StepLen
      <3>3. QED
        BY <3>2 DEF Passed
    <2>9. /\ q.done >= 2 => p.done >= 2 \/ step = 2
          /\ q.done >= 3 => p.done >= 3 \/ step = 3
          /\ q.done >= 4 => p.done >= 4 \/ step = 4
          /\ q.done >= 6 => p.done >= 6 \/ step = 6
          /\ q.done >= 7 => p.done >= 7 \/ step = 7
          /\ q.done >= 8 => p.done >= 8 \/ step = 8
      BY <1>2, <1>4, <2>1
    <2>10. DoneTrue(q, us)
      BY <1>15, <2>3, <2>4, <2>5, <2>6, <2>7, <2>8, <2>9 DEF DoneTrue
    <2>11. QED
      BY <1>1, <1>14, <2>1, <2>10
  <1>18. QED
    BY <1>16, <1>17

\* A token that no call lands on keeps what it has.
LEMMA KeepsItself == \A t : Keeps(t, t)
  BY DEF Keeps

\* What was true of the progress stays true of it.
LEMMA TrueStays ==
    ASSUME NEW p, NEW ts, NEW us, \A m \in Tokens : Keeps(ts[m], us[m])
    PROVE  /\ NotesTrue(p, ts) => NotesTrue(p, us)
           /\ DoneTrue(p, ts) => DoneTrue(p, us)
  <1>1. Keeps(ts["plain"], us["plain"]) /\ Keeps(ts["rules"], us["rules"])
    BY DEF Tokens
  <1>2. QED
    BY <1>1 DEF Keeps, NotesTrue, DoneTrue

\* So do the calls that can still land.
LEMMA FineStays ==
    ASSUME NEW c, NEW ts, NEW us, Keeps(ts[c.token], us[c.token]), Fine(c, ts)
    PROVE  Fine(c, us)
  BY DEF Fine, Keeps

\* A call that lands, but for a new mint, leaves true what was true.
LEMMA LandsSaved ==
    ASSUME TypeInv, SavedParts, NEW c, Lands(c), Fine(c, tokens), c.op \notin {"mint", "payMallory"}
    PROVE  /\ \A m \in Tokens : Keeps(tokens[m], tokens'[m])
           /\ \A d \in inflight' : Fine(d, tokens')
           /\ \A m \in Tokens : Reached(tokens'[m])
           /\ tokens'["rules"].account["bob"].public = 0
  <1>1. /\ c.token \in Tokens
        /\ \A m \in Tokens \ {c.token} : tokens'[m] = tokens[m]
    BY LandsSets
  <1>2. /\ Keeps(tokens[c.token], tokens'[c.token])
        /\ c.op # "withdraw" => tokens'[c.token].account["bob"].public
                                = tokens[c.token].account["bob"].public
    BY LandsKeeps
  <1>3. \A m \in Tokens : Keeps(tokens[m], tokens'[m])
    <2> TAKE m \in Tokens
    <2>1. CASE m = c.token
      BY <1>2, <2>1
    <2>2. CASE m # c.token
      BY <1>1, <2>2, KeepsItself
    <2>3. QED
      BY <2>1, <2>2
  <1>4. \A d \in inflight' : Fine(d, tokens')
    <2> TAKE d \in inflight'
    <2>1. d \in inflight /\ d.token \in Tokens
      BY DEF Lands, TypeInv, ChainOK, GoodCall, CallRec
    <2>2. Fine(d, tokens)
      BY <2>1 DEF SavedParts
    <2>3. QED
      BY <1>3, <2>1, <2>2, FineStays
  <1>5. \A m \in Tokens : Reached(tokens'[m])
    BY <1>3 DEF SavedParts, Keeps
  <1>6. tokens'["rules"].account["bob"].public = 0
    <2>1. "rules" \in Tokens /\ tokens["rules"].account["bob"].public = 0
      BY DEF Tokens, SavedParts
    <2>2. c.op = "withdraw" => c.token # "rules"
      BY DEF Fine
    <2>3. CASE c.token = "rules"
      BY <1>2, <2>1, <2>2, <2>3
    <2>4. CASE c.token # "rules"
      BY <1>1, <2>1, <2>4
    <2>5. QED
      BY <2>3, <2>4
  <1>7. QED
    BY <1>3, <1>4, <1>5, <1>6

\* What a read that is answered, or a refusal that was waited for, leaves behind.
LEMMA ReportedPassed ==
    ASSUME TypeInv, NEW x, Notes(x), Reported, Op = "balance" => x >= 1
    PROVE  Passed(step, at, progress', x, tokens) /\ Noticed(step, at, tokens)
  <1>1. IsAt(Op, step, at) /\ step \in 1..8 /\ at \in 1..StepLen(step)
    BY TypesHold DEF Notes, Last
  <1>2. CASE Op = "balance"
    BY <1>1, <1>2 DEF Passed, Noticed, IsAt
  <1>3. CASE Op \in {"airdrop", "poll", "rent", "show", "closeProofs"}
    BY <1>1, <1>3 DEF Passed, Noticed, IsAt
  <1>4. CASE Op = "bobBalance"
    <2>1. step = 6 /\ at = 1
      BY <1>1, <1>4 DEF IsAt
    <2>2. tokens["plain"].account["bob"].shown > 0
      BY <1>4, <2>1 DEF Reported, TokenOf
    <2>3. tokens["plain"].account["bob"].shown \in Nat
      BY Balances DEF Tokens
    <2>4. BobSees(tokens["plain"])
      BY <2>2, <2>3 DEF BobSees
    <2>5. QED
      BY <2>1, <2>4 DEF Passed, Noticed
  <1>5. CASE Op = "payMallory"
    <2>1. step = 8 /\ at = 2
      BY <1>1, <1>5 DEF IsAt
    <2>2. progress'.refused
      BY <2>1, NotesIs
    <2>3. QED
      BY <2>1, <2>2 DEF Passed, Noticed
  <1>6. QED
    BY <1>2, <1>3, <1>4, <1>5 DEF Reported

\* What a call that landed leaves behind.
LEMMA CarriedPassed ==
    ASSUME TypeInv, SavedParts, Carried, Op # "mint"
    PROVE  Passed(step, at, progress', amount, tokens') /\ Noticed(step, at, tokens')
  <1> DEFINE u == tokens'[TokenOf(step)]
  <1>1. /\ Notes(amount) /\ busy /\ Lands(Call) /\ Op \notin Reads \cup {"airdrop", "payMallory"}
        /\ Fine(Call, tokens)
    BY CallFine DEF Carried, Notes
  <1>2. /\ IsAt(Op, step, at) /\ Call.op = Op /\ Call.token = TokenOf(step)
        /\ step \in 1..8 /\ at \in 1..StepLen(step)
    BY <1>1, TypesHold DEF Last
  <1>3. /\ Op = "apply" /\ DepositLanded(tokens[TokenOf(step)]) => DepositApplied(u)
        /\ Op = "deposit" => DepositLanded(u)
        /\ /\ Op = "bobApply" /\ Reached(tokens[TokenOf(step)]) /\ tokens[TokenOf(step)].bobPaid >= 1
           => BobHolds(u)
        /\ Op = "withdraw" => BobGot(u)
        /\ Op = "policy" => u.policy
        /\ Op = "pay" => u.bobPaid >= 1
        /\ Op \in {"confYou", "confBob", "confMallory"} => Configures(Op) \in u.conf
    BY <1>1, <1>2, LandsKeeps
  <1>4. \A k \in 1..(at - 1) : Passed(step, k, progress, amount, tokens)
    BY <1>1 DEF SavedParts
  <1>5. /\ progress'.stage = (IF step = 7 /\ at \in 2..9 THEN at - 1 ELSE progress.stage)
        /\ progress'.applied <=> progress.applied \/ (step = 8 /\ at = 5)
        /\ progress'.sent = IF step = 4 /\ at = 3 THEN progress.sent \cup {"plain"}
                            ELSE IF step = 8 /\ at = 4 THEN progress.sent \cup {"rules"}
                            ELSE progress.sent
    BY <1>1, NotesIs, SentNotes
  <1>6. Reached(tokens["plain"]) /\ Reached(tokens["rules"]) /\ NotesTrue(progress, tokens)
    BY DEF SavedParts, Tokens
  <1>7. step = 7 /\ at \in 2..9 => progress'.stage >= at - 1
    BY <1>2, <1>5
  <1>8. TokenOf(step) = IF step <= 6 THEN "plain" ELSE "rules"
    BY DEF TokenOf
  <1> HIDE DEF u
  <1>9. CASE Op \in {"confYou", "confBob", "confMallory"}
    BY <1>2, <1>3, <1>7, <1>8, <1>9 DEF IsAt, Passed, Noticed, Configures, u
  <1>10. CASE Op \in {"mintTo", "policy", "closeProofs"}
    BY <1>2, <1>3, <1>7, <1>8, <1>10 DEF IsAt, Passed, Noticed, u
  <1>11. CASE Op \in {"deposit", "withdraw"}
    BY <1>2, <1>3, <1>7, <1>8, <1>11 DEF IsAt, Passed, Noticed, u
  <1>12. CASE Op = "apply"
    <2>1. CASE step = 3 /\ at = 2
      <3>1. Passed(3, 1, progress, amount, tokens)
        BY <1>4, <2>1
      <3>2. DepositApplied(tokens'["plain"])
        BY <1>3, <1>8, <1>12, <2>1, <3>1 DEF Passed, u
      <3>3. QED
        BY <2>1, <3>2 DEF Passed, Noticed
    <2>2. CASE step = 7 /\ at = 9
      BY <1>7, <2>2 DEF Passed, Noticed
    <2>3. QED
      BY <1>2, <1>12, <2>1, <2>2 DEF IsAt
  <1>13. CASE Op = "pay"
    <2>1. CASE step = 4 /\ at = 3
      BY <1>3, <1>5, <1>8, <1>13, <2>1 DEF Passed, Noticed, u
    <2>2. CASE step = 8 /\ at = 4
      BY <1>3, <1>5, <1>8, <1>13, <2>2 DEF Passed, Noticed, u
    <2>3. QED
      BY <1>2, <1>13, <2>1, <2>2 DEF IsAt
  <1>14. CASE Op = "bobApply"
    <2>1. CASE step = 4 /\ at = 4
      <3>1. Passed(4, 3, progress, amount, tokens)
        BY <1>4, <2>1
      <3>2. tokens["plain"].bobPaid >= 1
        BY <1>6, <3>1 DEF Passed, NotesTrue
      <3>3. BobHolds(tokens'["plain"])
        BY <1>3, <1>6, <1>8, <1>14, <2>1, <3>2 DEF u
      <3>4. QED
        BY <2>1, <3>3 DEF Passed, Noticed
    <2>2. CASE step = 8 /\ at = 5
      <3>1. Passed(8, 4, progress, amount, tokens)
        BY <1>4, <2>2
      <3>2. tokens["rules"].bobPaid >= 1
        BY <1>6, <3>1 DEF Passed, NotesTrue
      <3>3. BobHolds(tokens'["rules"])
        BY <1>3, <1>6, <1>8, <1>14, <2>2, <3>2 DEF u
      <3>4. QED
        BY <1>5, <2>2, <3>3 DEF Passed, Noticed
    <2>3. QED
      BY <1>2, <1>14, <2>1, <2>2 DEF IsAt
  <1>15. QED
    <2>1. Op \in {"policy", "confYou", "confBob", "confMallory", "mintTo", "deposit", "apply", "pay",
                  "bobApply", "withdraw", "closeProofs"}
      BY <1>1, <1>2 DEF IsAt, Reads
    <2>2. QED
      BY <1>9, <1>10, <1>11, <1>12, <1>13, <1>14, <2>1

\* With a new mint nothing is noted that the old token stood for.
LEMMA MintSaved ==
    ASSUME TypeInv, SavedParts, Carried, Op = "mint"
    PROVE  SavedParts'
  <1> DEFINE m == TokenOf(step)
  <1>1. PICK q, us, z : q = progress' /\ us = tokens' /\ z = at'
    OBVIOUS
  <1>2. Notes(amount) /\ busy /\ Lands(Call)
    BY DEF Carried, Notes
  <1>3. /\ Call.op = "mint" /\ Call.token = m /\ m \in Tokens
        /\ (step = 2 /\ at = 1 /\ m = "plain") \/ (step = 7 /\ at = 2 /\ m = "rules")
    <2>1. Call.op = Op /\ Call.token = m /\ IsAt(Op, step, at)
      BY <1>2, TypesHold
    <2>2. QED
      BY <2>1 DEF IsAt, TokenOf, Tokens
  <1>4. us[m] = NewToken /\ \A n \in Tokens \ {m} : us[n] = tokens[n]
    <2>1. /\ \A n \in Tokens \ {Call.token} : tokens'[n] = tokens[n]
          /\ Effect(Call, tokens[Call.token], tokens'[Call.token])
      BY <1>2, LandsSets
    <2>2. tokens'[Call.token] = NewToken
      BY <1>3, <2>1 DEF Effect
    <2> HIDE DEF m
    <2>3. QED
      BY <1>1, <1>3, <2>1, <2>2
  <1>5. /\ step = progress.done + 1 /\ progress \in Progress /\ q \in Progress
        /\ ~SkipTable(step, at, progress)
        /\ q.bobMint => ~(step = 2 /\ at = 1) /\ progress.bobMint
        /\ q.stage = (IF step = 7 THEN 1 ELSE progress.stage)
        /\ (q.refused <=> progress.refused) /\ (q.applied <=> progress.applied)
        /\ q.sent = progress.sent
    BY <1>1, <1>2, <1>3, NotesIs, SentNotes
  <1>6. \/ /\ step' = step /\ amount' = amount /\ q.done = progress.done
           /\ z \in (at + 1)..StepLen(step)
           /\ \A k \in (at + 1)..(z - 1) : SkipTable(step, k, q)
        \/ step' = 0 /\ q.done = step /\ \A k \in (at + 1)..StepLen(step) : SkipTable(step, k, q)
    BY <1>1, <1>2, NotesIs
  <1>7. ~SkipTable(step, at + 1, q) /\ at + 1 \in (at + 1)..StepLen(step)
    <2>1. CASE step = 2 /\ at = 1
      BY <2>1 DEF SkipTable, StepLen
    <2>2. CASE step = 7 /\ at = 2
      BY <1>5, <2>2 DEF SkipTable, StepLen
    <2>3. QED
      BY <1>3, <2>1, <2>2
  <1>8. step' = step /\ amount' = amount /\ q.done = progress.done /\ z = at + 1
    <2>1. /\ step' = step /\ amount' = amount /\ q.done = progress.done
          /\ z \in (at + 1)..StepLen(step)
          /\ \A k \in (at + 1)..(z - 1) : SkipTable(step, k, q)
      BY <1>6, <1>7
    <2>2. at \in Nat
      BY <1>3
    <2>3. z = at + 1
      BY <1>7, <2>1, <2>2
    <2>4. QED
      BY <2>1, <2>3
  <1>9. \A k \in 1..(z - 1) : Passed(step, k, q, amount, us)
    <2> TAKE k \in 1..(z - 1)
    <2>1. k \in 1..at /\ at \in Nat
      <3>1. at \in Nat
        BY <1>3
      <3>2. z - 1 = at
        BY <1>8, <3>1
      <3>3. QED
        BY <3>1, <3>2
    <2>2. step = 7 => q.stage = 1
      BY <1>5
    <2>3. CASE step = 2 /\ at = 1
      BY <2>1, <2>3 DEF Passed
    <2>4. CASE step = 7 /\ at = 2
      BY <2>1, <2>2, <2>4 DEF Passed
    <2>5. QED
      BY <1>3, <2>3, <2>4
  <1>10. NotesTrue(progress, tokens) /\ DoneTrue(progress, tokens)
    BY DEF SavedParts
  <1>11. NotesTrue(q, us) /\ DoneTrue(q, us)
    <2>1. CASE step = 2
      <3>1. progress.done = 1 /\ us["rules"] = tokens["rules"]
        BY <1>3, <1>4, <1>5, <2>1 DEF Progress, Tokens
      <3>2. ~q.bobMint /\ "plain" \notin q.sent /\ q.stage = progress.stage /\ q.done = 1
        BY <1>3, <1>5, <1>8, <1>10, <2>1, <3>1 DEF NotesTrue
      <3>3. NotesTrue(q, us)
        BY <1>5, <1>10, <3>1, <3>2 DEF NotesTrue
      <3>4. DoneTrue(q, us)
        BY <3>2 DEF DoneTrue
      <3>5. QED
        BY <3>3, <3>4
    <2>2. CASE step = 7
      <3>1. us["plain"] = tokens["plain"] /\ q.stage = 1 /\ progress.done = 6
        BY <1>3, <1>4, <1>5, <2>2 DEF Progress, Tokens
      <3>2. progress.stage # 8
        BY <1>3, <1>5, <2>2 DEF SkipTable
      <3>3. ~q.refused /\ "rules" \notin q.sent /\ ~q.applied
        BY <1>5, <1>10, <3>2 DEF NotesTrue
      <3>4. NotesTrue(q, us)
        BY <1>3, <1>5, <1>8, <1>10, <2>2, <3>1, <3>3 DEF NotesTrue
      <3>5. DoneTrue(q, us)
        BY <1>5, <1>8, <1>10, <3>1 DEF DoneTrue
      <3>6. QED
        BY <3>4, <3>5
    <2>3. QED
      BY <1>3, <2>1, <2>2
  <1>12. \A d \in inflight' : Fine(d, us)
    <2> TAKE d \in inflight'
    <2>1. d \in inflight /\ d.token # m /\ d.token \in Tokens
      BY <1>2, <1>3 DEF Lands, TypeInv, ChainOK, GoodCall, CallRec
    <2>2. Fine(d, tokens) /\ us[d.token] = tokens[d.token]
      BY <1>4, <2>1 DEF SavedParts
    <2>3. QED
      BY <2>2 DEF Fine
  <1>13. Reached(NewToken) /\ NewToken.account["bob"].public = 0
    BY DEF Reached, NewToken, NoMoney
  <1>14. \A n \in Tokens : Reached(us[n])
    BY <1>4, <1>13 DEF SavedParts
  <1>15. us["rules"].account["bob"].public = 0
    BY <1>4, <1>13 DEF SavedParts, Tokens
  <1>16. QED
    BY <1>1, <1>8, <1>9, <1>11, <1>12, <1>14, <1>15 DEF SavedParts

\* The invariant is inductive, with the types and with Mallory out of reach.
LEMMA SavedKeeps == TypeInv /\ MalloryInv /\ SavedInv /\ Recorded /\ StepKind => SavedInv'
  <1> SUFFICES ASSUME TypeInv, MalloryInv, SavedInv, Recorded, StepKind, ~overtaken'
               PROVE  SavedParts'
    BY DEF SavedInv
  <1>0. SavedParts /\ progress \in Progress
    BY DEF SavedInv, Recorded, TypeInv, ControlOK
  <1>1. CASE Pauses
    BY <1>0, <1>1 DEF Pauses, ChainKept, SavedParts, busy
  <1>2. CASE Opens
    <2>1. PICK n, z : n = step' /\ z = at'
      OBVIOUS
    <2>2. n \in 1..8 /\ \A k \in 1..(z - 1) : SkipTable(n, k, progress)
      BY <1>2, <2>1 DEF Opens, Last
    <2>3. \A k \in 1..(z - 1) : Passed(n, k, progress, amount', tokens)
      BY <2>2, SkippedPassed
    <2>4. QED
      BY <1>0, <1>2, <2>1, <2>3 DEF Opens, ChainKept, SavedParts
  <1>3. CASE Reported
    <2>1. PICK x : Notes(x) /\ (Op = "balance" => x >= 1) /\ (Op # "balance" => x = amount)
      BY <1>3 DEF Reported
    <2>2. at > 1 => Op # "balance"
      <3>1. IsAt(Op, step, at)
        BY <2>1, TypesHold DEF Notes
      <3>2. QED
        BY <3>1 DEF IsAt
    <2>3. tokens' = tokens /\ inflight' = inflight
      BY <1>3 DEF Reported, ChainKept
    <2>4. \A m \in Tokens : Keeps(tokens[m], tokens'[m])
      BY <2>3, KeepsItself
    <2>5. Passed(step, at, progress', x, tokens') /\ Noticed(step, at, tokens')
      BY <1>3, <2>1, <2>3, ReportedPassed
    <2>6. /\ step' # 0 => \A k \in 1..(at' - 1) : Passed(step', k, progress', amount', tokens')
          /\ NotesTrue(progress', tokens') /\ DoneTrue(progress', tokens')
      BY <1>0, <2>1, <2>2, <2>4, <2>5, NotesSaved
    <2>7. QED
      BY <1>0, <2>3, <2>6 DEF SavedParts, busy
  <1>4. CASE Carried /\ Op = "mint"
    BY <1>0, <1>4, MintSaved
  <1>5. CASE Carried /\ Op # "mint"
    <2>1. Notes(amount) /\ busy /\ Lands(Call) /\ Call.op = Op /\ Op # "payMallory"
      BY <1>5, TypesHold DEF Carried, Notes
    <2>2. Fine(Call, tokens)
      BY <1>0, <2>1, CallFine
    <2>3. /\ \A m \in Tokens : Keeps(tokens[m], tokens'[m])
          /\ \A d \in inflight' : Fine(d, tokens')
          /\ \A m \in Tokens : Reached(tokens'[m])
          /\ tokens'["rules"].account["bob"].public = 0
      BY <1>0, <1>5, <2>1, <2>2, LandsSaved
    <2>4. Passed(step, at, progress', amount, tokens') /\ Noticed(step, at, tokens')
      BY <1>0, <1>5, CarriedPassed
    <2>5. /\ step' # 0 => \A k \in 1..(at' - 1) : Passed(step', k, progress', amount', tokens')
          /\ NotesTrue(progress', tokens') /\ DoneTrue(progress', tokens')
      BY <1>0, <2>1, <2>3, <2>4, NotesSaved
    <2>6. QED
      BY <2>3, <2>5 DEF SavedParts, busy
  <1>6. ASSUME NEW c, Lands(c) PROVE c.op # "payMallory"
    <2>1. c.op = "payMallory" => "mallory" \in tokens[c.token].conf /\ ~tokens[c.token].policy
      BY <1>6, NeedsOf DEF Lands
    <2>2. c.token \in Tokens
      BY <1>6, LandsSets
    <2>3. QED
      BY <2>1, <2>2 DEF MalloryInv
  <1>7. CASE Unseen
    <2>1. busy /\ progress' = progress /\ step' = 0 /\ Call.op = Op /\ Op # "mint"
      BY <1>7, TypesHold DEF Unseen, Matters
    <2>2. Fine(Call, tokens)
      BY <1>0, <2>1, CallFine
    <2>3. CASE Lands(Call)
      <3>1. Call.op \notin {"mint", "payMallory"}
        BY <1>6, <2>1, <2>3
      <3>2. /\ \A m \in Tokens : Keeps(tokens[m], tokens'[m])
            /\ \A d \in inflight' : Fine(d, tokens')
            /\ \A m \in Tokens : Reached(tokens'[m])
            /\ tokens'["rules"].account["bob"].public = 0
        BY <1>0, <2>2, <2>3, <3>1, LandsSaved
      <3>3. NotesTrue(progress, tokens') /\ DoneTrue(progress, tokens')
        BY <1>0, <3>2, TrueStays DEF SavedParts
      <3>4. QED
        BY <2>1, <3>2, <3>3 DEF SavedParts, busy
    <2>4. CASE tokens' = tokens /\ inflight' = inflight \cup {Call}
      BY <1>0, <2>1, <2>2, <2>4 DEF SavedParts, busy
    <2>5. QED
      BY <1>7, <2>3, <2>4 DEF Unseen
  <1>8. ASSUME NEW c \in inflight, Late(c)
        PROVE  SavedParts'
    <2>1. /\ Lands(c) /\ progress' = progress /\ step' = step /\ at' = at /\ amount' = amount
          /\ c.op # "mint"
      BY <1>8 DEF Late, Matters
    <2>2. Fine(c, tokens) /\ c.op \notin {"mint", "payMallory"}
      BY <1>0, <1>6, <2>1 DEF SavedParts
    <2>3. /\ \A m \in Tokens : Keeps(tokens[m], tokens'[m])
          /\ \A d \in inflight' : Fine(d, tokens')
          /\ \A m \in Tokens : Reached(tokens'[m])
          /\ tokens'["rules"].account["bob"].public = 0
      BY <1>0, <2>1, <2>2, LandsSaved
    <2>4. NotesTrue(progress, tokens') /\ DoneTrue(progress, tokens')
      BY <1>0, <2>3, TrueStays DEF SavedParts
    <2>5. ASSUME busy PROVE \A k \in 1..(at - 1) : Passed(step, k, progress, amount, tokens')
      <3> TAKE k \in 1..(at - 1)
      <3>1. Passed(step, k, progress, amount, tokens)
        BY <1>0, <2>5 DEF SavedParts
      <3>2. Keeps(tokens["plain"], tokens'["plain"]) /\ progress.stage <= progress.stage
        BY <1>0, <2>3 DEF Tokens, Progress
      <3>3. QED
        BY <1>0, <3>1, <3>2, PassedStays
    <2>6. QED
      BY <2>1, <2>3, <2>4, <2>5 DEF SavedParts, busy
  <1>9. CASE Anew
    <2>1. /\ \A m \in Tokens : tokens'[m] = NewToken
          /\ inflight' = {} /\ step' = 0 /\ "rules" \in Tokens
          /\ progress' \in {Fresh, [Fresh EXCEPT !.done = 1]}
      BY <1>9 DEF Anew, Tokens
    <2>2. Reached(NewToken) /\ NewToken.account["bob"].public = 0
      BY DEF Reached, NewToken, NoMoney
    <2>3. NotesTrue(progress', tokens') /\ DoneTrue(progress', tokens')
      BY <2>1 DEF NotesTrue, DoneTrue, Fresh
    <2>4. QED
      BY <2>1, <2>2, <2>3 DEF SavedParts, busy
  <1>10. CASE Forgets
    <2>1. progress' = Fresh /\ step' = 0 /\ tokens' = tokens /\ inflight' = inflight
      BY <1>10 DEF Forgets, ChainKept
    <2>2. NotesTrue(progress', tokens') /\ DoneTrue(progress', tokens')
      BY <2>1 DEF NotesTrue, DoneTrue, Fresh
    <2>3. QED
      BY <1>0, <2>1, <2>2 DEF SavedParts, busy
  <1>11. CASE Counted
    <2>1. /\ progress' = [progress EXCEPT !.done = 1] /\ step' = 0
          /\ tokens' = tokens /\ inflight' = inflight /\ ~(progress.done > 1)
      BY <1>11 DEF Counted, ChainKept
    <2>2. progress.done \in 0..8
      BY <1>0 DEF Progress, Last
    <2>3. NotesTrue(progress, tokens) /\ ~(progress.done >= 3)
      BY <1>0, <2>1, <2>2 DEF SavedParts
    <2>4. /\ progress'.done = 1 /\ progress'.bobMint = progress.bobMint
          /\ progress'.sent = progress.sent /\ progress'.stage = progress.stage
          /\ progress'.refused = progress.refused /\ progress'.applied = progress.applied
      BY <1>0, <2>1 DEF Progress
    <2>5. NotesTrue(progress', tokens) /\ DoneTrue(progress', tokens)
      BY <2>3, <2>4 DEF NotesTrue, DoneTrue
    <2>6. QED
      BY <1>0, <2>1, <2>5 DEF SavedParts, busy
  <1>12. QED
    BY <1>1, <1>2, <1>3, <1>4, <1>5, <1>7, <1>8, <1>9, <1>10, <1>11 DEF StepKind

\* What the page counts as done is done on chain, also after calls that failed, were lost or
\* landed late, unless watchFunding wrote over the progress; and what is saved is all of it.
THEOREM SavedIsOnChainHolds == Spec => []SavedIsOnChain
  <1>1. Init => SavedInv /\ MalloryInv
    <2> SUFFICES ASSUME Init PROVE SavedInv /\ MalloryInv
      OBVIOUS
    <2>1. \A m \in Tokens : tokens[m] = NewToken
      BY DEF Init
    <2>2. inflight = {} /\ step = 0 /\ progress = Fresh /\ "rules" \in Tokens
      BY DEF Init, Tokens
    <2>3. Reached(NewToken) /\ NewToken.account["bob"].public = 0
      BY DEF Reached, NewToken, NoMoney
    <2>4. NotesTrue(progress, tokens) /\ DoneTrue(progress, tokens)
      BY <2>2 DEF NotesTrue, DoneTrue, Fresh
    <2>5. SavedInv
      BY <2>1, <2>2, <2>3, <2>4 DEF SavedInv, SavedParts, busy
    <2>6. \A m \in Tokens : tokens[m].conf = {} /\ tokens[m].malloryPaid = FALSE
      BY <2>1 DEF NewToken
    <2>7. QED
      BY <2>2, <2>5, <2>6 DEF MalloryInv, MalloryNeverPaid, Fresh
  <1>2. TypeInv /\ MalloryInv /\ SavedInv /\ [Next]_vars => MalloryInv' /\ SavedInv'
    BY KindOfStep, MalloryKeeps, SavedKeeps
  <1>3. TypeInv /\ SavedInv => SavedIsOnChain
    <2> SUFFICES ASSUME TypeInv, SavedInv PROVE SavedIsOnChain
      OBVIOUS
    <2>1. TypeOK /\ stored \subseteq {progress}
      BY TypesHold
    <2>2. ASSUME ~overtaken PROVE OnChain(progress)
      <3> DEFINE p == progress
                 plain == tokens["plain"]
                 rules == tokens["rules"]
      <3>1. NotesTrue(p, tokens) /\ DoneTrue(p, tokens)
        BY <2>2 DEF SavedInv, SavedParts
      <3>2. rules.account["bob"].public = 0 /\ rules.account["bob"].available \in Nat
        BY <2>2, Balances DEF SavedInv, SavedParts, Tokens
      <3>3. rules.conf \subseteq People /\ p.stage \in Nat /\ p.done \in 0..8
        BY DEF TypeInv, ChainOK, ControlOK, Token, Tokens, Progress, Last
      <3> HIDE DEF p, rules
      <3>4. p.stage >= 5 => rules.conf = People
        BY <3>1, <3>3 DEF NotesTrue, People, rules
      <3>5. p.done = Last => p.applied /\ rules.account["bob"].available >= 1
        BY <3>1, <3>2, <3>3 DEF NotesTrue, DoneTrue, BobHolds, Last, rules
      <3>6. QED
        BY <3>1, <3>4, <3>5
           DEF OnChain, NotesTrue, DoneTrue, DepositApplied, BobHolds, BobGot, p, rules
    <2>3. QED
      BY <2>1, <2>2 DEF SavedIsOnChain
  <1>4. QED
    BY <1>1, <1>2, <1>3, TypeCorrect, PTL DEF Spec
=============================================================================
