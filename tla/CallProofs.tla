----------------------------- MODULE CallProofs -----------------------------
(***************************************************************************)
(* Proofs about the two calls that stand alone: signing several            *)
(* transactions together, for every set of transactions, any number of     *)
(* signers and any number of changes (what the call returns can be sent,   *)
(* and it fails only for a reason a signer gave it), and the auditor's     *)
(* report, for every history, every input and every size of a page (what   *)
(* it lists is what was wanted, once and in order).                        *)
(***************************************************************************)
EXTENDS SignTogether, AuditorReport, TLAPS, SequenceTheorems, FiniteSetTheorems

-----------------------------------------------------------------------------
(* Signing together: the inductive invariant.                              *)

HasSigned(s, t) == \E x \in signatures[t] : x[1] = s

\* Whoever is asked was given the transactions as they are, and only keypairs
\* are asked several at a time.
AskedInv ==
    /\ \A s \in asked : handed[s] = body
    /\ stage = "modifying" => \A r, s \in asked : r = s

\* By the time the keypairs answer, every wallet has answered.
StageInv ==
    stage = "partial" =>
        ModifyingSigners \subseteq answered /\ PartialSigners \subseteq asked \cup answered

\* While no wallet has changed what another one signed, each one that has
\* answered has signed all it had to sign, and every signature is of the message
\* its transaction has.
SignedInv ==
    overwrote \/ /\ \A s \in answered, t \in Txs : s \in signersByTx[t] => HasSigned(s, t)
                 /\ \A t \in Txs : \A x \in signatures[t] : x[2] = body[t]

\* What was decided was decided for a reason.
EndInv ==
    /\ stage = "returned" => lifetime = Txs /\ \A t \in Txs : FullySigned(t)
    /\ FailsForAReason

SignInv == TypeOK /\ AskedInv /\ StageInv /\ SignedInv /\ EndInv

-----------------------------------------------------------------------------
(* Who signs how.                                                          *)

\* Whoever can do more than send signs as a wallet or as a keypair.
LEMMA EveryoneIsAsked ==
    ASSUME TypeOK, NEW s \in Signers, kind[s] # "neither"
    PROVE  s \in ModifyingSigners \cup PartialSigners
  <1>1. kind[s] \in {"modifying", "partial", "both"}
    BY DEF TypeOK, Kinds
  <1>2. CASE kind[s] = "modifying"
    BY <1>2 DEF ModifyingSigners, ModifyingOnly, Modifying
  <1>3. CASE kind[s] \in {"partial", "both"}
    BY <1>3 DEF PartialSigners
  <1>4. QED
    BY <1>1, <1>2, <1>3

\* The signers' parts in the call do not change.
LEMMA PartsStay ==
    ASSUME UNCHANGED kind
    PROVE  ModifyingSigners' = ModifyingSigners /\ PartialSigners' = PartialSigners
  BY DEF ModifyingSigners, ModifyingOnly, Modifying, PartialSigners

LEMMA PartsType == ModifyingSigners \subseteq Signers /\ PartialSigners \subseteq Signers
  BY DEF ModifyingSigners, ModifyingOnly, Modifying, PartialSigners

-----------------------------------------------------------------------------
(* The invariant.                                                          *)

LEMMA SignInvInit == Init => SignInv
  <1> SUFFICES ASSUME Init PROVE SignInv
    OBVIOUS
  <1>1. 0 \in Versions
    BY SignersAssumption DEF Versions
  <1>2. TypeOK
    BY <1>1, PartsType DEF Init, TypeOK
  <1>3. QED
    BY <1>2 DEF Init, SignInv, AskedInv, StageInv, SignedInv, EndInv, FailsForAReason

\* A wallet is asked when no one else is.
LEMMA AskWalletKeeps ==
    ASSUME SignInv, NEW s \in Signers, AskWallet(s)
    PROVE  SignInv'
  <1>1. TypeOK /\ s \notin answered /\ asked = {} /\ stage = "modifying"
    BY DEF SignInv, AskWallet
  <1>2. TypeOK'
    BY <1>1, PartsStay DEF TypeOK, AskWallet, txVars
  <1>3. AskedInv'
    BY <1>1 DEF AskedInv, AskWallet, TypeOK, txVars
  <1>4. StageInv' /\ SignedInv' /\ EndInv'
    BY <1>1 DEF SignInv, StageInv, SignedInv, EndInv, FailsForAReason, HasSigned, AskWallet, txVars
  <1>5. QED
    BY <1>2, <1>3, <1>4 DEF SignInv

\* A wallet's answer: the message it did not change is the one it was given,
\* which is the one the transaction had.
LEMMA WalletSignsKeeps ==
    ASSUME SignInv, NEW s \in Signers, WalletSigns(s)
    PROVE  SignInv'
  <1>1. /\ TypeOK /\ stage = "modifying" /\ s \in asked /\ handed[s] = body /\ asked' = {}
        /\ answered' = answered \cup {s}
        /\ UNCHANGED <<kind, signersByTx, stage, handed, refused>>
    BY DEF SignInv, AskedInv, WalletSigns
  <1>2. PICK changed \in SUBSET {t \in Needs(s) : handed[s][t] < MaxBody},
             kept \in BOOLEAN, dropped \in SUBSET Needs(s) :
          /\ body' = [t \in Txs |-> IF t \in Needs(s)
                                    THEN IF t \in changed THEN handed[s][t] + 1 ELSE handed[s][t]
                                    ELSE body[t]]
          /\ signatures' = [t \in Txs |->
                IF t \notin Needs(s) THEN signatures[t]
                ELSE {<<s, IF t \in changed THEN handed[s][t] + 1 ELSE handed[s][t]>>}
                     \cup (IF t \in changed /\ ~kept THEN {} ELSE signatures[t])]
          /\ lifetime' = lifetime \ dropped
          /\ overwrote' = (overwrote \/ \E t \in changed : signatures[t] # {})
    BY DEF WalletSigns
  <1>3. \A t \in Txs : /\ handed[s][t] = body[t] /\ body[t] \in Versions
                       /\ signatures[t] \in SUBSET (Signers \X Versions)
    BY <1>1 DEF TypeOK
  <1>4. \A t \in changed : t \in Txs /\ t \in Needs(s) /\ body[t] + 1 \in Versions
    BY <1>2, <1>3, SignersAssumption DEF Needs, Versions
  <1>5. \A t \in Txs : body'[t] = IF t \in changed THEN body[t] + 1 ELSE body[t]
    BY <1>2, <1>3, <1>4
  <1>6. \A t \in Txs : signatures'[t] =
            IF t \notin Needs(s) THEN signatures[t]
            ELSE {<<s, body'[t]>>} \cup (IF t \in changed /\ ~kept THEN {} ELSE signatures[t])
    BY <1>2, <1>3, <1>5
  <1>7. \A t \in Txs : body'[t] \in Versions
    BY <1>3, <1>4, <1>5
  <1>8. TypeOK'
    <2>1. body' \in [Txs -> Versions]
      BY <1>2, <1>7
    <2>2. \A t \in Txs : signatures'[t] \in SUBSET (Signers \X Versions)
      <3> SUFFICES ASSUME NEW t \in Txs, NEW x \in signatures'[t]
                   PROVE  x \in Signers \X Versions
        OBVIOUS
      <3>1. x \in signatures[t] \/ x = <<s, body'[t]>>
        BY <1>6
      <3>2. QED
        BY <1>3, <1>7, <3>1
    <2>3. signatures' \in [Txs -> SUBSET (Signers \X Versions)]
      BY <1>2, <2>2
    <2>4. overwrote' \in BOOLEAN
      BY <1>2
    <2>5. lifetime' \subseteq Txs /\ answered' \subseteq Signers
      BY <1>1, <1>2 DEF TypeOK
    <2>6. QED
      BY <1>1, <2>1, <2>3, <2>4, <2>5, PartsStay DEF TypeOK
  <1>9. SignedInv'
    <2> SUFFICES ASSUME ~overwrote'
                 PROVE  /\ \A r \in answered', t \in Txs : r \in signersByTx[t] => HasSigned(r, t)'
                        /\ \A t \in Txs : \A x \in signatures'[t] : x[2] = body'[t]
      BY <1>1 DEF SignedInv
    <2>1. /\ \A r \in answered, t \in Txs : r \in signersByTx[t] => HasSigned(r, t)
          /\ \A t \in Txs : \A x \in signatures[t] : x[2] = body[t]
          /\ \A t \in changed : signatures[t] = {}
      BY <1>2 DEF SignInv, SignedInv
    <2>2. \A t \in Txs : signatures[t] \subseteq signatures'[t]
      BY <1>6, <2>1
    <2>3. \A t \in Txs : s \in signersByTx[t] => HasSigned(s, t)'
      <3> SUFFICES ASSUME NEW t \in Txs, s \in signersByTx[t]
                   PROVE  \E x \in signatures'[t] : x[1] = s
        BY DEF HasSigned
      <3>1. <<s, body'[t]>> \in signatures'[t]
        BY <1>6 DEF Needs
      <3>2. QED
        BY <3>1
    <2>4. ASSUME NEW t \in Txs, NEW x \in signatures'[t]
          PROVE  x[2] = body'[t]
      <3>1. CASE t \in changed
        <4>1. signatures[t] = {} /\ t \in Needs(s)
          BY <1>4, <2>1, <3>1
        <4>2. x = <<s, body'[t]>>
          BY <1>6, <4>1
        <4>3. QED
          BY <4>2
      <3>2. CASE t \notin changed
        <4>1. body'[t] = body[t] /\ (x \in signatures[t] \/ x = <<s, body'[t]>>)
          BY <1>5, <1>6, <3>2
        <4>2. QED
          BY <2>1, <4>1
      <3>3. QED
        BY <3>1, <3>2
    <2>5. QED
      BY <1>1, <2>1, <2>2, <2>3, <2>4 DEF HasSigned
  <1>10. AskedInv' /\ StageInv' /\ EndInv'
    BY <1>1 DEF AskedInv, StageInv, EndInv, FailsForAReason
  <1>11. QED
    BY <1>8, <1>9, <1>10 DEF SignInv

\* The keypairs are asked once every wallet has answered.
LEMMA AskPartialKeeps ==
    ASSUME SignInv, AskPartial
    PROVE  SignInv'
  <1>1. TypeOK'
    BY PartsStay, PartsType DEF SignInv, TypeOK, AskPartial, txVars
  <1>2. AskedInv'
    BY PartsType DEF SignInv, TypeOK, AskedInv, AskPartial, txVars
  <1>3. StageInv'
    BY PartsStay DEF StageInv, AskPartial
  <1>4. SignedInv' /\ EndInv'
    BY DEF SignInv, SignedInv, EndInv, FailsForAReason, HasSigned, AskPartial, txVars
  <1>5. QED
    BY <1>1, <1>2, <1>3, <1>4 DEF SignInv

\* A keypair's answer is added to what the others answered meanwhile.
LEMMA PartialSignsKeeps ==
    ASSUME SignInv, NEW s \in Signers, PartialSigns(s)
    PROVE  SignInv'
  <1>1. /\ TypeOK /\ stage = "partial" /\ s \in asked /\ handed[s] = body
        /\ asked' = asked \ {s} /\ answered' = answered \cup {s}
        /\ UNCHANGED <<kind, signersByTx, body, lifetime, stage, handed, refused, overwrote>>
    BY DEF SignInv, AskedInv, PartialSigns
  <1>2. \A t \in Txs : signatures'[t] =
            IF s \in signersByTx[t] THEN signatures[t] \cup {<<s, body[t]>>} ELSE signatures[t]
    BY <1>1 DEF PartialSigns, Needs
  <1>3. TypeOK'
    <2>1. \A t \in Txs : signatures'[t] \in SUBSET (Signers \X Versions)
      <3> SUFFICES ASSUME NEW t \in Txs, NEW x \in signatures'[t]
                   PROVE  x \in Signers \X Versions
        OBVIOUS
      <3>1. x \in signatures[t] \/ x = <<s, body[t]>>
        BY <1>2
      <3>2. signatures[t] \in SUBSET (Signers \X Versions) /\ body[t] \in Versions
        BY <1>1 DEF TypeOK
      <3>3. QED
        BY <3>1, <3>2
    <2>2. signatures' \in [Txs -> SUBSET (Signers \X Versions)]
      BY <2>1 DEF PartialSigns
    <2>3. QED
      BY <1>1, <2>2, PartsStay DEF TypeOK
  <1>4. \A t \in Txs : s \in signersByTx[t] => HasSigned(s, t)'
    <2> SUFFICES ASSUME NEW t \in Txs, s \in signersByTx[t]
                 PROVE  \E x \in signatures'[t] : x[1] = s
      BY DEF HasSigned
    <2>1. <<s, body[t]>> \in signatures'[t]
      BY <1>2
    <2>2. QED
      BY <2>1
  <1>5. SignedInv'
    <2> SUFFICES ASSUME ~overwrote
                 PROVE  /\ \A r \in answered', t \in Txs : r \in signersByTx[t] => HasSigned(r, t)'
                        /\ \A t \in Txs : \A x \in signatures'[t] : x[2] = body[t]
      BY <1>1 DEF SignedInv
    <2>1. /\ \A r \in answered, t \in Txs : r \in signersByTx[t] => HasSigned(r, t)
          /\ \A t \in Txs : \A x \in signatures[t] : x[2] = body[t]
      BY DEF SignInv, SignedInv
    <2>2. \A t \in Txs : signatures[t] \subseteq signatures'[t]
      BY <1>2
    <2>3. \A t \in Txs : \A x \in signatures'[t] : x \in signatures[t] \/ x = <<s, body[t]>>
      BY <1>2
    <2>4. QED
      BY <1>1, <1>4, <2>1, <2>2, <2>3 DEF HasSigned
  <1>6. AskedInv' /\ StageInv' /\ EndInv'
    BY <1>1, PartsStay DEF SignInv, AskedInv, StageInv, EndInv, FailsForAReason
  <1>7. QED
    BY <1>3, <1>5, <1>6 DEF SignInv

LEMMA RefusesKeeps ==
    ASSUME SignInv, NEW s \in Signers, Refuses(s)
    PROVE  SignInv'
  <1>1. TypeOK'
    BY PartsStay DEF SignInv, TypeOK, Refuses, txVars
  <1>2. AskedInv' /\ StageInv' /\ SignedInv' /\ EndInv'
    BY DEF SignInv, AskedInv, StageInv, SignedInv, EndInv, FailsForAReason, HasSigned, Refuses, txVars
  <1>3. QED
    BY <1>1, <1>2 DEF SignInv

\* With every answer in, a signature is missing only for a reason.
LEMMA ReturnKeeps ==
    ASSUME SignInv, Return
    PROVE  SignInv'
  <1>1. TypeOK /\ TypeOK'
    BY PartsStay DEF SignInv, TypeOK, Return
  <1>2. AskedInv' /\ StageInv' /\ SignedInv'
    BY DEF SignInv, AskedInv, StageInv, SignedInv, HasSigned, Return
  <1>3. ASSUME NEW t \in Txs, ~FullySigned(t), ~overwrote
        PROVE  \E s \in Signers : kind[s] = "neither"
    <2>1. PICK s \in signersByTx[t] : ~HasSigned(s, t)
      BY <1>3 DEF FullySigned, HasSigned
    <2>2. s \in Signers
      BY <1>1 DEF TypeOK
    <2>3. s \notin answered
      BY <1>3, <2>1 DEF SignInv, SignedInv
    <2>4. s \notin ModifyingSigners \cup PartialSigners
      BY <2>3 DEF SignInv, StageInv, Return
    <2>5. QED
      BY <1>1, <2>2, <2>4, EveryoneIsAsked
  <1>4. CASE \A t \in Txs : FullySigned(t)
    <2>1. stage' = "returned" /\ lifetime' = Txs /\ UNCHANGED <<signersByTx, signatures>>
      BY <1>4 DEF Return
    <2>2. \A t \in Txs : FullySigned(t)'
      BY <1>4, <2>1 DEF FullySigned
    <2>3. EndInv'
      BY <2>1, <2>2 DEF EndInv, FailsForAReason
    <2>4. QED
      BY <1>1, <1>2, <2>3 DEF SignInv
  <1>5. CASE \E t \in Txs : ~FullySigned(t)
    <2>1. stage' = "failed" /\ UNCHANGED <<kind, overwrote>>
      BY <1>5 DEF Return
    <2>2. EndInv'
      BY <1>1, <1>3, <1>5, <2>1 DEF EndInv, FailsForAReason, TypeOK
    <2>3. QED
      BY <1>1, <1>2, <2>2 DEF SignInv
  <1>6. QED
    BY <1>4, <1>5

LEMMA SignInvStep == SignInv /\ [Next]_vars => SignInv'
  <1> SUFFICES ASSUME SignInv, [Next]_vars PROVE SignInv'
    OBVIOUS
  <1>1. CASE UNCHANGED vars
    BY <1>1, PartsStay
       DEF vars, txVars, callVars, SignInv, TypeOK, AskedInv, StageInv, SignedInv, EndInv,
           FailsForAReason, FullySigned, HasSigned
  <1>2. QED
    BY <1>1, AskWalletKeeps, WalletSignsKeeps, PartialSignsKeeps, RefusesKeeps,
       AskPartialKeeps, ReturnKeeps DEF Next

LEMMA SignInvAlways == Spec => []SignInv
  BY SignInvInit, SignInvStep, PTL DEF Spec

-----------------------------------------------------------------------------
(* The theorems.                                                           *)

\* signTransactionMessagesTogether: whatever the wallets change and in whatever
\* order the keypairs answer, each transaction it returns has a lifetime and all
\* its signatures, each of the message it has, unless a wallet changed what
\* another one had signed.
THEOREM ReturnedCanBeSentHolds == Spec => []ReturnedCanBeSent
  <1>1. SignInv => ReturnedCanBeSent
    BY DEF SignInv, EndInv, SignedInv, ReturnedCanBeSent
  <1>2. QED
    BY <1>1, SignInvAlways, PTL

\* signTransactionMessagesTogether: no answer is lost.  When the call fails, a
\* signer refused, one can do nothing but send, or a wallet changed what another
\* one had signed.
THEOREM FailsForAReasonHolds == Spec => []FailsForAReason
  <1>1. SignInv => FailsForAReason
    BY DEF SignInv, EndInv
  <1>2. QED
    BY <1>1, SignInvAlways, PTL

-----------------------------------------------------------------------------
(* Sequences.                                                              *)

LEMMA Least ==
    ASSUME NEW T \in SUBSET Nat, T # {}
    PROVE  \E x \in T : \A y \in T : x <= y
  <1> DEFINE R == OpToRel(<, Nat)
  <1>1. IsWellFoundedOn(R, Nat)
    BY NatLessThanWellFounded
  <1> HIDE DEF R
  <1>2. PICK x \in T : \A y \in T : ~(<<y, x>> \in R)
    BY <1>1, WFMin
  <1>3. \A a, b \in Nat : a < b => <<a, b>> \in R
    BY DEF R, OpToRel
  <1>4. \A y \in T : x \in Nat /\ y \in Nat /\ ~(y < x)
    BY <1>2, <1>3
  <1>5. QED
    BY <1>4

\* Induction over an interval; the set stands for what is to be shown.
LEMMA OverInterval ==
    ASSUME NEW n \in Nat, NEW T \in SUBSET (0..n), 0 \in T,
           \A k \in 0..(n - 1) : k \in T => k + 1 \in T
    PROVE  T = 0..n
  <1> DEFINE U == (0..n) \ T
  <1>1. SUFFICES ASSUME U # {} PROVE FALSE
    OBVIOUS
  <1>2. U \in SUBSET Nat
    OBVIOUS
  <1>3. PICK x \in U : \A y \in U : x <= y
    <2> HIDE DEF U
    <2>1. QED
      BY <1>1, <1>2, Least
  <1>4. x \in Nat /\ x - 1 \in 0..(n - 1)
    BY <1>3
  <1>5. x - 1 \notin U
    BY <1>3, <1>4
  <1>6. (x - 1) + 1 \in T
    BY <1>4, <1>5
  <1>7. QED
    BY <1>3, <1>4, <1>6

\* F is what FlattenSeq has appended after each of the n sequences of g.
Appended(F, n, g) ==
    F[0] = << >> /\ (\A i \in 1..n : F[i] = F[i - 1] \o g[i]) /\ FlattenSeq(g) = F[n]

\* FlattenSeq: what it has appended after each of the sequences.
LEMMA FlattenIs ==
    ASSUME NEW S, NEW n \in Nat, NEW g \in [1..n -> Seq(S)]
    PROVE  \E F \in [0..n -> Seq(S)] : Appended(F, n, g)
  <1> DEFINE Upto(k, F) == /\ F \in [0..k -> Seq(S)] /\ F[0] = << >>
                           /\ \A i \in 1..k : F[i] = F[i - 1] \o g[i]
             T == {k \in 0..n : \E F : Upto(k, F)}
  <1> HIDE DEF Upto
  <1>1. T = 0..n
    <2>1. 0 \in T
      <3>1. Upto(0, [i \in 0..0 |-> << >>])
        BY EmptySeq DEF Upto
      <3>2. QED
        BY <3>1
    <2>2. ASSUME NEW k \in 0..(n - 1), k \in T
          PROVE  k + 1 \in T
      <3>1. PICK F : Upto(k, F)
        BY <2>2
      <3> DEFINE G == [i \in 0..(k + 1) |-> IF i = k + 1 THEN F[k] \o g[k + 1] ELSE F[i]]
      <3>2. k + 1 \in 1..n /\ k + 1 \in 0..n /\ k \in Nat
        OBVIOUS
      <3>3. F[k] \o g[k + 1] \in Seq(S)
        BY <3>1, <3>2, ConcatProperties DEF Upto
      <3>4. G \in [0..(k + 1) -> Seq(S)] /\ G[0] = << >>
        BY <3>1, <3>2, <3>3 DEF Upto
      <3>5. ASSUME NEW i \in 1..(k + 1)
            PROVE  G[i] = G[i - 1] \o g[i]
        <4>1. i - 1 \in 0..(k + 1) /\ i - 1 # k + 1 /\ i \in 0..(k + 1)
          BY <3>2
        <4>2. CASE i = k + 1
          <5>1. i - 1 = k /\ k \in 0..(k + 1) /\ k # k + 1
            BY <3>2, <4>2
          <5>2. G[k] = F[k] /\ G[i] = F[k] \o g[k + 1]
            BY <4>1, <4>2, <5>1
          <5>3. QED
            BY <4>2, <5>1, <5>2
        <4>3. CASE i # k + 1
          <5>1. i \in 1..k
            BY <3>2, <4>3
          <5>2. QED
            BY <3>1, <4>1, <4>3, <5>1 DEF Upto
        <4>4. QED
          BY <4>2, <4>3
      <3> HIDE DEF G
      <3>6. Upto(k + 1, G)
        BY <3>4, <3>5 DEF Upto
      <3>7. QED
        BY <3>2, <3>6
    <2> HIDE DEF T
    <2>3. T \in SUBSET (0..n)
      BY DEF T
    <2>4. QED
      BY <2>1, <2>2, <2>3, OverInterval
  <1>2. PICK F : Upto(n, F)
    <2>1. n \in T
      BY <1>1
    <2>2. QED
      BY <2>1
  <1>3. g \in Seq(Seq(S)) /\ Len(g) = n
    OBVIOUS
  <1>4. CASE n = 0
    BY <1>2, <1>3, <1>4 DEF Appended, FlattenSeq, Upto
  <1>5. CASE n # 0
    <2> DEFINE D(f) == f = [i \in 1..n |-> IF i = 1 THEN g[i] ELSE f[i - 1] \o g[i]]
               f0 == [i \in 1..n |-> F[i]]
    <2>1. FlattenSeq(g) = (CHOOSE f : D(f))[n]
      BY <1>3, <1>5 DEF FlattenSeq
    <2>2. D(f0)
      <3>1. \A i \in 1..n : F[i] = IF i = 1 THEN g[i] ELSE f0[i - 1] \o g[i]
        <4> TAKE i \in 1..n
        <4>1. CASE i = 1
          <5>1. F[1] = F[1 - 1] \o g[1] /\ F[0] = << >> /\ g[1] \in Seq(S)
            BY <1>2, <4>1 DEF Upto
          <5>2. QED
            BY <4>1, <5>1, ConcatEmptySeq
        <4>2. CASE i # 1
          <5>1. i - 1 \in 1..n
            BY <4>2
          <5>2. QED
            BY <1>2, <4>2, <5>1 DEF Upto
        <4>3. QED
          BY <4>1, <4>2
      <3>2. QED
        BY <3>1
    <2> DEFINE f1 == CHOOSE f : D(f)
    <2>3. D(f1)
      <3> HIDE DEF D, f0
      <3>1. QED
        BY <2>2
    <2>4. f1[n] = F[n]
      <3> DEFINE E == {k \in 0..n : k = 0 \/ f1[k] = F[k]}
      <3> HIDE DEF f1
      <3>1. \A i \in 1..n : f1[i] = IF i = 1 THEN g[i] ELSE f1[i - 1] \o g[i]
        BY <2>3
      <3>2. ASSUME NEW k \in 0..(n - 1), k \in E
            PROVE  k + 1 \in E
        <4>1. k + 1 \in 1..n /\ (k + 1) - 1 = k
          OBVIOUS
        <4>2. CASE k = 0
          <5>1. 1 \in 1..n /\ 1 - 1 = 0
            BY <4>1, <4>2
          <5>2. F[1] = F[1 - 1] \o g[1] /\ F[0] = << >> /\ g[1] \in Seq(S)
            BY <1>2, <5>1 DEF Upto
          <5>3. f1[1] = g[1]
            BY <3>1, <4>1, <4>2
          <5>4. F[1] = g[1]
            BY <5>1, <5>2, ConcatEmptySeq
          <5>5. k + 1 = 1
            BY <4>2
          <5>6. QED
            BY <4>1, <5>3, <5>4, <5>5
        <4>3. CASE k # 0
          <5>1. f1[k] = F[k] /\ k + 1 # 1
            BY <3>2, <4>3
          <5>2. f1[k + 1] = f1[(k + 1) - 1] \o g[k + 1]
            BY <3>1, <4>1, <5>1
          <5>3. F[k + 1] = F[(k + 1) - 1] \o g[k + 1]
            BY <1>2, <4>1 DEF Upto
          <5>4. f1[k + 1] = F[k + 1]
            BY <4>1, <5>1, <5>2, <5>3
          <5>5. QED
            BY <4>1, <5>4
        <4>4. QED
          BY <4>2, <4>3
      <3>3. 0 \in E /\ E \in SUBSET (0..n)
        OBVIOUS
      <3> HIDE DEF E
      <3>4. E = 0..n
        BY <3>2, <3>3, OverInterval
      <3>5. QED
        BY <1>5, <3>4 DEF E
    <2>5. QED
      BY <1>2, <2>1, <2>4 DEF Appended, Upto
  <1>6. QED
    BY <1>4, <1>5

\* The m sequences of h are those r picks from the n of g, in their order, and the
\* others are empty.
Thins(S, r, h, m, g, n) ==
    /\ n \in Nat /\ g \in [1..n -> Seq(S)] /\ m \in Nat /\ h \in [1..m -> Seq(S)]
    /\ r \in [1..m -> 1..n]
    /\ \A i \in 1..m : h[i] = g[r[i]]
    /\ \A i, j \in 1..m : i < j => r[i] < r[j]
    /\ \A k \in 1..n : (\A i \in 1..m : r[i] # k) => g[k] = << >>

\* Empty sequences add nothing: the flattened sequence is that of the others.
LEMMA FlattenSkipsEmpty ==
    ASSUME NEW S, NEW n, NEW m, NEW g, NEW r, NEW h, Thins(S, r, h, m, g, n)
    PROVE  FlattenSeq(g) = FlattenSeq(h)
  <1> SUFFICES ASSUME n \in Nat, m \in Nat, g \in [1..n -> Seq(S)],
                      r \in [1..m -> 1..n], h \in [1..m -> Seq(S)],
                      \A i, j \in 1..m : i < j => r[i] < r[j],
                      \A k \in 1..n : (\A i \in 1..m : r[i] # k) => g[k] = << >>
               PROVE  FlattenSeq(g) = FlattenSeq(h)
    BY DEF Thins
  <1>1. \A i \in 1..m : r[i] \in 1..n /\ r[i] \in Nat /\ h[i] = g[r[i]]
    BY DEF Thins
  <1>2. PICK F \in [0..n -> Seq(S)] : Appended(F, n, g)
    BY FlattenIs
  <1>3. PICK H \in [0..m -> Seq(S)] : Appended(H, m, h)
    BY FlattenIs
  <1> DEFINE Upto(k, c) == (c # 0 => r[c] <= k) /\ (c # m => r[c + 1] > k)
             T == {k \in 0..n : \A c \in 0..m : Upto(k, c) => F[k] = H[c]}
  <1>4. 0 \in T
    <2> SUFFICES ASSUME NEW c \in 0..m, Upto(0, c) PROVE F[0] = H[c]
      OBVIOUS
    <2>1. c = 0
      <3> SUFFICES ASSUME c # 0 PROVE FALSE
        OBVIOUS
      <3>1. c \in 1..m
        OBVIOUS
      <3>2. r[c] \in 1..n /\ r[c] <= 0
        BY <3>1
      <3>3. QED
        BY <3>2
    <2>2. QED
      BY <1>2, <1>3, <2>1 DEF Appended
  <1>5. ASSUME NEW k \in 0..(n - 1), k \in T
        PROVE  k + 1 \in T
    <2>1. k \in Nat /\ k + 1 \in 1..n /\ k + 1 \in 0..n /\ (k + 1) - 1 = k
      OBVIOUS
    <2> SUFFICES ASSUME NEW c \in 0..m, Upto(k + 1, c) PROVE F[k + 1] = H[c]
      BY <2>1
    <2>2. F[k + 1] = F[k] \o g[k + 1] /\ F[k] \in Seq(S)
      <3>1. F[k + 1] = F[(k + 1) - 1] \o g[k + 1]
        BY <1>2, <2>1 DEF Appended
      <3>2. QED
        BY <2>1, <3>1
    <2>3. \A d \in 0..m : Upto(k, d) => F[k] = H[d]
      BY <1>5
    <2>4. c \in Nat /\ m \in Nat
      OBVIOUS
    <2>5. \A x \in Nat : x < k + 1 \/ (x <= k + 1 /\ x # k + 1) => x <= k
      BY <2>1
    <2>6. CASE c # 0 /\ r[c] = k + 1
      <3>1. c \in 1..m /\ c - 1 \in 0..m /\ (c - 1) + 1 = c
        BY <2>6
      <3>2. c - 1 # 0 => r[c - 1] <= k
        <4> HAVE c - 1 # 0
        <4>1. c - 1 \in 1..m /\ c - 1 < c
          BY <3>1
        <4>2. r[c - 1] < r[c] /\ r[c - 1] \in Nat
          BY <1>1, <3>1, <4>1
        <4>3. QED
          <5>1. r[c - 1] < k + 1
            BY <2>6, <4>2
          <5>2. QED
            BY <2>5, <4>2, <5>1
      <3>3. r[(c - 1) + 1] > k
        BY <2>1, <2>6, <3>1
      <3>4. F[k] = H[c - 1]
        BY <2>3, <3>1, <3>2, <3>3
      <3>5. H[c] = H[c - 1] \o g[k + 1]
        <4>1. H[c] = H[c - 1] \o h[c]
          BY <1>3, <3>1 DEF Appended
        <4>2. QED
          BY <1>1, <2>6, <3>1, <4>1
      <3>6. QED
        BY <2>2, <3>4, <3>5
    <2>7. CASE ~(c # 0 /\ r[c] = k + 1)
      <3>1. ASSUME NEW i \in 1..m, r[i] = k + 1
            PROVE  FALSE
        <4>1. i # c
          BY <2>7, <3>1
        <4>2. CASE i < c
          <5>1. c \in 1..m
            BY <4>2
          <5>2. r[i] < r[c] /\ r[c] <= k + 1 /\ r[c] \in Nat
            BY <1>1, <4>2, <5>1
          <5>3. k + 1 < r[c]
            BY <3>1, <5>2
          <5>4. QED
            BY <2>1, <5>2, <5>3, SMTT(30)
        <4>3. CASE i = c + 1
          <5>1. c # m
            BY <4>3
          <5>2. QED
            BY <2>1, <3>1, <4>3, <5>1
        <4>4. CASE i > c + 1
          <5>1. c + 1 \in 1..m /\ c # m
            BY <4>4
          <5>2. r[c + 1] < r[i] /\ r[c + 1] > k + 1 /\ r[c + 1] \in Nat
            BY <1>1, <4>4, <5>1
          <5>3. r[c + 1] < k + 1
            BY <3>1, <5>2
          <5>4. QED
            BY <2>1, <5>2, <5>3, SMTT(30)
        <4>5. QED
          BY <2>4, <4>1, <4>2, <4>3, <4>4
      <3>2. g[k + 1] = << >>
        BY <2>1, <3>1
      <3>3. F[k + 1] = F[k]
        BY <2>2, <3>2, ConcatEmptySeq
      <3>4. c # 0 => r[c] <= k
        <4> HAVE c # 0
        <4>1. c \in 1..m /\ r[c] <= k + 1 /\ r[c] # k + 1
          BY <2>7
        <4>2. r[c] \in Nat
          BY <1>1, <4>1
        <4>3. QED
          BY <2>5, <4>1, <4>2
      <3>5. c # m => r[c + 1] > k
        <4> HAVE c # m
        <4>1. c + 1 \in 1..m /\ r[c + 1] > k + 1
          BY <2>4
        <4>2. r[c + 1] \in Nat
          BY <1>1, <4>1
        <4>3. QED
          BY <2>1, <4>1, <4>2
      <3>6. QED
        BY <2>3, <3>3, <3>4, <3>5
    <2>8. QED
      BY <2>6, <2>7
  <1>6. n \in T
    <2>1. T \in SUBSET (0..n)
      OBVIOUS
    <2> HIDE DEF T
    <2>2. T = 0..n
      BY <1>4, <1>5, <2>1, OverInterval
    <2>3. QED
      BY <2>2
  <1>7. Upto(n, m)
    OBVIOUS
  <1>8. F[n] = H[m]
    BY <1>6, <1>7
  <1>9. QED
    BY <1>2, <1>3, <1>8 DEF Appended

-----------------------------------------------------------------------------
(* Descending sequences of signatures.                                     *)

Descending(q) == \A i, j \in DOMAIN q : i < j => q[i] > q[j]

\* What is above every signature of the second may come before it.
LEMMA DescendingConcat ==
    ASSUME NEW a \in Seq(Nat), NEW b \in Seq(Nat), Descending(a), Descending(b),
           \A i \in DOMAIN a, j \in DOMAIN b : a[i] > b[j]
    PROVE  /\ a \o b \in Seq(Nat) /\ Descending(a \o b)
           /\ ToSet(a \o b) = ToSet(a) \cup ToSet(b)
  <1> DEFINE c == a \o b
  <1>1. /\ c \in Seq(Nat) /\ Len(c) = Len(a) + Len(b)
        /\ \A i \in 1..(Len(a) + Len(b)) : c[i] = IF i <= Len(a) THEN a[i] ELSE b[i - Len(a)]
    BY ConcatProperties
  <1> HIDE DEF c
  <1>2. /\ Len(a) \in Nat /\ Len(b) \in Nat /\ DOMAIN a = 1..Len(a) /\ DOMAIN b = 1..Len(b)
        /\ DOMAIN c = 1..(Len(a) + Len(b))
    BY <1>1, LenProperties
  <1>3. \A i \in DOMAIN a : a[i] \in Nat
    BY <1>2
  <1>4. \A i \in DOMAIN b : b[i] \in Nat
    BY <1>2
  <1>5. \A i \in DOMAIN a : i \in DOMAIN c /\ c[i] = a[i]
    BY <1>1, <1>2
  <1>6. \A i \in DOMAIN b : Len(a) + i \in DOMAIN c /\ c[Len(a) + i] = b[i]
    <2> TAKE i \in DOMAIN b
    <2>1. Len(a) + i \in 1..(Len(a) + Len(b)) /\ ~(Len(a) + i <= Len(a)) /\ (Len(a) + i) - Len(a) = i
      BY <1>2
    <2>2. QED
      BY <1>1, <1>2, <2>1
  <1>7. \A i \in DOMAIN c : i \in DOMAIN a \/ (i > Len(a) /\ i - Len(a) \in DOMAIN b /\ Len(a) + (i - Len(a)) = i)
    BY <1>2
  <1>8. Descending(c)
    <2> SUFFICES ASSUME NEW i \in DOMAIN c, NEW j \in DOMAIN c, i < j PROVE c[i] > c[j]
      BY DEF Descending
    <2>1. i \in Nat /\ j \in Nat
      BY <1>2
    <2>2. CASE i \in DOMAIN a /\ j \in DOMAIN a
      BY <1>5, <2>2 DEF Descending
    <2>3. CASE i \in DOMAIN a /\ j \notin DOMAIN a
      BY <1>5, <1>6, <1>7, <2>3
    <2>4. CASE i \notin DOMAIN a
      <3>1. j \notin DOMAIN a
        BY <1>2, <2>1, <2>4
      <3>2. /\ i - Len(a) \in DOMAIN b /\ j - Len(a) \in DOMAIN b
            /\ Len(a) + (i - Len(a)) = i /\ Len(a) + (j - Len(a)) = j
        BY <1>7, <2>4, <3>1
      <3>3. i - Len(a) < j - Len(a)
        BY <1>2, <2>1
      <3>4. c[i] = b[i - Len(a)] /\ c[j] = b[j - Len(a)]
        BY <1>6, <3>2
      <3>5. QED
        BY <3>2, <3>3, <3>4 DEF Descending
    <2>5. QED
      BY <2>2, <2>3, <2>4
  <1>9. ToSet(c) = ToSet(a) \cup ToSet(b)
    <2>1. ASSUME NEW i \in DOMAIN c
          PROVE  c[i] \in ToSet(a) \cup ToSet(b)
      <3>1. CASE i \in DOMAIN a
        BY <1>5, <3>1 DEF ToSet
      <3>2. CASE i \notin DOMAIN a
        <4>1. i - Len(a) \in DOMAIN b /\ c[i] = b[i - Len(a)]
          BY <1>6, <1>7, <3>2
        <4>2. QED
          BY <4>1 DEF ToSet
      <3>3. QED
        BY <3>1, <3>2
    <2>2. \A i \in DOMAIN a : a[i] \in ToSet(c)
      BY <1>5 DEF ToSet
    <2>3. \A i \in DOMAIN b : b[i] \in ToSet(c)
      BY <1>6 DEF ToSet
    <2>4. QED
      BY <2>1, <2>2, <2>3 DEF ToSet
  <1>10. QED
    BY <1>1, <1>8, <1>9 DEF c

\* The signatures of a page that are kept, in the page's order.
LEMMA FilterIs ==
    ASSUME NEW k \in Nat, NEW p \in [1..k -> Nat], NEW T,
           \A i, j \in 1..k : i < j => p[i] > p[j]
    PROVE  LET f == FlattenSeq([i \in 1..k |-> IF i \in T THEN << >> ELSE << p[i] >>])
           IN  f \in Seq(Nat) /\ Descending(f) /\ ToSet(f) = {p[i] : i \in (1..k) \ T}
  <1> DEFINE g == [i \in 1..k |-> IF i \in T THEN << >> ELSE << p[i] >>]
  <1>1. g \in [1..k -> Seq(Nat)]
    OBVIOUS
  <1>2. \A i \in 1..k : g[i] = IF i \in T THEN << >> ELSE << p[i] >>
    OBVIOUS
  <1> HIDE DEF g
  <1>3. PICK F \in [0..k -> Seq(Nat)] : Appended(F, k, g)
    BY <1>1, FlattenIs
  <1> DEFINE Good(n) == Descending(F[n]) /\ ToSet(F[n]) = {p[i] : i \in (1..n) \ T}
             U == {n \in 0..k : Good(n)}
  <1> HIDE DEF Good
  <1>4. 0 \in U
    <2>1. DOMAIN F[0] = {}
      BY <1>3 DEF Appended
    <2>2. 1..0 = {}
      OBVIOUS
    <2>3. Good(0)
      BY <2>1, <2>2 DEF Good, Descending, ToSet
    <2>4. QED
      BY <2>3
  <1>5. ASSUME NEW n \in 0..(k - 1), n \in U
        PROVE  n + 1 \in U
    <2>1. n + 1 \in 1..k /\ n + 1 \in 0..k /\ (n + 1) - 1 = n /\ n \in 0..k /\ n \in Nat
      OBVIOUS
    <2>2. F[n] \in Seq(Nat) /\ F[n + 1] = F[n] \o g[n + 1] /\ Good(n)
      <3>1. F[n + 1] = F[(n + 1) - 1] \o g[n + 1]
        BY <1>3, <2>1 DEF Appended
      <3>2. QED
        BY <1>5, <2>1, <3>1
    <2>3. CASE n + 1 \in T
      <3>1. F[n + 1] = F[n]
        BY <1>2, <2>1, <2>2, <2>3, ConcatEmptySeq
      <3>2. (1..(n + 1)) \ T = (1..n) \ T
        BY <2>1, <2>3
      <3>3. Good(n + 1)
        BY <2>2, <3>1, <3>2 DEF Good
      <3>4. QED
        BY <2>1, <3>3
    <2>4. CASE n + 1 \notin T
      <3> DEFINE b == << p[n + 1] >>
      <3>1. g[n + 1] = b /\ b \in Seq(Nat) /\ DOMAIN b = {1} /\ b[1] = p[n + 1]
        <4>1. p[n + 1] \in Nat
          BY <2>1
        <4>2. g[n + 1] = << p[n + 1] >>
          BY <1>2, <2>1, <2>4
        <4>3. QED
          BY <4>1, <4>2
      <3> HIDE DEF b
      <3>2. Descending(b) /\ ToSet(b) = {p[n + 1]}
        BY <3>1 DEF Descending, ToSet
      <3>3. \A i \in DOMAIN F[n], j \in DOMAIN b : F[n][i] > b[j]
        <4> TAKE i \in DOMAIN F[n], j \in DOMAIN b
        <4>1. F[n][i] \in ToSet(F[n])
          BY DEF ToSet
        <4>2. PICK m \in 1..n : F[n][i] = p[m]
          BY <2>2, <4>1 DEF Good
        <4>3. m \in 1..k /\ m < n + 1
          BY <2>1
        <4>4. p[m] > p[n + 1]
          BY <2>1, <4>3
        <4>5. QED
          BY <3>1, <4>2, <4>4
      <3>4. Descending(F[n] \o b) /\ ToSet(F[n] \o b) = ToSet(F[n]) \cup {p[n + 1]}
        BY <2>2, <3>1, <3>2, <3>3, DescendingConcat, SMTT(30) DEF Good
      <3>5. (1..(n + 1)) \ T = ((1..n) \ T) \cup {n + 1}
        <4>1. 1..(n + 1) = (1..n) \cup {n + 1}
          BY <2>1
        <4>2. QED
          BY <2>4, <4>1
      <3>6. {p[i] : i \in (1..(n + 1)) \ T} = {p[i] : i \in (1..n) \ T} \cup {p[n + 1]}
        BY <3>5
      <3>7. Good(n + 1)
        BY <2>2, <3>1, <3>4, <3>6 DEF Good
      <3>8. QED
        BY <2>1, <3>7
    <2>5. QED
      BY <2>3, <2>4
  <1>6. k \in U
    <2>1. U \in SUBSET (0..k)
      OBVIOUS
    <2> HIDE DEF U
    <2>2. U = 0..k
      BY <1>4, <1>5, <2>1, OverInterval
    <2>3. QED
      BY <2>2
  <1>7. Good(k)
    BY <1>6
  <1>8. F[k] \in Seq(Nat)
    OBVIOUS
  <1>9. QED
    BY <1>3, <1>7, <1>8 DEF Appended, Good, g

\* As many signatures as the sequence is long.
LEMMA DescendingCounts ==
    ASSUME NEW q \in Seq(Nat), Descending(q), NEW k \in 0..Len(q)
    PROVE  IsFiniteSet({q[i] : i \in 1..k}) /\ Cardinality({q[i] : i \in 1..k}) = k
  <1> DEFINE S == {q[i] : i \in 1..k}
             f == [i \in 1..k |-> q[i]]
  <1>1. Len(q) \in Nat /\ DOMAIN q = 1..Len(q) /\ k \in Nat
    BY LenProperties
  <1>2. \A i \in 1..k : i \in DOMAIN q /\ q[i] \in Nat
    BY <1>1
  <1>3. \A i, j \in 1..k : q[i] = q[j] => i = j
    <2> TAKE i, j \in 1..k
    <2>1. i < j => q[i] > q[j]
      BY <1>2 DEF Descending
    <2>2. j < i => q[j] > q[i]
      BY <1>2 DEF Descending
    <2>3. QED
      BY <1>1, <1>2, <2>1, <2>2
  <1>4. f \in Injection(1..k, S)
    BY <1>3 DEF Injection, IsInjective
  <1>5. f \in Surjection(1..k, S)
    BY DEF Surjection
  <1>6. ExistsBijection(1..k, S)
    BY <1>4, <1>5 DEF ExistsBijection, Bijection
  <1> HIDE DEF S
  <1>7. IsFiniteSet(S) /\ Cardinality(S) = k
    BY <1>1, <1>6, FS_CountingElements, FS_NatBijection
  <1>8. QED
    BY <1>7 DEF S

-----------------------------------------------------------------------------
(* What the call has read.                                                 *)

\* InPeriod and Wanted, for a history of which the first page showed hi.
InPeriodTo(s, hi) ==
    /\ ~history[s].err
    /\ IF history[s].time = None
       THEN \A n \in s..hi : ~TooOld(n)
       ELSE ~TooOld(s) /\ ~TooNew(s)

WantedTo(s, hi) ==
    /\ InPeriodTo(s, hi)
    /\ input.maxTransactions = None
          \/ Cardinality({n \in (s + 1)..hi : InPeriodTo(n, hi)}) < input.maxTransactions

\* Block times do not go back.
TimesInv ==
    \A i, j \in 1..Len(history) :
        i <= j /\ history[i].time # None /\ history[j].time # None
            => history[i].time <= history[j].time

\* What the signatures are: of those read so far all that are not skipped, and
\* at the end those that are wanted.
PagesInv ==
    /\ out \in Seq(Nat) /\ Descending(out)
    /\ pc = "check" => before = 0
    /\ pc \in {"check", "paging"} /\ before = 0 => out = << >> /\ seen = 0
    /\ pc = "paging" /\ before # 0 =>
          /\ before <= seen
          /\ \A n \in before..seen : ~TooOld(n)
          /\ ToSet(out) = {s \in before..seen : ~Skipped(s)}
    /\ pc \in {"fetching", "done"} => ToSet(out) = {s \in 1..seen : Wanted(s)}

Entry == [signature: Nat, kind: InstructionKinds, amount: Nat \cup {None}]

\* What has been fetched of them.
FetchInv ==
    /\ perTransaction \in Seq(Seq(Entry))
    /\ pc \in {"check", "paging"} => perTransaction = << >>
    /\ missing \subseteq {out[k] : k \in DOMAIN perTransaction}
    /\ \A k \in DOMAIN perTransaction :
          perTransaction[k] = IF out[k] \in missing THEN << >> ELSE EntriesOf(out[k])

ReturnInv ==
    pc = "done" => Len(perTransaction) = Len(out) /\ report = FlattenSeq(Reverse(perTransaction))

ReportInv == ReportTypes /\ TimesInv /\ PagesInv /\ FetchInv /\ ReturnInv

LEMMA DescendingLength ==
    ASSUME NEW q \in Seq(Nat), Descending(q)
    PROVE  IsFiniteSet(ToSet(q)) /\ Cardinality(ToSet(q)) = Len(q)
  <1>1. Len(q) \in Nat /\ DOMAIN q = 1..Len(q) /\ Len(q) \in 0..Len(q)
    BY LenProperties
  <1>2. ToSet(q) = {q[i] : i \in 1..Len(q)}
    BY <1>1 DEF ToSet
  <1>3. QED
    BY <1>1, <1>2, DescendingCounts

LEMMA TransactionType ==
    ASSUME ReportTypes, NEW s \in 1..Len(history)
    PROVE  /\ history[s].time \in Nat \cup {None} /\ history[s].err \in BOOLEAN
           /\ history[s].ixs \in Seq(Instruction)
  <1>1. history \in Seq(Transactions)
    BY DEF ReportTypes
  <1>2. history[s] \in Transactions
    BY <1>1, ElementOfSeq
  <1>3. QED
    BY <1>2, HistoryAssumption DEF Transaction

LEMMA InputType ==
    ASSUME ReportTypes
    PROVE  /\ input.since # None => Seconds(input.since) \in Nat
           /\ input.until # None => Seconds(input.until) \in Nat
           /\ input.maxTransactions # None => input.maxTransactions \in Nat
           /\ input.concurrency \in Nat
  <1>1. input \in Input
    BY InputAssumption DEF ReportTypes
  <1>2. TicksPerSecond \in Nat /\ TicksPerSecond > 0
    BY LimitAssumption
  <1>3. \A d \in Nat : Seconds(d) \in Nat
    BY <1>2 DEF Seconds
  <1>4. QED
    BY <1>1, <1>3 DEF Input

\* A transaction is in the period when the loop over the pages passes it and
\* does not skip it.
LEMMA PeriodIs ==
    ASSUME ReportTypes, TimesInv, NEW hi \in 0..Len(history), NEW s \in 1..hi
    PROVE  InPeriodTo(s, hi) <=> ~Skipped(s) /\ \A n \in s..hi : ~TooOld(n)
  <1>1. Len(history) \in Nat
    BY LenProperties DEF ReportTypes
  <1>2. s \in 1..Len(history) /\ s \in s..hi
    BY <1>1
  <1>3. CASE history[s].time = None
    BY <1>2, <1>3 DEF InPeriodTo, Skipped, TooNew
  <1>4. CASE history[s].time # None
    <2>1. ASSUME ~TooOld(s), NEW n \in s..hi
          PROVE  ~TooOld(n)
      <3> SUFFICES ASSUME TooOld(n) PROVE FALSE
        OBVIOUS
      <3>1. n \in 1..Len(history) /\ s <= n
        BY <1>1
      <3>2. input.since # None /\ history[n].time # None /\ history[n].time < Seconds(input.since)
        BY DEF TooOld
      <3>3. history[s].time <= history[n].time
        BY <1>2, <1>4, <3>1, <3>2 DEF TimesInv
      <3>4. history[s].time \in Nat /\ history[n].time \in Nat /\ Seconds(input.since) \in Nat
        BY <1>2, <1>4, <3>1, <3>2, TransactionType, InputType
      <3>5. history[s].time < Seconds(input.since)
        BY <3>2, <3>3, <3>4
      <3>6. QED
        BY <1>4, <2>1, <3>2, <3>5 DEF TooOld
    <2>2. QED
      BY <1>2, <1>4, <2>1 DEF InPeriodTo, Skipped
  <1>5. QED
    BY <1>3, <1>4

\* Signatures read down to one after which no more are wanted are those wanted.
LEMMA ReadIsWanted ==
    ASSUME ReportTypes, TimesInv, NEW hi \in 0..Len(history), NEW low \in 1..(hi + 1),
           NEW q \in Seq(Nat), Descending(q), ToSet(q) = {s \in low..hi : ~Skipped(s)},
           \A n \in low..hi : ~TooOld(n),
           input.maxTransactions # None => Len(q) <= input.maxTransactions,
           \/ low = 1 \/ TooOld(low - 1)
           \/ input.maxTransactions # None /\ Len(q) >= input.maxTransactions
    PROVE  ToSet(q) = {s \in 1..hi : WantedTo(s, hi)}
  <1> DEFINE max == input.maxTransactions
             Above(s) == {n \in (s + 1)..hi : InPeriodTo(n, hi)}
  <1>1. /\ Len(history) \in Nat /\ Len(q) \in Nat /\ DOMAIN q = 1..Len(q) /\ hi \in Nat /\ low \in Nat
        /\ low >= 1
    BY LenProperties DEF ReportTypes
  <1>2. \A s \in low..hi : InPeriodTo(s, hi) <=> ~Skipped(s)
    <2> TAKE s \in low..hi
    <2>1. s \in 1..hi /\ \A n \in s..hi : n \in low..hi
      BY <1>1
    <2>2. QED
      BY <2>1, PeriodIs
  <1>3. ToSet(q) = {s \in low..hi : InPeriodTo(s, hi)}
    BY <1>2
  <1>4. ASSUME NEW s \in ToSet(q)
        PROVE  s \in 1..hi /\ WantedTo(s, hi)
    <2>1. PICK i \in DOMAIN q : s = q[i]
      BY DEF ToSet
    <2>2. s \in low..hi /\ s \in 1..hi /\ InPeriodTo(s, hi)
      BY <1>1, <1>3
    <2>3. i \in 1..Len(q) /\ i - 1 \in 0..Len(q) /\ i - 1 < Len(q) /\ i - 1 \in Nat
      BY <1>1
    <2>4. Above(s) = {q[j] : j \in 1..(i - 1)}
      <3>1. ASSUME NEW n \in Above(s)
            PROVE  \E j \in 1..(i - 1) : n = q[j]
        <4>1. n \in low..hi /\ InPeriodTo(n, hi) /\ n > s
          BY <1>1, <2>2
        <4>2. PICK j \in DOMAIN q : n = q[j]
          BY <1>3, <4>1 DEF ToSet
        <4>3. j < i
          <5>1. j \in Nat /\ i \in Nat /\ n \in Nat /\ s \in Nat
            BY <1>1, <2>2, <4>1
          <5>2. j # i
            BY <2>1, <4>1, <4>2, <5>1
          <5>3. ~(i < j)
            <6> SUFFICES ASSUME i < j PROVE FALSE
              OBVIOUS
            <6>1. q[i] > q[j]
              BY <2>1, <4>2 DEF Descending
            <6>2. s > n
              BY <2>1, <4>2, <6>1
            <6>3. QED
              BY <4>1, <5>1, <6>2
          <5>4. QED
            BY <5>1, <5>2, <5>3
        <4>4. j \in 1..(i - 1)
          BY <1>1, <2>3, <4>3
        <4>5. QED
          BY <4>2, <4>4
      <3>2. ASSUME NEW j \in 1..(i - 1)
            PROVE  q[j] \in Above(s)
        <4>1. j \in DOMAIN q /\ j < i
          BY <1>1, <2>3
        <4>2. q[j] > s
          BY <2>1, <4>1 DEF Descending
        <4>3. q[j] \in low..hi /\ InPeriodTo(q[j], hi)
          BY <1>3, <4>1 DEF ToSet
        <4>4. q[j] \in (s + 1)..hi
          BY <1>1, <2>2, <4>2, <4>3
        <4>5. QED
          BY <4>3, <4>4
      <3> HIDE DEF Above
      <3>3. QED
        BY <3>1, <3>2
    <2>5. Cardinality(Above(s)) = i - 1
      <3> HIDE DEF Above
      <3>1. QED
        BY <2>3, <2>4, DescendingCounts
    <2>6. max # None => Cardinality(Above(s)) < max
      <3> HAVE max # None
      <3> HIDE DEF Above
      <3>1. max \in Nat /\ Len(q) <= max
        BY InputType
      <3>2. QED
        BY <1>1, <2>3, <2>5, <3>1
    <2>7. QED
      BY <2>2, <2>6 DEF WantedTo
  <1>5. ASSUME NEW s \in 1..hi, s < low
        PROVE  ~WantedTo(s, hi)
    <2>1. CASE low = 1
      BY <1>5, <2>1
    <2>2. CASE TooOld(low - 1)
      <3>1. low - 1 \in s..hi
        BY <1>1, <1>5
      <3>2. QED
        BY <2>2, <3>1, PeriodIs DEF WantedTo
    <2>3. CASE max # None /\ Len(q) >= max
      <3>1. max \in Nat
        BY <2>3, InputType
      <3>2. ToSet(q) \in SUBSET Above(s)
        <4>1. \A n \in low..hi : n \in (s + 1)..hi
          BY <1>1, <1>5
        <4>2. QED
          BY <1>3, <4>1
      <3>3. IsFiniteSet(Above(s))
        <4>1. IsFiniteSet((s + 1)..hi)
          BY <1>1, FS_Interval
        <4>2. QED
          BY <4>1, FS_Subset
      <3> HIDE DEF Above
      <3>4. Cardinality(ToSet(q)) <= Cardinality(Above(s)) /\ Cardinality(Above(s)) \in Nat
        BY <3>2, <3>3, FS_Subset, FS_CardinalityType
      <3>5. Cardinality(ToSet(q)) = Len(q)
        BY DescendingLength
      <3>6. ~(Cardinality(Above(s)) < max)
        BY <1>1, <2>3, <3>1, <3>4, <3>5
      <3>7. QED
        BY <2>3, <3>6 DEF WantedTo, Above
    <2>4. QED
      BY <2>1, <2>2, <2>3
  <1>6. ASSUME NEW s \in 1..hi, WantedTo(s, hi)
        PROVE  s \in ToSet(q)
    <2>1. s \in low..hi
      BY <1>1, <1>5, <1>6
    <2>2. QED
      BY <1>3, <1>6, <2>1 DEF WantedTo
  <1>7. QED
    BY <1>4, <1>6

-----------------------------------------------------------------------------
(* A page.                                                                 *)

Newest == IF before = 0 THEN Len(history) ELSE before - 1

LEMMA PageIs ==
    ASSUME ReportTypes
    PROVE  /\ Newest \in 0..Len(history) /\ Newest \in Nat
           /\ Len(Page) \in 0..Newest /\ Len(Page) \in Nat
           /\ Len(Page) <= PageSize /\ (Len(Page) < PageSize => Len(Page) = Newest)
           /\ DOMAIN Page = 1..Len(Page) /\ \A k \in 1..Len(Page) : Page[k] = Newest - k + 1
           /\ Page = << >> <=> Len(Page) = 0
  <1> DEFINE count == IF Newest < PageSize THEN Newest ELSE PageSize
             p == [k \in 1..count |-> Newest - k + 1]
  <1>1. Len(history) \in Nat /\ before \in 0..Len(history) /\ PageSize \in Nat /\ PageSize > 0
    BY LimitAssumption, LenProperties DEF ReportTypes
  <1>2. Newest \in 0..Len(history) /\ Newest \in Nat
    BY <1>1 DEF Newest
  <1>3. count \in Nat /\ count <= Newest /\ count <= PageSize /\ (count < PageSize => count = Newest)
    BY <1>1, <1>2
  <1>4. Page = p
    BY DEF Page, Newest
  <1> HIDE DEF count
  <1>5. p \in Seq(Int) /\ Len(p) = count /\ DOMAIN p = 1..count
    <2>1. p \in [1..count -> Int]
      BY <1>2, <1>3
    <2> HIDE DEF p
    <2>2. QED
      BY <1>3, <2>1
  <1>6. \A k \in 1..count : p[k] = Newest - k + 1
    OBVIOUS
  <1> HIDE DEF p
  <1>7. p = << >> <=> count = 0
    BY <1>5, EmptySeq
  <1>8. QED
    BY <1>1, <1>2, <1>3, <1>4, <1>5, <1>6, <1>7

\* The first k signatures of a page are the k newest, and those kept are kept in
\* their order.
LEMMA KeptIs ==
    ASSUME ReportTypes, NEW k \in 0..Len(Page)
    PROVE  /\ Kept(Page, k) \in Seq(Nat) /\ Descending(Kept(Page, k))
           /\ ToSet(Kept(Page, k)) = {s \in (Newest - k + 1)..Newest : ~Skipped(s)}
  <1> DEFINE p == [i \in 1..k |-> Newest - i + 1]
             T == {i \in 1..k : Skipped(p[i])}
             f == FlattenSeq([i \in 1..k |-> IF i \in T THEN << >> ELSE << p[i] >>])
  <1>1. /\ Newest \in Nat /\ k \in Nat /\ k <= Newest
        /\ \A i \in 1..k : Page[i] = Newest - i + 1
    BY PageIs
  <1>2. \A i \in 1..k : p[i] = Page[i] /\ p[i] = Newest - i + 1
    BY <1>1
  <1>3. p \in [1..k -> Nat]
    BY <1>1
  <1> HIDE DEF p
  <1>4. \A i, j \in 1..k : i < j => p[i] > p[j]
    BY <1>1, <1>2
  <1>5. Kept(Page, k) = f
    <2>1. \A i \in 1..k : i \in T <=> Skipped(Page[i])
      BY <1>2
    <2> HIDE DEF T
    <2>2. [i \in 1..k |-> IF i \in T THEN << >> ELSE << p[i] >>]
            = [i \in 1..k |-> IF Skipped(Page[i]) THEN << >> ELSE << Page[i] >>]
      BY <1>2, <2>1
    <2>3. QED
      BY <2>2 DEF Kept
  <1>6. f \in Seq(Nat) /\ Descending(f) /\ ToSet(f) = {p[i] : i \in (1..k) \ T}
    <2> HIDE DEF T
    <2>1. QED
      BY <1>1, <1>3, <1>4, FilterIs
  <1>7. {p[i] : i \in (1..k) \ T} = {s \in (Newest - k + 1)..Newest : ~Skipped(s)}
    <2>1. ASSUME NEW i \in (1..k) \ T
          PROVE  p[i] \in (Newest - k + 1)..Newest /\ ~Skipped(p[i])
      <3>1. i \in 1..k /\ ~Skipped(p[i])
        OBVIOUS
      <3>2. QED
        BY <1>1, <1>2, <3>1
    <2>2. ASSUME NEW s \in (Newest - k + 1)..Newest, ~Skipped(s)
          PROVE  \E i \in (1..k) \ T : s = p[i]
      <3>1. Newest - s + 1 \in 1..k /\ Newest - (Newest - s + 1) + 1 = s
        BY <1>1
      <3>2. p[Newest - s + 1] = s
        BY <1>2, <3>1
      <3>3. QED
        BY <2>2, <3>1, <3>2
    <2> HIDE DEF T
    <2>3. QED
      BY <2>1, <2>2
  <1> HIDE DEF f
  <1>8. QED
    BY <1>5, <1>6, <1>7

\* One more signature of a page is one more that may be kept.
LEMMA KeptGrows ==
    ASSUME ReportTypes, NEW k \in 1..Len(Page)
    PROVE  /\ Len(Kept(Page, k)) \in Nat /\ Len(Kept(Page, k - 1)) \in Nat
           /\ Len(Kept(Page, k)) <= Len(Kept(Page, k - 1)) + 1
  <1> DEFINE a == Kept(Page, k)
             b == Kept(Page, k - 1)
             s == Newest - k + 1
  <1>1. /\ Newest \in Nat /\ k \in Nat /\ k >= 1 /\ k <= Newest
        /\ k \in 0..Len(Page) /\ k - 1 \in 0..Len(Page)
    BY PageIs
  <1>2. a \in Seq(Nat) /\ Descending(a) /\ ToSet(a) = {n \in (Newest - k + 1)..Newest : ~Skipped(n)}
    BY <1>1, KeptIs
  <1>3. /\ b \in Seq(Nat) /\ Descending(b)
        /\ ToSet(b) = {n \in (Newest - (k - 1) + 1)..Newest : ~Skipped(n)}
    BY <1>1, KeptIs
  <1> HIDE DEF a, b
  <1>4. ToSet(a) \in SUBSET (ToSet(b) \cup {s})
    <2>1. \A n \in (Newest - k + 1)..Newest : n \in (Newest - (k - 1) + 1)..Newest \/ n = s
      BY <1>1
    <2>2. QED
      BY <1>2, <1>3, <2>1
  <1>5. /\ IsFiniteSet(ToSet(a)) /\ Cardinality(ToSet(a)) = Len(a) /\ Len(a) \in Nat
        /\ IsFiniteSet(ToSet(b)) /\ Cardinality(ToSet(b)) = Len(b) /\ Len(b) \in Nat
    BY <1>2, <1>3, DescendingLength, LenProperties
  <1> HIDE DEF s
  <1>6. /\ IsFiniteSet(ToSet(b) \cup {s})
        /\ Cardinality(ToSet(b) \cup {s}) = IF s \in ToSet(b) THEN Len(b) ELSE Len(b) + 1
    BY <1>5, FS_AddElement
  <1>7. Len(a) <= Cardinality(ToSet(b) \cup {s})
    BY <1>4, <1>5, <1>6, FS_Subset
  <1>8. Len(a) <= Len(b) + 1
    BY <1>5, <1>6, <1>7
  <1>9. QED
    BY <1>5, <1>8 DEF a, b

-----------------------------------------------------------------------------
(* The invariant.                                                          *)

\* What was there at the first page is as it was.
LEMMA WantedStays ==
    ASSUME NEW hi \in Nat, input' = input, seen' = hi, \A s \in 1..hi : history'[s] = history[s]
    PROVE  \A s \in 1..hi : Wanted(s)' <=> WantedTo(s, hi)
  <1>1. \A n \in 1..hi : /\ TooOld(n)' <=> TooOld(n)
                         /\ TooNew(n)' <=> TooNew(n)
    BY DEF TooOld, TooNew, Seconds
  <1>2. ASSUME NEW s \in 1..hi
        PROVE  InPeriod(s)' <=> InPeriodTo(s, hi)
    <2>1. \A n \in s..hi : n \in 1..hi
      OBVIOUS
    <2>2. (\A n \in s..seen : ~TooOld(n))' <=> \A n \in s..hi : ~TooOld(n)
      BY <1>1, <2>1
    <2>3. QED
      BY <1>1, <2>2 DEF InPeriod, InPeriodTo
  <1>3. ASSUME NEW s \in 1..hi
        PROVE  Wanted(s)' <=> WantedTo(s, hi)
    <2>1. \A n \in (s + 1)..hi : n \in 1..hi
      OBVIOUS
    <2>2. {n \in (s + 1)..seen : InPeriod(n)}' = {n \in (s + 1)..hi : InPeriodTo(n, hi)}
      BY <1>2, <2>1
    <2>3. QED
      BY <1>2, <2>2 DEF Wanted, WantedTo
  <1>4. QED
    BY <1>3

LEMMA WantedIs == \A s : Wanted(s) <=> WantedTo(s, seen)
  BY DEF Wanted, WantedTo, InPeriod, InPeriodTo

LEMMA SizesType ==
    ASSUME ReportTypes
    PROVE  /\ Len(history) \in Nat /\ before \in Nat /\ seen \in Nat /\ seen <= Len(history)
           /\ before <= Len(history)
  BY LenProperties DEF ReportTypes

LEMMA ReportInvInit == ReportInit => ReportInv
  <1> SUFFICES ASSUME ReportInit PROVE ReportInv
    OBVIOUS
  <1>1. Len(<< >>) = 0 /\ DOMAIN << >> = {}
    OBVIOUS
  <1>2. \A S : << >> \in Seq(S)
    OBVIOUS
  <1>3. input.maxTransactions # None => 0 <= input.maxTransactions
    <2>1. input \in Input
      BY InputAssumption DEF ReportInit
    <2>2. QED
      BY <2>1 DEF Input
  <1>4. ReportTypes
    BY <1>1, <1>2, <1>3 DEF ReportInit, ReportTypes, ToSet
  <1>5. TimesInv
    BY <1>1 DEF ReportInit, TimesInv
  <1>6. PagesInv
    BY <1>1, <1>2 DEF ReportInit, PagesInv, Descending
  <1>7. FetchInv
    BY <1>1, <1>2 DEF ReportInit, FetchInv
  <1>8. QED
    BY <1>4, <1>5, <1>6, <1>7 DEF ReportInv, ReportInit, ReturnInv

\* What a page adds, for a call that had read the signatures after it.
LEMMA ReadPageReads ==
    ASSUME ReportInv, ReadPage
    PROVE  \E low \in 1..(seen' + 1) :
              /\ seen' \in 0..Len(history)
              /\ out' \in Seq(Nat) /\ Descending(out')
              /\ ToSet(out') = {s \in low..seen' : ~Skipped(s)}
              /\ \A n \in low..seen' : ~TooOld(n)
              /\ input.maxTransactions # None => Len(out') <= input.maxTransactions
              /\ pc' = "fetching" =>
                    \/ low = 1 \/ TooOld(low - 1)
                    \/ input.maxTransactions # None /\ Len(out') >= input.maxTransactions
              /\ pc' = "paging" => before' = low /\ low <= seen'
              /\ pc' \in {"paging", "fetching"} /\ before' \in 0..Len(history)
  <1> DEFINE N == Newest
             P == Page
             c == Len(Page)
             H == Len(history)
             stops == {k \in DOMAIN P : ReturnsAt(P, k)}
             end   == IF stops = {} THEN Len(P)
                      ELSE CHOOSE k \in stops : \A j \in stops : k <= j
             e     == IF stops = {} THEN end ELSE end - 1
             hi    == IF before = 0 THEN H ELSE seen
             low   == N - e + 1
             max   == input.maxTransactions
  <1>1. ReportTypes /\ PagesInv
    BY DEF ReportInv
  <1> HIDE DEF stops, end, e, hi, low, max
  <1>2. /\ N \in Nat /\ c \in Nat /\ c <= N /\ N <= H /\ c <= PageSize /\ (c < PageSize => c = N)
    BY <1>1, SizesType, PageIs
  <1>3. DOMAIN P = 1..c /\ Len(P) = c /\ (P = << >> <=> c = 0)
    BY <1>1, PageIs
  <1>4. \A k \in 1..c : P[k] = N - k + 1
    BY <1>1, PageIs
  <1> HIDE DEF N, P, c, H
  <1>5. /\ H \in Nat /\ before \in Nat /\ seen \in Nat /\ seen <= H
        /\ before <= H /\ PageSize \in Nat /\ PageSize > 0
    BY <1>1, SizesType, LimitAssumption DEF H
  <1>6. N = IF before = 0 THEN H ELSE before - 1
    BY DEF Newest, N, H
  <1>7. /\ pc = "paging" /\ out' = out \o Kept(P, e) /\ seen' = hi
        /\ pc' = IF stops # {} \/ c < PageSize THEN "fetching" ELSE "paging"
        /\ before' = IF P = << >> THEN before ELSE P[Len(P)]
    BY DEF ReadPage, stops, end, e, hi, P, c, H
  <1>8. stops # {} => end \in stops /\ \A j \in stops : end <= j
    <2> HAVE stops # {}
    <2>1. stops \in SUBSET Nat
      BY <1>2, <1>3 DEF stops
    <2>2. \E k \in stops : \A j \in stops : k <= j
      BY <2>1, Least
    <2>3. QED
      BY <2>2 DEF end
  <1>9. \A k \in stops : k \in 1..c /\ k \in Nat
    BY <1>2, <1>3 DEF stops
  <1>10. e \in 0..c /\ e \in Nat /\ (stops # {} => e = end - 1) /\ (stops = {} => e = c)
    <2>1. CASE stops = {}
      BY <1>2, <1>3, <2>1 DEF end, e
    <2>2. CASE stops # {}
      <3>1. end \in 1..c /\ end \in Nat
        BY <1>8, <1>9, <2>2
      <3>2. QED
        BY <1>2, <2>2, <3>1 DEF e
    <2>3. QED
      BY <2>1, <2>2
  <1>11. \A k \in 1..e : k \in 1..c /\ k \notin stops
    <2> TAKE k \in 1..e
    <2>1. k \in 1..c /\ k <= e
      BY <1>2, <1>10
    <2>2. CASE stops = {}
      BY <2>1, <2>2
    <2>3. CASE stops # {}
      <3>1. end \in Nat /\ e = end - 1
        BY <1>8, <1>9, <1>10, <2>3
      <3>2. ~(end <= k)
        BY <1>10, <2>1, <3>1
      <3>3. QED
        BY <1>8, <2>1, <2>3, <3>2
    <2>4. QED
      BY <2>2, <2>3
  <1>12. \A k \in 1..c : k \notin stops => ~ReturnsAt(P, k)
    BY <1>3 DEF stops
  <1>13. stops # {} => ReturnsAt(P, end)
    BY <1>8 DEF stops
  <1>14. hi \in 0..H /\ hi \in Nat /\ N <= hi
    <2>1. before # 0 => before <= seen
      BY <1>1, <1>7 DEF PagesInv
    <2>2. QED
      BY <1>2, <1>5, <1>6, <2>1 DEF hi
  <1>15. /\ out \in Seq(Nat) /\ Descending(out)
         /\ ToSet(out) = {s \in (N + 1)..hi : ~Skipped(s)}
         /\ \A n \in (N + 1)..hi : ~TooOld(n)
    <2>1. out \in Seq(Nat) /\ Descending(out)
      BY <1>1 DEF PagesInv
    <2>2. CASE before = 0
      <3>1. out = << >> /\ (N + 1)..hi = {}
        BY <1>1, <1>5, <1>7, <1>6, <2>2 DEF PagesInv, hi
      <3>2. ToSet(out) = {}
        BY <3>1 DEF ToSet
      <3>3. QED
        BY <2>1, <3>1, <3>2
    <2>3. CASE before # 0
      <3>1. N + 1 = before /\ hi = seen
        BY <1>5, <1>6, <2>3 DEF hi
      <3>2. QED
        BY <1>1, <1>7, <2>1, <2>3, <3>1 DEF PagesInv
    <2>4. QED
      BY <2>2, <2>3
  <1>16. /\ Kept(P, e) \in Seq(Nat) /\ Descending(Kept(P, e))
         /\ ToSet(Kept(P, e)) = {s \in low..N : ~Skipped(s)}
    BY <1>1, <1>10, KeptIs DEF N, P, c, low
  <1>17. low \in 1..(hi + 1) /\ low \in Nat /\ low <= N + 1
    BY <1>2, <1>10, <1>14 DEF low
  <1>18. /\ out' \in Seq(Nat) /\ Descending(out')
         /\ ToSet(out') = {s \in low..hi : ~Skipped(s)}
    <2> DEFINE b == Kept(P, e)
    <2> HIDE DEF b
    <2>1. b \in Seq(Nat) /\ Descending(b) /\ ToSet(b) = {s \in low..N : ~Skipped(s)}
      BY <1>16 DEF b
    <2>2. \A i \in DOMAIN out, j \in DOMAIN b : out[i] > b[j]
      <3> TAKE i \in DOMAIN out, j \in DOMAIN b
      <3>1. out[i] \in ToSet(out) /\ b[j] \in ToSet(b)
        BY DEF ToSet
      <3>2. out[i] \in (N + 1)..hi /\ b[j] \in low..N
        BY <1>15, <2>1, <3>1
      <3>3. QED
        BY <1>2, <1>14, <1>17, <3>2
    <2>3. /\ out \o b \in Seq(Nat) /\ Descending(out \o b)
          /\ ToSet(out \o b) = ToSet(out) \cup ToSet(b)
      BY <1>15, <2>1, <2>2, DescendingConcat
    <2>4. out' = out \o b
      BY <1>7 DEF b
    <2>5. \A s \in low..hi : s \in low..N \/ s \in (N + 1)..hi
      BY <1>2, <1>14, <1>17
    <2>6. \A s \in low..N : s \in low..hi
      BY <1>2, <1>14, <1>17
    <2>7. \A s \in (N + 1)..hi : s \in low..hi
      BY <1>2, <1>14, <1>17
    <2>8. QED
      BY <1>15, <2>1, <2>3, <2>4, <2>5, <2>6, <2>7
  <1>19. \A n \in low..hi : ~TooOld(n)
    <2> TAKE n \in low..hi
    <2>1. CASE n \in (N + 1)..hi
      BY <1>15, <2>1
    <2>2. CASE n <= N
      <3>1. /\ N - n + 1 \in 1..e /\ N - n + 1 \in 1..c
            /\ N - (N - n + 1) + 1 = n
        BY <1>2, <1>10, <1>14, <2>2 DEF low
      <3>2. ~ReturnsAt(P, N - n + 1) /\ P[N - n + 1] = n
        BY <1>4, <1>11, <1>12, <3>1
      <3>3. QED
        BY <3>2 DEF ReturnsAt
    <2>3. QED
      BY <1>2, <1>14, <1>17, <2>1, <2>2
  <1>20. /\ Len(out) \in Nat /\ Len(Kept(P, e)) \in Nat
         /\ Len(out') = Len(out) + Len(Kept(P, e))
    BY <1>7, <1>15, <1>16, LenProperties, ConcatProperties
  <1>21. max # None => Len(out') <= max
    <2> HAVE max # None
    <2>1. max \in Nat /\ Len(out) <= max
      BY <1>1, InputType DEF ReportTypes, max
    <2>2. CASE e = 0
      <3>1. low = N + 1
        BY <1>2, <2>2 DEF low
      <3>2. low..N = {}
        BY <1>2, <3>1
      <3>3. ToSet(Kept(P, e)) = {}
        BY <1>16, <3>2
      <3>4. Len(Kept(P, e)) = 0
        BY <1>16, <3>3, DescendingLength, FS_EmptySet
      <3>5. QED
        BY <1>20, <2>1, <3>4
    <2>3. CASE e # 0
      <3>1. e \in 1..c /\ e \in 1..e
        BY <1>2, <1>10, <2>3
      <3>2. ~ReturnsAt(P, e)
        BY <1>11, <1>12, <3>1
      <3>3. ~(Len(out) + Len(Kept(P, e - 1)) >= max)
        BY <2>1, <3>2 DEF ReturnsAt, max
      <3>4. Len(Kept(P, e - 1)) \in Nat /\ Len(Kept(P, e)) <= Len(Kept(P, e - 1)) + 1
        BY <1>1, <3>1, KeptGrows DEF P, c
      <3>5. QED
        BY <1>20, <2>1, <3>3, <3>4
    <2>4. QED
      BY <2>2, <2>3
  <1>22. pc' = "fetching" => \/ low = 1 \/ TooOld(low - 1)
                             \/ max # None /\ Len(out') >= max
    <2> HAVE pc' = "fetching"
    <2>1. CASE stops = {}
      <3>1. c < PageSize
        BY <1>7, <2>1
      <3>2. e = N
        BY <1>2, <1>10, <2>1, <3>1
      <3>3. low = 1
        BY <1>2, <3>2 DEF low
      <3>4. QED
        BY <3>3
    <2>2. CASE stops # {}
      <3>1. ReturnsAt(P, end) /\ end \in 1..c /\ e = end - 1
        BY <1>8, <1>9, <1>10, <1>13, <2>2
      <3>2. CASE TooOld(P[end])
        <4>1. P[end] = low - 1
          <5>1. P[end] = N - end + 1 /\ end \in Nat
            BY <1>2, <1>4, <3>1
          <5>2. QED
            BY <1>2, <3>1, <5>1 DEF low
        <4>2. QED
          BY <3>2, <4>1
      <3>3. CASE max # None /\ Len(out) + Len(Kept(P, end - 1)) >= max
        <4>1. Len(out') >= max
          BY <1>20, <3>1, <3>3
        <4>2. QED
          BY <3>3, <4>1
      <3>4. QED
        BY <3>1, <3>2, <3>3 DEF ReturnsAt, max
    <2>3. QED
      BY <2>1, <2>2
  <1>23. pc' = "paging" => before' = low /\ low <= hi
    <2> HAVE pc' = "paging"
    <2>1. stops = {} /\ ~(c < PageSize)
      BY <1>7
    <2>2. e = c /\ c # 0 /\ c \in 1..c
      BY <1>2, <1>5, <1>10, <2>1
    <2>3. before' = N - c + 1
      BY <1>3, <1>4, <1>7, <2>2
    <2>4. before' = low
      BY <2>2, <2>3 DEF low
    <2>5. low <= hi
      BY <1>2, <1>14, <2>2 DEF low
    <2>6. QED
      BY <2>4, <2>5
  <1>24. before' \in 0..H
    <2>1. CASE P = << >>
      BY <1>5, <1>7, <2>1
    <2>2. CASE P # << >>
      <3>1. c \in 1..c
        BY <1>2, <1>3, <2>2
      <3>2. before' = N - c + 1
        BY <1>3, <1>4, <1>7, <2>2, <3>1
      <3>3. N - c + 1 \in 0..H
        BY <1>2, <1>5, <3>1
      <3>4. QED
        BY <3>2, <3>3
    <2>3. QED
      BY <2>1, <2>2
  <1>25. pc' \in {"paging", "fetching"}
    BY <1>7
  <1>26. seen' = hi
    BY <1>7
  <1>27. QED
    BY <1>14, <1>17, <1>18, <1>19, <1>21, <1>22, <1>23, <1>24, <1>25, <1>26 DEF H, max

LEMMA ConfirmedKeeps ==
    ASSUME ReportInv, Confirmed
    PROVE  ReportInv'
  <1>1. ReportTypes /\ TimesInv /\ PagesInv /\ FetchInv /\ ReturnInv
    BY DEF ReportInv
  <1>2. PICK tx \in Transactions :
            /\ tx.time # None =>
                  \A i \in 1..Len(history) : history[i].time # None => history[i].time <= tx.time
            /\ history' = Append(history, tx)
    BY DEF Confirmed
  <1>3. UNCHANGED <<input, pc, before, out, perTransaction, report, seen, missing>>
    BY DEF Confirmed, listingVars
  <1>4. /\ history' \in Seq(Transactions) /\ Len(history') = Len(history) + 1
        /\ (\A i \in 1..Len(history) : history'[i] = history[i])
        /\ history'[Len(history) + 1] = tx
    BY <1>1, <1>2, AppendProperties DEF ReportTypes
  <1>5. /\ Len(history) \in Nat /\ before \in Nat /\ seen \in Nat /\ seen <= Len(history)
        /\ before <= Len(history)
    BY <1>1, SizesType
  <1>6. before \in 0..Len(history') /\ seen \in 0..Len(history')
    BY <1>4, <1>5
  <1>7. ReportTypes'
    BY <1>1, <1>3, <1>4, <1>6 DEF ReportTypes
  <1>8. TimesInv'
    <2> SUFFICES ASSUME NEW i \in 1..Len(history'), NEW j \in 1..Len(history'), i <= j,
                        history'[i].time # None, history'[j].time # None
                 PROVE  history'[i].time <= history'[j].time
      BY DEF TimesInv
    <2>1. \A k \in 1..Len(history') : k \in 1..Len(history) \/ k = Len(history) + 1
      BY <1>4, <1>5
    <2>2. CASE j \in 1..Len(history)
      <3>1. i \in 1..Len(history)
        BY <1>5, <2>2
      <3>2. QED
        BY <1>1, <1>4, <2>2, <3>1 DEF TimesInv
    <2>3. CASE j = Len(history) + 1 /\ i \in 1..Len(history)
      BY <1>2, <1>4, <2>3
    <2>4. CASE j = Len(history) + 1 /\ i = Len(history) + 1
      <3>1. tx.time \in Nat \cup {None}
        BY HistoryAssumption DEF Transaction
      <3>2. QED
        BY <1>4, <2>4, <3>1
    <2>5. QED
      BY <2>1, <2>2, <2>3, <2>4
  <1>9. \A s \in 1..seen : history'[s] = history[s]
    BY <1>4, <1>5
  <1>10. PagesInv'
    <2>1. \A s \in 1..seen : Wanted(s)' <=> Wanted(s)
      BY <1>3, <1>5, <1>9, WantedStays, WantedIs
    <2>2. {s \in 1..seen : Wanted(s)}' = {s \in 1..seen : Wanted(s)}
      BY <1>3, <2>1
    <2>3. \A n \in 1..seen : (TooOld(n)' <=> TooOld(n)) /\ (Skipped(n)' <=> Skipped(n))
      BY <1>3, <1>9 DEF TooOld, TooNew, Skipped, Seconds
    <2>4. before # 0 => \A n \in before..seen : n \in 1..seen
      BY <1>5
    <2>5. before # 0 /\ (\A n \in before..seen : ~TooOld(n)) => (\A n \in before..seen : ~TooOld(n))'
      BY <1>3, <2>3, <2>4
    <2>6. before # 0 => {s \in before..seen : ~Skipped(s)}' = {s \in before..seen : ~Skipped(s)}
      BY <1>3, <2>3, <2>4
    <2>7. QED
      BY <1>1, <1>3, <2>2, <2>5, <2>6 DEF PagesInv, Descending, ToSet
  <1>11. FetchInv'
    <2>1. \A k \in DOMAIN perTransaction : EntriesOf(out[k])' = EntriesOf(out[k])
      <3> TAKE k \in DOMAIN perTransaction
      <3>1. k \in DOMAIN out
        BY <1>1, LenProperties DEF ReportTypes, PagesInv, FetchInv
      <3>2. out[k] \in 1..seen
        BY <1>1, <3>1 DEF ReportTypes, ToSet
      <3>3. history'[out[k]] = history[out[k]] /\ out' = out
        BY <1>3, <1>9, <3>2
      <3>4. QED
        BY <3>3 DEF EntriesOf, Amount
    <2>2. QED
      BY <1>1, <1>3, <2>1 DEF FetchInv
  <1>12. QED
    BY <1>1, <1>3, <1>7, <1>8, <1>10, <1>11 DEF ReportInv, ReturnInv

LEMMA CheckKeyKeeps ==
    ASSUME ReportInv, CheckKey
    PROVE  ReportInv'
  <1>1. ReportTypes /\ TimesInv /\ PagesInv /\ FetchInv
    BY DEF ReportInv
  <1>2. /\ UNCHANGED <<history, input, before, out, perTransaction, report, seen, missing>>
        /\ pc = "check" /\ pc' \in {"paging", "failed"}
    BY DEF CheckKey
  <1>3. ReportTypes' /\ TimesInv'
    BY <1>1, <1>2 DEF ReportTypes, TimesInv
  <1>4. PagesInv'
    BY <1>1, <1>2 DEF PagesInv, Descending, ToSet
  <1>5. \A k : EntriesOf(out[k])' = EntriesOf(out[k])
    BY <1>2 DEF EntriesOf, Amount
  <1>6. FetchInv'
    BY <1>1, <1>2, <1>5 DEF FetchInv
  <1>7. QED
    BY <1>2, <1>3, <1>4, <1>6 DEF ReportInv, ReturnInv

LEMMA RequestFailsKeeps ==
    ASSUME ReportInv, RequestFails
    PROVE  ReportInv'
  <1>1. ReportTypes /\ TimesInv /\ PagesInv /\ FetchInv
    BY DEF ReportInv
  <1>2. /\ UNCHANGED <<history, input, before, out, perTransaction, report, seen, missing>>
        /\ pc' = "failed"
    BY DEF RequestFails
  <1>3. ReportTypes' /\ TimesInv'
    BY <1>1, <1>2 DEF ReportTypes, TimesInv
  <1>4. PagesInv'
    BY <1>1, <1>2 DEF PagesInv, Descending
  <1>5. \A k : EntriesOf(out[k])' = EntriesOf(out[k])
    BY <1>2 DEF EntriesOf, Amount
  <1>6. FetchInv'
    BY <1>1, <1>2, <1>5 DEF FetchInv
  <1>7. QED
    BY <1>2, <1>3, <1>4, <1>6 DEF ReportInv, ReturnInv

LEMMA ReadPageKeeps ==
    ASSUME ReportInv, ReadPage
    PROVE  ReportInv'
  <1>1. ReportTypes /\ TimesInv /\ PagesInv /\ FetchInv
    BY DEF ReportInv
  <1>2. UNCHANGED <<history, input, perTransaction, report, missing>> /\ pc = "paging"
    BY DEF ReadPage
  <1>3. PICK low \in 1..(seen' + 1) :
              /\ seen' \in 0..Len(history)
              /\ out' \in Seq(Nat) /\ Descending(out')
              /\ ToSet(out') = {s \in low..seen' : ~Skipped(s)}
              /\ \A n \in low..seen' : ~TooOld(n)
              /\ input.maxTransactions # None => Len(out') <= input.maxTransactions
              /\ pc' = "fetching" =>
                    \/ low = 1 \/ TooOld(low - 1)
                    \/ input.maxTransactions # None /\ Len(out') >= input.maxTransactions
              /\ pc' = "paging" => before' = low /\ low <= seen'
              /\ pc' \in {"paging", "fetching"} /\ before' \in 0..Len(history)
    BY ReadPageReads
  <1>4. PICK hi \in 0..Len(history) : hi = seen'
    BY <1>3
  <1>5. Len(history) \in Nat /\ hi \in Nat /\ low \in 1..(hi + 1) /\ low \in Nat /\ low # 0
    <2>1. Len(history) \in Nat
      BY <1>1, SizesType
    <2>2. hi \in Nat
      BY <2>1
    <2>3. low \in 1..(hi + 1)
      BY <1>4
    <2>4. QED
      BY <2>1, <2>2, <2>3
  <1>6. perTransaction = << >> /\ missing = {}
    BY <1>1, <1>2 DEF FetchInv
  <1>7. ReportTypes'
    <2>1. ToSet(out') \subseteq 1..hi
      <3>1. \A s \in low..hi : s \in 1..hi
        BY <1>5
      <3>2. QED
        BY <1>3, <1>4, <3>1
    <2>2. Len(<< >>) = 0 /\ Len(out') \in Nat
      BY <1>3, LenProperties
    <2>3. Len(perTransaction) <= Len(out')
      BY <1>6, <2>2
    <2>4. QED
      BY <1>1, <1>2, <1>3, <1>4, <1>6, <2>1, <2>3 DEF ReportTypes
  <1>8. TimesInv'
    BY <1>1, <1>2 DEF TimesInv
  <1>9. \A s : (TooOld(s)' <=> TooOld(s)) /\ (Skipped(s)' <=> Skipped(s))
    BY <1>2 DEF TooOld, TooNew, Skipped, Seconds
  <1>10. pc' = "fetching" => ToSet(out') = {s \in 1..seen : Wanted(s)}'
    <2> HAVE pc' = "fetching"
    <2>1. \A s \in 1..hi : Wanted(s)' <=> WantedTo(s, hi)
      BY <1>2, <1>4, <1>5, WantedStays
    <2>2. {s \in 1..seen : Wanted(s)}' = {s \in 1..hi : WantedTo(s, hi)}
      BY <1>4, <2>1
    <2> DEFINE q == out'
    <2>3. /\ q \in Seq(Nat) /\ Descending(q) /\ ToSet(q) = {s \in low..hi : ~Skipped(s)}
          /\ (\A n \in low..hi : ~TooOld(n))
          /\ (input.maxTransactions # None => Len(q) <= input.maxTransactions)
          /\ \/ low = 1 \/ TooOld(low - 1)
             \/ input.maxTransactions # None /\ Len(q) >= input.maxTransactions
      BY <1>3, <1>4
    <2> HIDE DEF q
    <2>4. ToSet(q) = {s \in 1..hi : WantedTo(s, hi)}
      BY <1>1, <1>5, <2>3, ReadIsWanted
    <2>5. QED
      BY <2>2, <2>4 DEF q
  <1>11. pc' = "paging" =>
            /\ before' # 0 /\ before' <= seen'
            /\ (\A n \in before..seen : ~TooOld(n))'
            /\ ToSet(out)' = {s \in before..seen : ~Skipped(s)}'
    <2> HAVE pc' = "paging"
    <2>1. before' = low /\ low <= seen'
      BY <1>3
    <2>2. QED
      BY <1>3, <1>5, <1>9, <2>1 DEF ToSet
  <1>12. PagesInv'
    BY <1>3, <1>10, <1>11 DEF PagesInv, Descending, ToSet
  <1>13. FetchInv'
    <2>1. DOMAIN << >> = {}
      OBVIOUS
    <2>2. perTransaction' = << >> /\ missing' = {}
      BY <1>2, <1>6
    <2>3. QED
      BY <1>1, <1>6, <2>1, <2>2 DEF FetchInv
  <1>14. QED
    BY <1>3, <1>7, <1>8, <1>12, <1>13 DEF ReportInv, ReturnInv

LEMMA EntriesType ==
    ASSUME ReportTypes, NEW s \in 1..Len(history)
    PROVE  EntriesOf(s) \in Seq(Entry)
  <1> DEFINE ixs == history[s].ixs
             g == [i \in DOMAIN ixs |->
                      IF ixs[i].ofMint /\ ixs[i].kind # "other"
                      THEN << [signature |-> s, kind |-> ixs[i].kind, amount |-> Amount(ixs[i])] >>
                      ELSE << >>]
  <1>1. ixs \in Seq(Instruction)
    BY TransactionType
  <1>2. Len(ixs) \in Nat /\ DOMAIN ixs = 1..Len(ixs) /\ s \in Nat
    BY <1>1, LenProperties
  <1>3. ASSUME NEW ix \in Instruction
        PROVE  [signature |-> s, kind |-> ix.kind, amount |-> Amount(ix)] \in Entry
    <2>1. ix.kind \in InstructionKinds /\ ix.amt \in Nat
      BY DEF Instruction
    <2>2. Amount(ix) \in Nat \cup {None}
      BY <2>1 DEF Amount
    <2>3. QED
      BY <1>2, <2>1, <2>2 DEF Entry
  <1>4. \A i \in DOMAIN ixs : ixs[i] \in Instruction
    BY <1>1, <1>2, ElementOfSeq
  <1>5. g \in [1..Len(ixs) -> Seq(Entry)]
    <2>1. \A e \in Entry : << e >> \in Seq(Entry)
      OBVIOUS
    <2>2. << >> \in Seq(Entry)
      OBVIOUS
    <2>3. ASSUME NEW i \in DOMAIN ixs
          PROVE  g[i] \in Seq(Entry)
      <3>1. [signature |-> s, kind |-> ixs[i].kind, amount |-> Amount(ixs[i])] \in Entry
        BY <1>3, <1>4
      <3>2. QED
        BY <2>1, <2>2, <3>1
    <2>4. QED
      BY <1>2, <2>3
  <1>6. EntriesOf(s) = FlattenSeq(g)
    BY DEF EntriesOf
  <1> DEFINE n == Len(ixs)
  <1>7. n \in Nat /\ g \in [1..n -> Seq(Entry)]
    BY <1>2, <1>5
  <1> HIDE DEF g, n
  <1>8. PICK F \in [0..n -> Seq(Entry)] : Appended(F, n, g)
    BY <1>7, FlattenIs
  <1>9. QED
    BY <1>6, <1>7, <1>8 DEF Appended

\* The batch is what comes next.
LEMMA BatchIs ==
    ASSUME ReportInv, Len(perTransaction) < Len(out)
    PROVE  \E b \in 1..(Len(out) - Len(perTransaction)) :
              /\ Batch \in Seq(Nat) /\ Len(Batch) = b /\ DOMAIN Batch = 1..b
              /\ \A k \in 1..b : Batch[k] = out[Len(perTransaction) + k]
  <1> DEFINE from == Len(perTransaction)
             left == Len(out) - from
             b == IF left < Concurrency THEN left ELSE Concurrency
  <1>1. out \in Seq(Nat) /\ perTransaction \in Seq(Seq(Entry))
    BY DEF ReportInv, PagesInv, FetchInv
  <1>2. Len(out) \in Nat /\ DOMAIN out = 1..Len(out) /\ from \in Nat /\ \A i \in 1..Len(out) : out[i] \in Nat
    BY <1>1, LenProperties
  <1>3. Concurrency \in Nat /\ Concurrency >= 1
    <2>1. input.concurrency \in Nat
      BY InputType DEF ReportInv
    <2>2. QED
      BY <2>1 DEF Concurrency
  <1>4. b \in 1..(Len(out) - from)
    BY <1>2, <1>3
  <1>5. Batch = SubSeq(out, from + 1, from + b)
    BY DEF Batch
  <1> HIDE DEF from, left, b
  <1>6. /\ from + 1 \in Int /\ from + b \in Int /\ from + 1 <= from + b
        /\ (from + b) - (from + 1) + 1 = b /\ b \in Nat
    BY <1>2, <1>4
  <1>7. \A i \in (from + 1)..(from + b) : out[i] \in Nat
    BY <1>2, <1>4
  <1>8. /\ Batch \in Seq(Nat) /\ Len(Batch) = b
        /\ \A i \in 1..b : Batch[i] = out[(from + 1) + i - 1]
    BY <1>5, <1>6, <1>7, SubSeqProperties
  <1>9. \A i \in 1..b : (from + 1) + i - 1 = from + i
    BY <1>2, <1>6
  <1>10. DOMAIN Batch = 1..b
    BY <1>8, LenProperties
  <1>11. QED
    BY <1>4, <1>8, <1>9, <1>10 DEF from

LEMMA FetchBatchKeeps ==
    ASSUME ReportInv, FetchBatch
    PROVE  ReportInv'
  <1>1. ReportTypes /\ TimesInv /\ PagesInv /\ FetchInv
    BY DEF ReportInv
  <1>2. /\ UNCHANGED <<history, input, pc, before, out, report, seen>>
        /\ pc = "fetching" /\ Len(perTransaction) < Len(out)
    BY DEF FetchBatch
  <1> DEFINE from == Len(perTransaction)
             Fetched(gone) ==
                [k \in DOMAIN Batch |-> IF Batch[k] \in gone THEN << >> ELSE EntriesOf(Batch[k])]
  <1>3. PICK gone \in SUBSET ToSet(Batch) :
            perTransaction' = perTransaction \o Fetched(gone) /\ missing' = missing \cup gone
    BY DEF FetchBatch
  <1>4. PICK b \in 1..(Len(out) - from) :
              /\ Batch \in Seq(Nat) /\ Len(Batch) = b /\ DOMAIN Batch = 1..b
              /\ \A k \in 1..b : Batch[k] = out[from + k]
    BY <1>2, BatchIs
  <1>5. /\ out \in Seq(Nat) /\ Descending(out) /\ perTransaction \in Seq(Seq(Entry))
        /\ ToSet(out) \subseteq 1..seen
    BY <1>1 DEF PagesInv, FetchInv, ReportTypes
  <1>6. /\ Len(out) \in Nat /\ DOMAIN out = 1..Len(out)
        /\ from \in Nat /\ DOMAIN perTransaction = 1..from
        /\ seen \in Nat /\ seen <= Len(history) /\ Len(history) \in Nat
    BY <1>1, <1>5, LenProperties, SizesType
  <1> HIDE DEF from
  <1>7. b \in Nat /\ b >= 1 /\ from + b <= Len(out)
    BY <1>4, <1>6
  <1>8. ASSUME NEW k \in 1..b
        PROVE  /\ from + k \in DOMAIN out /\ Batch[k] = out[from + k]
               /\ out[from + k] \in 1..Len(history)
    <2>1. from + k \in 1..Len(out)
      BY <1>6, <1>7
    <2>2. out[from + k] \in 1..seen
      BY <1>5, <1>6, <2>1 DEF ToSet
    <2>3. QED
      BY <1>4, <1>6, <2>1, <2>2
  <1> DEFINE G == Fetched(gone)
  <1>9. G \in Seq(Seq(Entry)) /\ Len(G) = b
    <2>1. ASSUME NEW k \in 1..b
          PROVE  (IF Batch[k] \in gone THEN << >> ELSE EntriesOf(Batch[k])) \in Seq(Entry)
      <3>1. EntriesOf(Batch[k]) \in Seq(Entry)
        BY <1>1, <1>8, EntriesType
      <3>2. << >> \in Seq(Entry)
        OBVIOUS
      <3>3. QED
        BY <3>1, <3>2
    <2>2. G \in [1..b -> Seq(Entry)]
      BY <1>4, <2>1
    <2> HIDE DEF G
    <2>3. QED
      BY <1>7, <2>2
  <1>10. \A k \in 1..b : G[k] = IF out[from + k] \in gone THEN << >> ELSE EntriesOf(out[from + k])
    BY <1>4
  <1> HIDE DEF G
  <1>11. /\ perTransaction' \in Seq(Seq(Entry)) /\ Len(perTransaction') = from + b
         /\ \A i \in 1..(from + b) : perTransaction'[i] =
                IF i <= from THEN perTransaction[i] ELSE G[i - from]
    BY <1>3, <1>5, <1>9, ConcatProperties DEF G, from
  <1>12. DOMAIN perTransaction' = 1..(from + b)
    BY <1>11, LenProperties
  <1>13. \A i, j \in 1..Len(out) : out[i] = out[j] => i = j
    <2> TAKE i, j \in 1..Len(out)
    <2>1. out[i] \in Nat /\ out[j] \in Nat /\ i \in Nat /\ j \in Nat
      BY <1>5, <1>6
    <2>2. i < j => out[i] > out[j]
      BY <1>5, <1>6 DEF Descending
    <2>3. j < i => out[j] > out[i]
      BY <1>5, <1>6 DEF Descending
    <2>4. QED
      BY <2>1, <2>2, <2>3
  <1>14. gone \subseteq {out[from + k] : k \in 1..b}
    BY <1>4 DEF ToSet
  <1>15. missing \subseteq {out[i] : i \in 1..from}
    BY <1>1, <1>6 DEF FetchInv
  <1>16. \A i \in 1..from : i \in 1..Len(out) /\ i \in 1..(from + b)
    BY <1>6, <1>7
  <1>17. \A k \in 1..b : from + k \in 1..(from + b) /\ from + k \in 1..Len(out)
    BY <1>6, <1>7
  <1>18. ASSUME NEW i \in 1..(from + b)
         PROVE  perTransaction'[i] = IF out[i] \in missing' THEN << >> ELSE EntriesOf(out[i])
    <2>1. i \in 1..Len(out) /\ i \in Nat
      BY <1>6, <1>7
    <2>2. CASE i <= from
      <3>1. i \in 1..from
        BY <1>6, <2>1, <2>2
      <3>2. \A k \in 1..b : from + k # i
        BY <1>6, <3>1
      <3>3. out[i] \notin gone
        BY <1>13, <1>14, <1>17, <2>1, <3>2
      <3>4. out[i] \in missing' <=> out[i] \in missing
        BY <1>3, <3>3
      <3>5. perTransaction[i] = IF out[i] \in missing THEN << >> ELSE EntriesOf(out[i])
        BY <1>1, <1>6, <3>1 DEF FetchInv
      <3>6. QED
        BY <1>11, <2>2, <3>4, <3>5
    <2>3. CASE ~(i <= from)
      <3>1. i - from \in 1..b /\ from + (i - from) = i /\ \A j \in 1..from : j # i
        BY <1>6, <1>7, <2>3
      <3>2. out[i] \notin missing
        BY <1>13, <1>15, <1>16, <2>1, <3>1
      <3>3. out[i] \in missing' <=> out[i] \in gone
        BY <1>3, <3>2
      <3>4. G[i - from] = IF out[i] \in gone THEN << >> ELSE EntriesOf(out[i])
        BY <1>10, <3>1
      <3>5. QED
        BY <1>11, <2>3, <3>3, <3>4
    <2>4. QED
      BY <2>2, <2>3
  <1>19. \A s : EntriesOf(s)' = EntriesOf(s)
    BY <1>2 DEF EntriesOf, Amount
  <1>20. missing' \subseteq {out[i] : i \in 1..(from + b)}
    <2>1. \A x \in missing : x \in {out[i] : i \in 1..(from + b)}
      BY <1>15, <1>16
    <2>2. \A x \in gone : x \in {out[i] : i \in 1..(from + b)}
      BY <1>14, <1>17
    <2>3. QED
      BY <1>3, <2>1, <2>2
  <1>21. FetchInv'
    <2>1. out' = out /\ pc' = "fetching"
      BY <1>2
    <2>2. \A k \in 1..(from + b) : perTransaction'[k] =
              IF out'[k] \in missing' THEN << >> ELSE EntriesOf(out[k])'
      BY <1>18, <1>19, <2>1
    <2>3. QED
      BY <1>11, <1>12, <1>20, <2>1, <2>2 DEF FetchInv
  <1>22. missing' \subseteq ToSet(out)
    <2>1. \A i \in 1..(from + b) : i \in DOMAIN out
      BY <1>6, <1>7
    <2>2. QED
      BY <1>20, <2>1 DEF ToSet
  <1>23. ReportTypes'
    BY <1>1, <1>2, <1>7, <1>11, <1>22 DEF ReportTypes, ToSet
  <1>24. TimesInv'
    BY <1>1, <1>2 DEF TimesInv
  <1>25. PagesInv'
    <2>1. \A s : Wanted(s)' <=> Wanted(s)
      BY <1>2 DEF Wanted, InPeriod, TooOld, TooNew, Seconds
    <2>2. {s \in 1..seen : Wanted(s)}' = {s \in 1..seen : Wanted(s)}
      BY <1>2, <2>1
    <2>3. QED
      BY <1>1, <1>2, <2>2 DEF PagesInv, Descending, ToSet
  <1>26. QED
    BY <1>2, <1>21, <1>23, <1>24, <1>25 DEF ReportInv, ReturnInv

LEMMA ReturnReportKeeps ==
    ASSUME ReportInv, ReturnReport
    PROVE  ReportInv'
  <1>1. ReportTypes /\ TimesInv /\ PagesInv /\ FetchInv
    BY DEF ReportInv
  <1>2. /\ UNCHANGED <<history, input, before, out, perTransaction, seen, missing>>
        /\ pc = "fetching" /\ pc' = "done" /\ Len(perTransaction) = Len(out)
        /\ report' = FlattenSeq(Reverse(perTransaction))
    BY DEF ReturnReport
  <1>3. ReportTypes' /\ TimesInv'
    BY <1>1, <1>2 DEF ReportTypes, TimesInv
  <1>4. PagesInv'
    <2>1. \A s : Wanted(s)' <=> Wanted(s)
      BY <1>2 DEF Wanted, InPeriod, TooOld, TooNew, Seconds
    <2>2. {s \in 1..seen : Wanted(s)}' = {s \in 1..seen : Wanted(s)}
      BY <1>2, <2>1
    <2>3. QED
      BY <1>1, <1>2, <2>2 DEF PagesInv, Descending, ToSet
  <1>5. \A k : EntriesOf(out[k])' = EntriesOf(out[k])
    BY <1>2 DEF EntriesOf, Amount
  <1>6. FetchInv'
    BY <1>1, <1>2, <1>5 DEF FetchInv
  <1>7. ReturnInv'
    BY <1>2 DEF ReturnInv
  <1>8. QED
    BY <1>3, <1>4, <1>6, <1>7 DEF ReportInv

LEMMA ReportStutters == ASSUME ReportInv, UNCHANGED reportVars PROVE ReportInv'
  <1>1. UNCHANGED <<history, input, pc, before, out, perTransaction, report, seen, missing>>
    BY DEF reportVars, listingVars
  <1>2. ReportTypes' /\ TimesInv' /\ ReturnInv'
    BY <1>1 DEF ReportInv, ReportTypes, TimesInv, ReturnInv
  <1>3. \A s : Wanted(s)' <=> Wanted(s)
    BY <1>1 DEF Wanted, InPeriod, TooOld, TooNew, Seconds
  <1>4. \A s : TooOld(s)' <=> TooOld(s) /\ (Skipped(s)' <=> Skipped(s))
    BY <1>1 DEF TooOld, TooNew, Skipped, Seconds
  <1>5. {s \in 1..seen : Wanted(s)}' = {s \in 1..seen : Wanted(s)}
    BY <1>1, <1>3
  <1>6. PagesInv'
    BY <1>1, <1>4, <1>5 DEF ReportInv, PagesInv, Descending, ToSet, Skipped, TooNew, TooOld, Seconds
  <1>7. \A k : EntriesOf(out[k])' = EntriesOf(out[k])
    BY <1>1 DEF EntriesOf, Amount
  <1>8. FetchInv'
    BY <1>1, <1>7 DEF ReportInv, FetchInv
  <1>9. QED
    BY <1>2, <1>6, <1>8 DEF ReportInv

LEMMA ReportStep == ReportInv /\ [ReportNext]_reportVars => ReportInv'
  <1> SUFFICES ASSUME ReportInv, [ReportNext]_reportVars PROVE ReportInv'
    OBVIOUS
  <1>1. CASE Confirmed
    BY <1>1, ConfirmedKeeps
  <1>2. CASE CheckKey
    BY <1>2, CheckKeyKeeps
  <1>3. CASE ReadPage
    BY <1>3, ReadPageKeeps
  <1>4. CASE FetchBatch
    BY <1>4, FetchBatchKeeps
  <1>5. CASE ReturnReport
    BY <1>5, ReturnReportKeeps
  <1>6. CASE RequestFails
    BY <1>6, RequestFailsKeeps
  <1>7. CASE UNCHANGED reportVars
    BY <1>7, ReportStutters
  <1>8. QED
    BY <1>1, <1>2, <1>3, <1>4, <1>5, <1>6, <1>7 DEF ReportNext, CallStep

\* Backwards and flattened, what was fetched is the report that was wanted.
LEMMA ReportFollows ==
    ASSUME ReportInv
    PROVE  ReportIsExact
  <1> SUFFICES ASSUME pc = "done"
               PROVE  report = FlattenSeq([s \in 1..seen |->
                          IF Wanted(s) /\ s \notin missing THEN EntriesOf(s) ELSE << >>])
    BY DEF ReportIsExact, ReportInv, EntriesOf
  <1> DEFINE m == Len(out)
             g == [s \in 1..seen |->
                      IF Wanted(s) /\ s \notin missing THEN EntriesOf(s) ELSE << >>]
             r == [i \in 1..m |-> out[m - i + 1]]
  <1>1. /\ ReportTypes /\ out \in Seq(Nat) /\ Descending(out)
        /\ ToSet(out) = {s \in 1..seen : Wanted(s)}
        /\ perTransaction \in Seq(Seq(Entry)) /\ Len(perTransaction) = m
        /\ \A k \in DOMAIN perTransaction :
              perTransaction[k] = IF out[k] \in missing THEN << >> ELSE EntriesOf(out[k])
        /\ report = FlattenSeq(Reverse(perTransaction))
    BY DEF ReportInv, PagesInv, FetchInv, ReturnInv
  <1>2. /\ m \in Nat /\ DOMAIN out = 1..m /\ DOMAIN perTransaction = 1..m
        /\ seen \in Nat /\ seen <= Len(history) /\ Len(history) \in Nat
    BY <1>1, LenProperties, SizesType
  <1> HIDE DEF m
  <1>3. \A i \in 1..m : m - i + 1 \in 1..m /\ m - (m - i + 1) + 1 = i
    BY <1>2
  <1>4. \A i \in 1..m : out[i] \in 1..seen /\ Wanted(out[i])
    <2> TAKE i \in 1..m
    <2>1. out[i] \in ToSet(out)
      BY <1>2 DEF ToSet
    <2>2. QED
      BY <1>1, <2>1
  <1>5. g \in [1..seen -> Seq(Entry)]
    <2>1. \A s \in 1..seen : EntriesOf(s) \in Seq(Entry)
      <3> TAKE s \in 1..seen
      <3>1. s \in 1..Len(history)
        BY <1>2
      <3>2. QED
        BY <1>1, <3>1, EntriesType
    <2>2. << >> \in Seq(Entry)
      OBVIOUS
    <2>3. QED
      BY <2>1, <2>2
  <1>6. r \in [1..m -> 1..seen] /\ \A i \in 1..m : r[i] = out[m - i + 1]
    BY <1>3, <1>4
  <1>7. \A s \in 1..seen : g[s] = IF Wanted(s) /\ s \notin missing THEN EntriesOf(s) ELSE << >>
    OBVIOUS
  <1>8. Reverse(perTransaction) = [i \in 1..m |-> perTransaction[m - i + 1]]
    BY <1>1 DEF Reverse
  <1> HIDE DEF g, r
  <1>9. \A i \in 1..m : perTransaction[m - i + 1] = g[r[i]]
    <2> TAKE i \in 1..m
    <2>1. m - i + 1 \in 1..m /\ r[i] = out[m - i + 1] /\ r[i] \in 1..seen /\ Wanted(r[i])
      BY <1>3, <1>4, <1>6
    <2>2. perTransaction[m - i + 1] = IF r[i] \in missing THEN << >> ELSE EntriesOf(r[i])
      BY <1>1, <1>2, <2>1
    <2>3. QED
      BY <1>7, <2>1, <2>2
  <1> DEFINE h == Reverse(perTransaction)
  <1>10. /\ h \in [1..m -> Seq(Entry)]
         /\ \A i \in 1..m : h[i] = g[r[i]]
    BY <1>5, <1>6, <1>8, <1>9
  <1>11. \A i, j \in 1..m : i < j => r[i] < r[j]
    <2> TAKE i, j \in 1..m
    <2> HAVE i < j
    <2>1. m - i + 1 \in 1..m /\ m - j + 1 \in 1..m /\ m - j + 1 < m - i + 1
      BY <1>2, <1>3
    <2>2. out[m - j + 1] > out[m - i + 1]
      BY <1>1, <1>2, <2>1 DEF Descending
    <2>3. r[i] \in 1..seen /\ r[j] \in 1..seen /\ r[i] = out[m - i + 1] /\ r[j] = out[m - j + 1]
      BY <1>6
    <2>4. QED
      BY <1>2, <2>2, <2>3
  <1>12. ASSUME NEW k \in 1..seen, \A i \in 1..m : r[i] # k
         PROVE  g[k] = << >>
    <2>1. \A i \in 1..m : out[i] # k
      <3> TAKE i \in 1..m
      <3>1. r[m - i + 1] = out[i]
        BY <1>3, <1>6
      <3>2. QED
        BY <1>3, <1>12, <3>1
    <2>2. k \notin ToSet(out)
      BY <1>2, <2>1 DEF ToSet
    <2>3. ~Wanted(k)
      BY <1>1, <2>2
    <2>4. QED
      BY <1>7, <2>3
  <1> HIDE DEF h
  <1>13. FlattenSeq(g) = FlattenSeq(h)
    <2>1. Thins(Entry, r, h, m, g, seen)
      BY <1>2, <1>5, <1>6, <1>10, <1>11, <1>12 DEF Thins
    <2>2. QED
      BY <2>1, FlattenSkipsEmpty
  <1>14. QED
    BY <1>1, <1>13 DEF g, h

-----------------------------------------------------------------------------
(* The theorem.                                                            *)

\* listConfidentialActivity: for every history, every input, every size of a page
\* and every number of transactions fetched at a time, a report that is returned
\* lists every wanted transaction once, the oldest first, and nothing else.
THEOREM ReportIsExactHolds == ReportSpec => []ReportIsExact
  <1>1. ReportInv => ReportIsExact
    BY ReportFollows
  <1>2. QED
    BY <1>1, ReportInvInit, ReportStep, PTL DEF ReportSpec

\* How far the call is.
Stage(p) == CASE p = "check"    -> 0
              [] p = "paging"   -> 1
              [] p = "fetching" -> 2
              [] OTHER          -> 3

\* It enters the next part, or pages further back than before, or has fetched more of
\* the signatures it settled on.
Advances ==
    \/ Stage(pc') > Stage(pc)
    \/ pc = "paging" /\ pc' = "paging" /\ before' # 0 /\ (before = 0 \/ before' < before)
    \/ /\ pc = "fetching" /\ pc' = "fetching" /\ out' = out
       /\ Len(perTransaction) < Len(perTransaction') /\ Len(perTransaction') <= Len(out)

LEMMA ReadPageAdvances == ASSUME ReportInv, ReadPage PROVE Advances
  <1> DEFINE N == Newest
             c == Len(Page)
             P == Page
  <1>1. pc = "paging" /\ pc' \in {"paging", "fetching"}
    BY DEF ReadPage
  <1>2. CASE pc' = "fetching"
    BY <1>1, <1>2 DEF Advances, Stage
  <1>3. CASE pc' = "paging"
    <2>1. ReportTypes /\ before \in Nat /\ PageSize \in Nat /\ PageSize > 0
      BY SizesType, LimitAssumption DEF ReportInv
    <2>2. /\ N \in Nat /\ c \in Nat /\ DOMAIN P = 1..c /\ (P = << >> <=> c = 0)
          /\ \A k \in 1..c : P[k] = N - k + 1
      BY <2>1, PageIs
    <2>3. ~(c < PageSize) /\ before' = IF P = << >> THEN before ELSE P[c]
      BY <1>3 DEF ReadPage
    <2>4. N = IF before = 0 THEN Len(history) ELSE before - 1
      BY DEF Newest
    <2> HIDE DEF N, c, P
    <2>5. c \in 1..c /\ c >= 1
      BY <2>1, <2>2, <2>3
    <2>6. before' = N - c + 1
      BY <2>2, <2>3, <2>5
    <2>7. before # 0 => before' < before
      BY <2>1, <2>2, <2>4, <2>5, <2>6
    <2>8. before' # 0
      <3>1. PICK low \in 1..(seen' + 1) : before' = low /\ low <= seen' /\ seen' \in 0..Len(history)
        BY <1>3, ReadPageReads
      <3>2. QED
        BY <3>1
    <2>9. QED
      BY <1>1, <1>3, <2>7, <2>8 DEF Advances
  <1>4. QED
    BY <1>1, <1>2, <1>3

LEMMA FetchBatchAdvances == ASSUME ReportInv, FetchBatch PROVE Advances
  <1> DEFINE from == Len(perTransaction)
             m == Len(out)
  <1>1. pc = "fetching" /\ pc' = "fetching" /\ out' = out /\ from < m
    BY DEF FetchBatch
  <1>2. PICK b \in 1..(m - from) : Len(Batch) = b /\ DOMAIN Batch = 1..b
    BY <1>1, BatchIs
  <1>3. from \in Nat /\ m \in Nat /\ perTransaction \in Seq(Seq(Entry))
    BY LenProperties DEF ReportInv, PagesInv, FetchInv
  <1>4. PICK gone \in SUBSET ToSet(Batch) :
            perTransaction' = perTransaction \o
                [k \in DOMAIN Batch |-> IF Batch[k] \in gone THEN << >> ELSE EntriesOf(Batch[k])]
    BY DEF FetchBatch
  <1>5. QED
    BY <1>1, <1>2, <1>3, <1>4 DEF Advances

\* signaturesOf and the loop over the batches: no turn of either is in vain, whatever
\* the page size, the concurrency that was asked for and the history that grows
\* meanwhile.  Nothing but the call changes what this measures, and the cursor and
\* the signatures are finite, so a call whose requests are answered ends.
THEOREM CallStepsAdvance == ReportInv /\ CallStep => Advances
  <1> SUFFICES ASSUME ReportInv, CallStep PROVE Advances
    OBVIOUS
  <1>1. CASE CheckKey
    BY <1>1 DEF CheckKey, Advances, Stage
  <1>2. CASE ReadPage
    BY <1>2, ReadPageAdvances
  <1>3. CASE FetchBatch
    BY <1>3, FetchBatchAdvances
  <1>4. CASE ReturnReport
    BY <1>4 DEF ReturnReport, Advances, Stage
  <1>5. QED
    BY <1>1, <1>2, <1>3, <1>4 DEF CallStep
=============================================================================
