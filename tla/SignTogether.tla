---------------------------- MODULE SignTogether ----------------------------
(***************************************************************************)
(* signTransactionMessagesTogether: several transactions are signed by     *)
(* several signers, each asked once for all it has to sign.  The wallets   *)
(* are asked one after the other, and may change what they sign; then the  *)
(* keypairs are asked all at the same time, and each answer is written     *)
(* into transactions that other answers have changed since it was asked.   *)
(***************************************************************************)
EXTENDS Naturals, FiniteSets

CONSTANTS
    Txs,            \* the transactions
    NumSigners,     \* how many signers there are
    MaxBody         \* bound: how often a transaction is changed

ASSUME SignersAssumption == NumSigners \in Nat \ {0} /\ MaxBody \in Nat

Signers == 1..NumSigners     \* in the order the transactions name them first

\* Which interfaces of @solana/kit a signer has: that of a modifying signer, of
\* a partial signer, both, or neither (it can only send what it signs).
Kinds == {"modifying", "partial", "both", "neither"}

VARIABLES
    kind,           \* Signers -> Kinds
    signersByTx,    \* Txs -> the signers it needs
    body,           \* transactions: which version of its message each one has
    signatures,     \* transactions: who signed, and which version
    lifetime,       \* the transactions that carry a lifetimeConstraint
    stage,          \* "modifying", "partial", "returned" or "failed"
    asked,          \* the signers asked that have not answered
    handed,         \* Signers -> Txs -> the version the signer was given
    answered,       \* the signers that answered
    refused,        \* history: some signer refused
    overwrote       \* history: a wallet changed what another had signed

txVars   == <<body, signatures, lifetime>>
callVars == <<stage, asked, handed, answered>>
vars     == <<kind, signersByTx, txVars, callVars, refused, overwrote>>

Init ==
    /\ kind \in [Signers -> Kinds]
    /\ signersByTx \in [Txs -> SUBSET Signers \ {{}}]
    /\ \A s \in Signers : \E t \in Txs : s \in signersByTx[t]
    /\ body = [t \in Txs |-> 0]
    /\ signatures = [t \in Txs |-> {}]
    /\ lifetime = Txs
    /\ stage = "modifying"
    /\ asked = {} /\ answered = {}
    /\ handed = [s \in Signers |-> body]
    /\ refused = FALSE /\ overwrote = FALSE

-----------------------------------------------------------------------------
(* Who signs how.                                                          *)

Modifying     == {s \in Signers : kind[s] \in {"modifying", "both"}}
ModifyingOnly == {s \in Modifying : kind[s] # "both"}

\* Those asked as wallets: the ones that can sign in no other way or, when there
\* are none, the first that can.
ModifyingSigners ==
    IF ModifyingOnly # {} THEN ModifyingOnly
    ELSE {s \in Modifying : \A r \in Modifying : s <= r}

PartialSigners == {s \in Signers : kind[s] \in {"partial", "both"}} \ ModifyingSigners

Needs(s) == {t \in Txs : s \in signersByTx[t]}

-----------------------------------------------------------------------------
(* The call.                                                               *)

\* Variant: all wallets are asked at the same time.
AskAnyWallet(s) ==
    /\ stage = "modifying" /\ s \in ModifyingSigners \ (answered \cup asked)
    /\ asked' = asked \cup {s}
    /\ handed' = [handed EXCEPT ![s] = body]
    /\ UNCHANGED <<kind, signersByTx, txVars, stage, answered, refused, overwrote>>

\* The next wallet is given the transactions as the last one left them.
AskWallet(s) ==
    /\ stage = "modifying" /\ s \in ModifyingSigners \ answered
    /\ asked = {}
    /\ \A r \in ModifyingSigners \ answered : s <= r
    /\ asked' = {s}
    /\ handed' = [handed EXCEPT ![s] = body]
    /\ UNCHANGED <<kind, signersByTx, txVars, stage, answered, refused, overwrote>>

\* A wallet answers: of each transaction it was given it may have changed the
\* message, which makes earlier signatures of it worthless, whether it keeps
\* them or not, and dropped the lifetime.  What it returns replaces the
\* transaction.
WalletSigns(s) ==
    /\ stage = "modifying" /\ s \in asked
    /\ \E changed \in SUBSET {t \in Needs(s) : handed[s][t] < MaxBody},
          kept \in BOOLEAN, dropped \in SUBSET Needs(s) :
          LET version(t) == IF t \in changed THEN handed[s][t] + 1 ELSE handed[s][t] IN
          /\ body' = [t \in Txs |-> IF t \in Needs(s) THEN version(t) ELSE body[t]]
          /\ signatures' = [t \in Txs |->
                IF t \notin Needs(s) THEN signatures[t]
                ELSE {<<s, version(t)>>} \cup (IF t \in changed /\ ~kept THEN {} ELSE signatures[t])]
          /\ lifetime' = lifetime \ dropped
          /\ overwrote' = (overwrote \/ \E t \in changed : signatures[t] # {})
    /\ asked' = asked \ {s} /\ answered' = answered \cup {s}
    /\ UNCHANGED <<kind, signersByTx, stage, handed, refused>>

\* Promise.all: every keypair is asked before any of them answers.
AskPartial ==
    /\ stage = "modifying" /\ ModifyingSigners \subseteq answered
    /\ stage' = "partial" /\ asked' = PartialSigners
    /\ handed' = [s \in Signers |-> IF s \in PartialSigners THEN body ELSE handed[s]]
    /\ UNCHANGED <<kind, signersByTx, txVars, answered, refused, overwrote>>

\* Variant: the answer is written into the transactions the keypair was given.
PartialOverwrites(s) ==
    /\ stage = "partial" /\ s \in asked
    /\ signatures' = [t \in Txs |->
          IF t \in Needs(s)
          THEN {x \in signatures[t] : x[1] \in ModifyingSigners} \cup {<<s, handed[s][t]>>}
          ELSE signatures[t]]
    /\ asked' = asked \ {s} /\ answered' = answered \cup {s}
    /\ UNCHANGED <<kind, signersByTx, body, lifetime, stage, handed, refused, overwrote>>

\* A keypair answers: its signatures are added to the transactions as they are
\* by now.
PartialSigns(s) ==
    /\ stage = "partial" /\ s \in asked
    /\ signatures' = [t \in Txs |-> IF t \in Needs(s) THEN signatures[t] \cup {<<s, handed[s][t]>>}
                                    ELSE signatures[t]]
    /\ asked' = asked \ {s} /\ answered' = answered \cup {s}
    /\ UNCHANGED <<kind, signersByTx, body, lifetime, stage, handed, refused, overwrote>>

\* A signer refuses, and the call throws.
Refuses(s) ==
    /\ stage \in {"modifying", "partial"} /\ s \in asked
    /\ stage' = "failed" /\ refused' = TRUE
    /\ UNCHANGED <<kind, signersByTx, txVars, asked, handed, answered, overwrote>>

\* assertIsFullySignedTransaction
FullySigned(t) == \A s \in signersByTx[t] : \E x \in signatures[t] : x[1] = s

\* Every answer is in: the transactions are returned if they are fully signed,
\* each with a lifetime.
Return ==
    /\ stage = "partial" /\ asked = {}
    /\ IF \A t \in Txs : FullySigned(t)
       THEN stage' = "returned" /\ lifetime' = Txs
       ELSE stage' = "failed" /\ UNCHANGED lifetime
    /\ UNCHANGED <<kind, signersByTx, body, signatures, asked, handed, answered, refused, overwrote>>

Next ==
    \/ \E s \in Signers : AskWallet(s) \/ WalletSigns(s) \/ PartialSigns(s) \/ Refuses(s)
    \/ AskPartial \/ Return

Spec == Init /\ [][Next]_vars

-----------------------------------------------------------------------------
(* Properties.                                                             *)

Versions == 0..MaxBody

\* Types of the variables.
TypeOK ==
    /\ kind \in [Signers -> Kinds] /\ signersByTx \in [Txs -> SUBSET Signers]
    /\ body \in [Txs -> Versions]
    /\ signatures \in [Txs -> SUBSET (Signers \X Versions)]
    /\ lifetime \subseteq Txs
    /\ stage \in {"modifying", "partial", "returned", "failed"}
    /\ asked \subseteq Signers /\ answered \subseteq Signers
    /\ ModifyingSigners \subseteq Signers /\ PartialSigners \subseteq Signers
    /\ handed \in [Signers -> [Txs -> Versions]]
    /\ refused \in BOOLEAN /\ overwrote \in BOOLEAN

\* signTransactionMessagesTogether: what is returned can be sent.  Every
\* transaction has a lifetime and all its signatures, and each signature is of
\* the message the transaction has, unless a wallet changed a transaction that
\* another wallet had signed.  (TypeOK is a conjunct.)
ReturnedCanBeSent ==
    /\ TypeOK
    /\ stage = "returned" =>
        \A t \in Txs :
            /\ t \in lifetime /\ FullySigned(t)
            /\ overwrote \/ \A x \in signatures[t] : x[2] = body[t]

\* signTransactionMessagesTogether: it does not lose a signature.  The call
\* fails only when a signer refused, when one can do nothing but send, or when
\* a wallet changed what another wallet had signed.
FailsForAReason ==
    stage = "failed" =>
        \/ refused \/ overwrote
        \/ \E s \in Signers : kind[s] = "neither"
=============================================================================
