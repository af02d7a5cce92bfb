------------------------------- MODULE WebApp -------------------------------
(***************************************************************************)
(* The web app of examples/vite, the pattern the SDK asks applications to  *)
(* follow: connect a wallet, derive the confidential keys once from a      *)
(* message it signs, keep them, and pass them to every call.  The visitor  *)
(* may edit the inputs and press buttons while a call is awaited.  Every   *)
(* call of the SDK awaits the load of WasmLoader, which the page starts.   *)
(***************************************************************************)
EXTENDS WasmLoader, FiniteSets

CONSTANTS
    Wallets,        \* the wallets in the browser
    Mints,          \* the mints there are
    DecimalsOf      \* Mints -> their decimals

ASSUME AppAssumption == {"init", "app"} \subseteq Callers

NoWallet == "no wallet"
NotAMint == "not an address"        \* what isAddress refuses

VARIABLES
    kind,           \* Wallets -> how it signs messages: "partial", "modifying", "cannot"
    signer, keys, mintDecimals, \* the page's globals; keys: whose, and of which message
    mintInput,      \* the input box
    op, pc,         \* the button that runs (busy), and what it awaits
    chosen,         \* the wallet it connects
    wanted,         \* the mint a currentMint() that is awaited looks up
    got,            \* what currentMint() returned
    call,           \* the call of the SDK that is made
    view            \* the balances shown: whose, of which mint, with which decimals and keys

appVars == <<kind, signer, keys, mintDecimals, mintInput, op, pc, chosen, wanted, got, call, view>>
vars    == <<loaderVars, appVars>>

busy == op # "none"

NoKeys  == [of |-> NoWallet, signed |-> "nothing"]
NoMint  == [mint |-> NotAMint, decimals |-> 0]
NoCall  == [op |-> "none", owner |-> NoWallet, mint |-> NotAMint, decimals |-> 0, keys |-> NoKeys]
NoView  == [owner |-> NoWallet, mint |-> NotAMint, decimals |-> 0, keys |-> NoKeys]

\* The calls that take an amount, and those that take the keys.
TakesAmount == {"deposit", "transfer", "withdraw"}
TakesKeys   == {"setup", "apply", "transfer", "withdraw"}
Buttons     == {"unlock", "setup", "refresh", "apply"} \cup TakesAmount

Init ==
    /\ kind \in [Wallets -> {"partial", "modifying", "cannot"}]
    /\ signer = NoWallet /\ keys = NoKeys /\ mintDecimals = NoMint
    /\ mintInput \in Mints \cup {NotAMint}
    /\ op = "none" /\ pc = "idle" /\ chosen = NoWallet /\ wanted = NotAMint
    /\ got = NoMint /\ call = NoCall /\ view = NoView
    \* void initConfidentialTransfers()
    /\ loads = <<"pending">> /\ loading = 1 /\ loaded = FALSE
    /\ awaits = [c \in Callers |-> IF c = "init" THEN 1 ELSE 0]

\* Variant: no finally.
StaysBusy ==
    pc' = "idle" /\ chosen' = NoWallet /\ wanted' = NotAMint /\ got' = NoMint /\ call' = NoCall
    /\ UNCHANGED op

\* run: the action returned or threw.
End ==
    /\ op' = "none" /\ pc' = "idle"
    /\ chosen' = NoWallet /\ wanted' = NotAMint /\ got' = NoMint /\ call' = NoCall

locals == <<op, pc, chosen, wanted, got, call>>

\* An await ends and the next one is p; nothing else changes.
GoTo(p) == pc' = p /\ UNCHANGED <<op, chosen, wanted, got, call>>

\* refresh(): it reads the input again.
Refresh ==
    IF mintInput = NotAMint THEN End
    ELSE /\ pc' = "refresh mint" /\ wanted' = mintInput /\ call' = NoCall
         /\ UNCHANGED <<op, chosen, got>>

-----------------------------------------------------------------------------
(* Pressing buttons and connecting.                                        *)

EditMint(m) ==
    /\ m # mintInput /\ mintInput' = m
    /\ UNCHANGED <<loaderVars, kind, signer, keys, mintDecimals, locals, view>>

\* The button of a wallet works also while another wallet is connected.
PressConnect(w) ==
    /\ ~busy /\ op' = "connect" /\ pc' = "connect" /\ chosen' = w
    /\ UNCHANGED <<loaderVars, kind, signer, keys, mintDecimals, mintInput, wanted, got, call, view>>

\* Variant: the keys stay.
ConnectsKeepingKeys ==
    /\ pc = "connect" /\ signer' = chosen /\ End
    /\ UNCHANGED <<loaderVars, kind, keys, mintDecimals, mintInput, view>>

\* connectWallet returned a signer: the keys were another wallet's.
Connected ==
    /\ pc = "connect" /\ signer' = chosen /\ keys' = NoKeys /\ End
    /\ UNCHANGED <<loaderVars, kind, mintDecimals, mintInput, view>>

\* The wallet refuses, or has no account on this chain.
ConnectFails ==
    /\ pc = "connect" /\ End
    /\ UNCHANGED <<loaderVars, kind, signer, keys, mintDecimals, mintInput, view>>

\* Unlocking needs a wallet and the other buttons the keys (`disabled`).  Without a
\* mint address in the box the action throws at once.
Press(o) ==
    /\ ~busy /\ mintInput # NotAMint
    /\ IF o = "unlock" THEN signer # NoWallet ELSE keys # NoKeys
    /\ op' = o /\ pc' = (IF o = "refresh" THEN "refresh mint" ELSE "mint") /\ wanted' = mintInput
    /\ UNCHANGED <<loaderVars, kind, signer, keys, mintDecimals, mintInput, chosen, got, call, view>>

-----------------------------------------------------------------------------
(* currentMint() and what follows it.                                      *)

\* Variant: the decimals are read once, whatever the mint.
DecimalsReadOnce ==
    [mint |-> wanted, decimals |-> IF mintDecimals = NoMint THEN DecimalsOf[wanted]
                                   ELSE mintDecimals.decimals]

\* What currentMint() returns: the mint of the box when it was called.
LookedUp == [mint |-> wanted, decimals |-> DecimalsOf[wanted]]

\* The call of the SDK with the globals as they are now.
CallNow(m) ==
    [op |-> op, owner |-> signer, mint |-> m.mint, keys |-> IF op \in TakesKeys THEN keys ELSE NoKeys,
     decimals |-> IF op \in TakesAmount THEN m.decimals ELSE DecimalsOf[m.mint]]

\* The SDK is called.  All calls but deposit await the load first.
CallSdk(m) ==
    /\ call' = CallNow(m) /\ got' = m
    /\ IF op \in TakesKeys THEN Ensure("app") /\ pc' = "sdk" ELSE pc' = "chain" /\ UNCHANGED loaderVars
    /\ UNCHANGED <<op, chosen, wanted>>

\* The mint is known, or its account was read.  An amount that cannot be converted
\* ends the action.
MintKnown ==
    /\ pc = "mint" /\ mintDecimals' = LookedUp
    /\ \/ op = "unlock" /\ kind[signer] # "cannot" /\ Ensure("app") /\ GoTo("derive")
       \/ op = "unlock" /\ kind[signer] = "cannot" /\ End /\ UNCHANGED loaderVars
       \/ op \in {"setup", "apply", "deposit", "withdraw"} /\ CallSdk(LookedUp)
       \/ op \in TakesAmount /\ End /\ UNCHANGED loaderVars
       \/ /\ op = "transfer" /\ pc' = "recipient" /\ got' = LookedUp
          /\ UNCHANGED <<op, chosen, wanted, call, loaderVars>>
    /\ UNCHANGED <<kind, signer, keys, mintInput, view>>

RefreshMintKnown ==
    /\ pc = "refresh mint" /\ mintDecimals' = LookedUp
    /\ pc' = "refresh" /\ got' = LookedUp
    /\ UNCHANGED <<loaderVars, kind, signer, keys, mintInput, op, chosen, wanted, call, view>>

\* The mint cannot be read.  A mint that was read before is not read again.
MintFails ==
    /\ pc \in {"mint", "refresh mint"} /\ mintDecimals.mint # wanted /\ End
    /\ UNCHANGED <<loaderVars, kind, signer, keys, mintDecimals, mintInput, view>>

\* transfer: whether the recipient has a token account.
RecipientAnswered ==
    /\ pc = "recipient"
    /\ CallSdk(got) \/ (End /\ UNCHANGED loaderVars)
    /\ UNCHANGED <<kind, signer, keys, mintDecimals, mintInput, view>>

\* What refresh shows of the account it read, decrypted with k.
Shown(k) == [owner |-> signer, mint |-> got.mint, decimals |-> got.decimals, keys |-> k]

\* The load is there, for the derivation, the call or the decryption that needs it, which
\* may fail.
Loaded ==
    /\ Ensured("app") /\ Released("app")
    /\ \/ pc = "derive" /\ GoTo("sign") /\ UNCHANGED view
       \/ pc = "sdk" /\ GoTo("chain") /\ UNCHANGED view
       \/ /\ pc = "decrypt" /\ End
          /\ view' \in {view, Shown(keys)}
    /\ UNCHANGED <<kind, signer, keys, mintDecimals, mintInput>>

\* CRYPTO_UNAVAILABLE.
LoadedThrows ==
    /\ EnsureThrows("app") /\ Released("app") /\ End
    /\ UNCHANGED <<kind, signer, keys, mintDecimals, mintInput, view>>

-----------------------------------------------------------------------------
(* deriveConfidentialKeys, the SDK's answer, and refresh.                  *)

\* signDerivationMessage: the message is as it was, and the signature is there and
\* verifies.
GoodSignature(content, signed) ==
    /\ kind[signer] = "modifying" => content = "standard"
    /\ signed # "nothing"
    /\ signed = "standard"

\* The wallet answers with a message, which only a modifying signer returns, and a
\* signature of the standard message, of something else, or none.
WalletAnswers ==
    /\ pc = "sign"
    /\ \E content, signed \in {"nothing", "standard", "other"} :
          /\ kind[signer] = "partial" => content = "standard"
          /\ IF GoodSignature(content, signed)
             THEN keys' = [of |-> signer, signed |-> signed] /\ Refresh
             ELSE End /\ UNCHANGED keys
    /\ UNCHANGED <<loaderVars, kind, signer, mintDecimals, mintInput, view>>

\* The call returned, and the balances are read again, or it threw.
SdkAnswers ==
    /\ pc = "chain" /\ (Refresh \/ End)
    /\ UNCHANGED <<loaderVars, kind, signer, keys, mintDecimals, mintInput, view>>

\* The read fails, or the token account was read and its public balance is shown: then it is
\* not there or not set up, or there are no keys, or its balance is decrypted.
AccountRead ==
    /\ pc = "refresh"
    /\ \/ End /\ UNCHANGED <<view, loaderVars>>
       \/ view' = Shown(NoKeys) /\ End /\ UNCHANGED loaderVars
       \/ keys # NoKeys /\ view' = Shown(NoKeys) /\ Ensure("app") /\ GoTo("decrypt")
    /\ UNCHANGED <<kind, signer, keys, mintDecimals, mintInput>>

-----------------------------------------------------------------------------

AppStep ==
    \/ Connected \/ ConnectFails \/ MintKnown \/ RefreshMintKnown \/ MintFails \/ RecipientAnswered
    \/ Loaded \/ LoadedThrows \/ WalletAnswers \/ SdkAnswers \/ AccountRead

\* The call at the start of the page hears of its load, and only reports it.
InitAnswered == (Ensured("init") \/ EnsureThrows("init")) /\ Released("init") /\ UNCHANGED appVars

Next ==
    \/ \E m \in Mints \cup {NotAMint} : EditMint(m)
    \/ \E w \in Wallets : PressConnect(w)
    \/ \E o \in Buttons : Press(o)
    \/ AppStep \/ InitAnswered
    \/ LoadSettles /\ UNCHANGED appVars

Spec == Init /\ [][Next]_vars

\* What is awaited is answered: by the network, the chain, or the visitor at the wallet.
FairSpec == Spec /\ WF_vars(AppStep) /\ WF_vars(LoadSettles /\ UNCHANGED appVars)

-----------------------------------------------------------------------------
(* Properties.                                                             *)

Keys == [of : Wallets, signed : {"standard", "other"}] \cup {NoKeys}

\* Types of the variables of the page.
PageTypeOK ==
    /\ signer \in Wallets \cup {NoWallet} /\ keys \in Keys
    /\ mintInput \in Mints \cup {NotAMint} /\ mintDecimals.mint \in Mints \cup {NotAMint}
    /\ op \in Buttons \cup {"none", "connect"} /\ (busy <=> pc # "idle")
    /\ chosen \in Wallets \cup {NoWallet} /\ wanted \in Mints \cup {NotAMint}

\* Types of the variables, with those of the loader.
TypeOK == LoaderTypeOK /\ PageTypeOK

\* "The keys belong to the wallet": the keys the page holds, or passes to a call, are those
\* that the owner's wallet derives from the standard message at any time again, so that no
\* account is set up with keys nobody else can derive.  (TypeOK is a conjunct.)
KeysAreTheOwners ==
    /\ TypeOK
    /\ keys # NoKeys => keys = [of |-> signer, signed |-> "standard"]
    /\ call.keys # NoKeys => call.keys = [of |-> call.owner, signed |-> "standard"]

\* toBaseUnits, fromBaseUnits: an amount is converted with the decimals of the mint it is
\* sent for or shown for, and the call is for the mint that was in the box when the
\* button was pressed, however the box is edited meanwhile.
OneMintPerCall ==
    /\ call # NoCall => call.mint = wanted /\ call.decimals = DecimalsOf[call.mint]
    /\ view # NoView => view.decimals = DecimalsOf[view.mint]

\* run: every action ends, and the buttons work again.
RunEnds == busy ~> ~busy
=============================================================================
