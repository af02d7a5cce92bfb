---------------------------- MODULE WebAppProofs ----------------------------
(***************************************************************************)
(* The web app and the load of its cryptography, for every set of wallets  *)
(* and mints, all decimals, any number of callers and of failed loads.     *)
(***************************************************************************)
EXTENDS WebApp, TLAPS

-----------------------------------------------------------------------------
(* The load.                                                               *)

\* The only load that has not failed is the one whose promise is kept, and a load that
\* is ready is known to be.
LoaderInv ==
    /\ LoaderTypeOK
    /\ \A l \in DOMAIN loads : loads[l] # "failed" => l = loading
    /\ \A l \in DOMAIN loads : loads[l] = "ready" => loaded
    /\ loading # 0 => loads[loading] # "failed"

LoaderStep == (\E c \in Callers : Ensure(c) \/ Released(c)) \/ LoadSettles

LEMMA InitLoader == Init => LoaderInv
  <1> SUFFICES ASSUME Init PROVE LoaderInv
    OBVIOUS
  <1>1. loads = <<"pending">> /\ loading = 1 /\ loaded = FALSE
        /\ awaits = [c \in Callers |-> IF c = "init" THEN 1 ELSE 0]
    BY DEF Init
  <1>2. /\ loads \in Seq({"pending", "ready", "failed"}) /\ Len(loads) = 1
        /\ DOMAIN loads = {1} /\ loads[1] = "pending"
    BY <1>1
  <1>3. awaits \in [Callers -> 0..1]
    BY <1>1
  <1>4. loading = 1 /\ loaded = FALSE
    BY <1>1
  <1>5. LoaderTypeOK
    <2>1. loading \in 0..Len(loads) /\ awaits \in [Callers -> 0..Len(loads)]
      BY <1>2, <1>3, <1>4
    <2>2. loaded \in BOOLEAN
      BY <1>4
    <2>3. QED
      BY <1>2, <2>1, <2>2 DEF LoaderTypeOK
  <1>6. QED
    BY <1>2, <1>4, <1>5 DEF LoaderInv

LEMMA StepLoader == LoaderInv /\ [LoaderStep]_loaderVars => LoaderInv'
  <1> SUFFICES ASSUME LoaderInv, [LoaderStep]_loaderVars PROVE LoaderInv'
    OBVIOUS
  <1>1. ASSUME NEW c \in Callers, Ensure(c) PROVE LoaderInv'
    <2>1. CASE loading = 0
      <3>1. /\ loads' = Append(loads, "pending") /\ loading' = Len(loads) + 1
            /\ awaits' = [awaits EXCEPT ![c] = loading'] /\ UNCHANGED loaded
        BY <1>1, <2>1 DEF Ensure
      <3>2. /\ loads' \in Seq({"pending", "ready", "failed"}) /\ Len(loads') = Len(loads) + 1
            /\ loads'[Len(loads) + 1] = "pending"
            /\ \A l \in DOMAIN loads : loads'[l] = loads[l]
            /\ DOMAIN loads' = DOMAIN loads \cup {Len(loads) + 1}
        BY <3>1 DEF LoaderInv, LoaderTypeOK
      <3>3. LoaderTypeOK'
        BY <3>1, <3>2 DEF LoaderInv, LoaderTypeOK
      <3>4. \A l \in DOMAIN loads : loads[l] = "failed"
        BY <2>1 DEF LoaderInv, LoaderTypeOK
      <3>5. QED
        BY <3>1, <3>2, <3>3, <3>4 DEF LoaderInv
    <2>2. CASE loading # 0
      <3>1. UNCHANGED <<loads, loading, loaded>> /\ awaits' = [awaits EXCEPT ![c] = loading]
        BY <1>1, <2>2 DEF Ensure
      <3>2. QED
        BY <3>1 DEF LoaderInv, LoaderTypeOK
    <2>3. QED
      BY <2>1, <2>2
  <1>2. ASSUME NEW c \in Callers, Released(c) PROVE LoaderInv'
    BY <1>2 DEF Released, LoaderInv, LoaderTypeOK
  <1>3. ASSUME NEW l \in DOMAIN loads, LoadReady(l) PROVE LoaderInv'
    BY <1>3 DEF LoadReady, LoaderInv, LoaderTypeOK
  \* What fails is what was kept, and nothing is kept then.
  <1>4. ASSUME NEW l \in DOMAIN loads, LoadFails(l) PROVE LoaderInv'
    BY <1>4 DEF LoadFails, LoaderInv, LoaderTypeOK
  <1>5. CASE UNCHANGED loaderVars
    BY <1>5 DEF loaderVars, LoaderInv, LoaderTypeOK
  <1>6. QED
    BY <1>1, <1>2, <1>3, <1>4, <1>5 DEF LoaderStep, LoadSettles

\* Whatever the page does, the load sees a caller or nothing.
LEMMA PageStepsLoader == [Next]_vars => [LoaderStep]_loaderVars
  <1> SUFFICES ASSUME [Next]_vars PROVE [LoaderStep]_loaderVars
    OBVIOUS
  <1> DEFINE seen == [LoaderStep]_loaderVars
  <1>1. {"init", "app"} \subseteq Callers
    BY AppAssumption
  <1>2. Ensure("app") \/ Released("app") \/ Released("init") \/ UNCHANGED loaderVars => seen
    BY <1>1 DEF LoaderStep
  <1>3. ASSUME NEW m, CallSdk(m) PROVE seen
    <2>1. Ensure("app") \/ UNCHANGED loaderVars
      BY <1>3 DEF CallSdk
    <2>2. QED
      BY <1>2, <2>1
  <1>4. CASE MintKnown
    BY <1>2, <1>3, <1>4 DEF MintKnown
  <1>5. CASE RecipientAnswered
    BY <1>2, <1>3, <1>5 DEF RecipientAnswered
  <1>6. CASE AppStep /\ ~MintKnown /\ ~RecipientAnswered
    BY <1>2, <1>6 DEF AppStep, Connected, ConnectFails, RefreshMintKnown, MintFails, Loaded,
                      LoadedThrows, WalletAnswers, SdkAnswers, AccountRead
  <1>7. CASE InitAnswered \/ (LoadSettles /\ UNCHANGED appVars) \/ UNCHANGED vars
    BY <1>2, <1>7 DEF InitAnswered, LoaderStep, vars
  <1>8. CASE \/ \E m \in Mints \cup {NotAMint} : EditMint(m)
             \/ \E w \in Wallets : PressConnect(w)
             \/ \E o \in Buttons : Press(o)
    BY <1>2, <1>8 DEF EditMint, PressConnect, Press
  <1>9. QED
    BY <1>4, <1>5, <1>6, <1>7, <1>8 DEF Next

LEMMA LoaderInvariant == Spec => []LoaderInv
  BY InitLoader, StepLoader, PageStepsLoader, PTL DEF Spec

\* initConfidentialTransfers, ensureZk: concurrent calls share one load, a failed one is not
\* kept, and nobody gets past the await without the module.
THEOREM OneLoadForAllHolds == Spec => []OneLoadForAll
  <1>1. LoaderInv => OneLoadForAll
    BY DEF LoaderInv, LoaderTypeOK, OneLoadForAll, Ensured
  <1>2. QED
    BY <1>1, LoaderInvariant, PTL

-----------------------------------------------------------------------------
(* The page.                                                               *)

\* The keys are the owner's, and so are those of a call.
KeysInv ==
    /\ keys # NoKeys => keys = [of |-> signer, signed |-> "standard"]
    /\ call.keys # NoKeys => call.keys = [of |-> call.owner, signed |-> "standard"]

\* A call is being made only while it is awaited, and the decimals that are awaited for
\* are those of the mint that was looked up.
LookupInv ==
    /\ call # NoCall => pc \in {"sdk", "chain"}
    /\ pc = "recipient" => got = LookedUp
    /\ pc \in {"refresh", "decrypt"} => got.decimals = DecimalsOf[got.mint]

\* Only a wallet that is connected is asked for the keys.
UnlockInv ==
    /\ op = "unlock" => signer # NoWallet
    /\ pc \in {"derive", "sign"} => op = "unlock"

PageInv == PageTypeOK /\ KeysInv /\ LookupInv /\ OneMintPerCall /\ UnlockInv

LEMMA InitPage == Init => PageInv
  BY DEF Init, PageInv, PageTypeOK, KeysInv, LookupInv, OneMintPerCall, UnlockInv, Keys,
         NoKeys, NoMint,
         NoCall, NoView, busy, Buttons, TakesAmount

\* The action ends, with keys and what is shown in order.
LEMMA EndPage ==
    ASSUME PageTypeOK, End, UNCHANGED mintInput,
           signer' \in Wallets \cup {NoWallet}, keys' \in Keys,
           keys' # NoKeys => keys' = [of |-> signer', signed |-> "standard"],
           mintDecimals'.mint \in Mints \cup {NotAMint},
           view' # NoView => view'.decimals = DecimalsOf[view'.mint]
    PROVE  PageInv'
  <1>1. call'.keys = NoKeys
    BY DEF End, NoCall
  <1>2. QED
    BY <1>1 DEF End, PageInv, PageTypeOK, KeysInv, LookupInv, OneMintPerCall, UnlockInv, busy

\* The next await, with nothing else changed.
LEMMA GoToPage ==
    ASSUME PageInv, NEW p \in {"derive", "sign", "chain", "decrypt"}, GoTo(p), busy,
           call # NoCall => p = "chain", p = "decrypt" => pc = "refresh",
           p \in {"derive", "sign"} => op = "unlock",
           UNCHANGED <<signer, keys, mintInput>>,
           mintDecimals'.mint \in Mints \cup {NotAMint},
           view' # NoView => view'.decimals = DecimalsOf[view'.mint]
    PROVE  PageInv'
  BY DEF GoTo, PageInv, PageTypeOK, KeysInv, LookupInv, OneMintPerCall, UnlockInv, busy

LEMMA RefreshPage ==
    ASSUME PageInv, Refresh, busy, UNCHANGED <<signer, mintInput, mintDecimals, view>>,
           keys' \in Keys, keys' # NoKeys => keys' = [of |-> signer, signed |-> "standard"]
    PROVE  PageInv'
  <1>1. CASE mintInput = NotAMint
    BY <1>1, EndPage DEF Refresh, PageInv, PageTypeOK, OneMintPerCall
  <1>2. CASE mintInput # NotAMint
    <2>1. /\ pc' = "refresh mint" /\ wanted' = mintInput /\ call' = NoCall
          /\ UNCHANGED <<op, chosen, got>>
      BY <1>2 DEF Refresh
    <2>2. call'.keys = NoKeys
      BY <2>1 DEF NoCall
    <2>3. QED
      BY <2>1, <2>2 DEF PageInv, PageTypeOK, KeysInv, LookupInv, OneMintPerCall, UnlockInv, busy
  <1>3. QED
    BY <1>1, <1>2

\* A call is made with the mint that was looked up and the keys as they are.
LEMMA CallPage ==
    ASSUME PageInv, NEW m, m = LookedUp, CallSdk(m), busy,
           UNCHANGED <<signer, keys, mintInput, view>>,
           mintDecimals'.mint \in Mints \cup {NotAMint}
    PROVE  PageInv'
  <1>1. /\ call' = CallNow(m) /\ got' = m /\ pc' \in {"sdk", "chain"}
        /\ UNCHANGED <<op, chosen, wanted>>
    BY DEF CallSdk
  <1>2. m.mint = wanted /\ m.decimals = DecimalsOf[wanted]
    BY DEF LookedUp
  <1>3. call'.mint = wanted /\ call'.decimals = DecimalsOf[wanted]
    BY <1>1, <1>2 DEF CallNow
  <1>4. call'.owner = signer /\ call'.keys \in {keys, NoKeys}
    BY <1>1 DEF CallNow
  <1>5. QED
    BY <1>1, <1>3, <1>4
       DEF PageInv, PageTypeOK, KeysInv, LookupInv, OneMintPerCall, UnlockInv, busy

LEMMA StepPage == PageInv /\ [Next]_vars => PageInv'
  <1> SUFFICES ASSUME PageInv, [Next]_vars PROVE PageInv'
    OBVIOUS
  <1>0. NoKeys \in Keys
    BY DEF Keys
  <1>1. ASSUME End, UNCHANGED <<signer, keys, mintInput>>,
               mintDecimals' \in {mintDecimals, LookedUp},
               view' # NoView => view'.decimals = DecimalsOf[view'.mint]
        PROVE  PageInv'
    <2>1. mintDecimals'.mint \in Mints \cup {NotAMint}
      BY <1>1 DEF LookedUp, PageInv, PageTypeOK
    <2>2. QED
      BY <1>1, <2>1, EndPage DEF PageInv, PageTypeOK, KeysInv
  <1>2. view # NoView => view.decimals = DecimalsOf[view.mint]
    BY DEF PageInv, OneMintPerCall
  <1>3. ASSUME NEW m \in Mints \cup {NotAMint}, EditMint(m) PROVE PageInv'
    BY <1>3
       DEF EditMint, locals, PageInv, PageTypeOK, KeysInv, LookupInv, OneMintPerCall, UnlockInv, busy, LookedUp
  <1>4. ASSUME NEW w \in Wallets, PressConnect(w) PROVE PageInv'
    BY <1>4
       DEF PressConnect, PageInv, PageTypeOK, KeysInv, LookupInv, OneMintPerCall, UnlockInv, busy
  <1>5. ASSUME NEW o \in Buttons, Press(o) PROVE PageInv'
    <2>1. call = NoCall
      BY <1>5 DEF Press, busy, PageInv, PageTypeOK, LookupInv
    <2>2. o # "none"
      BY DEF Buttons, TakesAmount
    <2>3. QED
      BY <1>5, <2>1, <2>2
         DEF Press, PageInv, PageTypeOK, KeysInv, LookupInv, OneMintPerCall, UnlockInv, busy
  <1>6. CASE Connected
    BY <1>0, <1>2, <1>6, EndPage DEF Connected, PageInv, PageTypeOK
  <1>7. CASE ConnectFails \/ MintFails
    BY <1>1, <1>2, <1>7 DEF ConnectFails, MintFails
  <1>8. CASE MintKnown
    <2>1. /\ pc = "mint" /\ mintDecimals' = LookedUp /\ UNCHANGED <<signer, keys, mintInput, view>>
          /\ busy /\ call = NoCall
      BY <1>8 DEF MintKnown, busy, PageInv, PageTypeOK, LookupInv
    <2>2. mintDecimals'.mint \in Mints \cup {NotAMint}
      BY <2>1 DEF LookedUp, PageInv, PageTypeOK
    <2>3. \/ End
          \/ op = "unlock" /\ GoTo("derive")
          \/ CallSdk(LookedUp)
          \/ pc' = "recipient" /\ got' = LookedUp /\ UNCHANGED <<op, chosen, wanted, call>>
      BY <1>8 DEF MintKnown
    <2>4. CASE End
      BY <1>1, <1>2, <2>1, <2>4
    <2>5. CASE op = "unlock" /\ GoTo("derive")
      BY <1>2, <2>1, <2>2, <2>5, GoToPage
    <2>6. CASE CallSdk(LookedUp)
      BY <2>1, <2>2, <2>6, CallPage
    <2>7. CASE pc' = "recipient" /\ got' = LookedUp /\ UNCHANGED <<op, chosen, wanted, call>>
      BY <2>1, <2>2, <2>7
         DEF PageInv, PageTypeOK, KeysInv, LookupInv, OneMintPerCall, UnlockInv, busy, LookedUp
    <2>8. QED
      BY <2>3, <2>4, <2>5, <2>6, <2>7
  <1>9. CASE RefreshMintKnown
    <2>1. call = NoCall
      BY <1>9 DEF RefreshMintKnown, PageInv, LookupInv
    <2>2. /\ mintDecimals'.mint \in Mints \cup {NotAMint}
          /\ got'.decimals = DecimalsOf[got'.mint]
      BY <1>9 DEF RefreshMintKnown, LookedUp, PageInv, PageTypeOK
    <2>3. QED
      BY <1>9, <2>1, <2>2

            DEF RefreshMintKnown, PageInv, PageTypeOK, KeysInv, LookupInv, OneMintPerCall, UnlockInv, busy
  <1>10. CASE RecipientAnswered
    <2>1. got = LookedUp /\ busy
      BY <1>10 DEF RecipientAnswered, PageInv, PageTypeOK, LookupInv
    <2>2. CASE CallSdk(got)
      BY <1>10, <2>1, <2>2, CallPage DEF RecipientAnswered, PageInv, PageTypeOK
    <2>3. CASE End
      BY <1>1, <1>2, <1>10, <2>3 DEF RecipientAnswered
    <2>4. QED
      BY <1>10, <2>2, <2>3 DEF RecipientAnswered
  <1>11. CASE Loaded
    <2>1. UNCHANGED <<signer, keys, mintDecimals, mintInput>>
      BY <1>11 DEF Loaded
    <2>2. CASE pc = "derive" /\ GoTo("sign") /\ UNCHANGED view
      BY <1>2, <2>1, <2>2, GoToPage DEF PageInv, PageTypeOK, LookupInv, UnlockInv
    <2>3. CASE pc = "sdk" /\ GoTo("chain") /\ UNCHANGED view
      BY <1>2, <2>1, <2>3, GoToPage DEF PageInv, PageTypeOK
    <2>4. CASE pc = "decrypt" /\ End /\ view' \in {view, Shown(keys)}
      <3>1. Shown(keys).decimals = DecimalsOf[Shown(keys).mint]
        BY <2>4 DEF Shown, PageInv, LookupInv
      <3>2. QED
        BY <1>1, <1>2, <2>1, <2>4, <3>1
    <2>5. QED
      BY <1>11, <2>2, <2>3, <2>4 DEF Loaded
  <1>12. CASE LoadedThrows
    BY <1>1, <1>2, <1>12 DEF LoadedThrows
  <1>13. CASE WalletAnswers
    <2>1. pc = "sign" /\ busy /\ UNCHANGED <<signer, mintDecimals, mintInput, view>>
      BY <1>13 DEF WalletAnswers, PageInv, PageTypeOK
    <2>2. PICK content, signed \in {"nothing", "standard", "other"} :
             IF GoodSignature(content, signed)
             THEN keys' = [of |-> signer, signed |-> signed] /\ Refresh
             ELSE End /\ UNCHANGED keys
      BY <1>13 DEF WalletAnswers
    <2>3. CASE GoodSignature(content, signed)
      <3>1. keys' = [of |-> signer, signed |-> "standard"] /\ Refresh
        BY <2>2, <2>3 DEF GoodSignature
      <3>2. keys' \in Keys
        BY <2>1, <3>1 DEF Keys, PageInv, PageTypeOK, UnlockInv
      <3>3. QED
        BY <2>1, <3>1, <3>2, RefreshPage
    <2>4. CASE ~GoodSignature(content, signed)
      BY <1>1, <1>2, <2>1, <2>2, <2>4
    <2>5. QED
      BY <2>3, <2>4
  <1>14. CASE SdkAnswers
    <2>1. CASE Refresh
      BY <1>14, <2>1, RefreshPage DEF SdkAnswers, PageInv, PageTypeOK, KeysInv
    <2>2. CASE End
      BY <1>1, <1>2, <1>14, <2>2 DEF SdkAnswers
    <2>3. QED
      BY <1>14, <2>1, <2>2 DEF SdkAnswers
  <1>15. CASE AccountRead
    <2>1. /\ pc = "refresh" /\ UNCHANGED <<signer, keys, mintDecimals, mintInput>>
          /\ view' \in {view, Shown(NoKeys)} /\ (End \/ GoTo("decrypt"))
      BY <1>15 DEF AccountRead
    <2>2. Shown(NoKeys).decimals = DecimalsOf[Shown(NoKeys).mint]
      BY <2>1 DEF Shown, PageInv, LookupInv
    <2>3. view' # NoView => view'.decimals = DecimalsOf[view'.mint]
      BY <1>2, <2>1, <2>2
    <2>4. CASE End
      BY <1>1, <2>1, <2>3, <2>4
    <2>5. CASE GoTo("decrypt")
      BY <2>1, <2>3, <2>5, GoToPage DEF PageInv, PageTypeOK, LookupInv
    <2>6. QED
      BY <2>1, <2>4, <2>5
  <1>16. CASE InitAnswered \/ (LoadSettles /\ UNCHANGED appVars) \/ UNCHANGED vars
    BY <1>16 DEF InitAnswered, appVars, vars, PageInv, PageTypeOK, KeysInv, LookupInv,
                 OneMintPerCall, UnlockInv, busy, LookedUp
  <1>17. QED
    BY <1>3, <1>4, <1>5, <1>6, <1>7, <1>8, <1>9, <1>10, <1>11, <1>12, <1>13, <1>14, <1>15, <1>16
       DEF Next, AppStep

LEMMA PageInvariant == Spec => []PageInv
  BY InitPage, StepPage, PTL DEF Spec

\* deriveConfidentialKeys and the page's `keys`: whichever wallets are connected in whatever
\* order, the keys held and passed on are the owner's, of the standard message.
THEOREM KeysAreTheOwnersHolds == Spec => []KeysAreTheOwners
  <1>1. LoaderInv /\ PageInv => KeysAreTheOwners
    BY DEF LoaderInv, PageInv, PageTypeOK, KeysInv, KeysAreTheOwners, TypeOK
  <1>2. QED
    BY <1>1, LoaderInvariant, PageInvariant, PTL

\* currentMint and the calls after it: the mint and the decimals of a call are those of the
\* mint that was in the box when the button was pressed.
THEOREM OneMintPerCallHolds == Spec => []OneMintPerCall
  <1>1. PageInv => OneMintPerCall
    BY DEF PageInv
  <1>2. QED
    BY <1>1, PageInvariant, PTL
=============================================================================
