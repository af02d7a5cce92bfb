----------------------------- MODULE WasmLoader -----------------------------
(***************************************************************************)
(* initConfidentialTransfers in a browser: the WebAssembly of the zk-sdk   *)
(* is loaded once, whoever asks first, and a load that failed is tried     *)
(* again by the next call.  Every function of the SDK awaits it (ensureZk).*)
(***************************************************************************)
EXTENDS Naturals, Sequences

CONSTANTS
    Callers,        \* what may await the load at the same time
    MaxFailures     \* bound: how many loads fail

ASSUME LoaderAssumption == MaxFailures \in Nat

VARIABLES
    loads,          \* the calls of initWasm so far: "pending", "ready" or "failed"
    loading,        \* the load that `loading` holds the promise of, 0 when undefined
    loaded,         \* `loaded`
    awaits          \* Callers -> the load whose promise the caller awaits, or 0

loaderVars == <<loads, loading, loaded, awaits>>

\* Variant: no ??=.
LoadsAgain(c) ==
    /\ awaits[c] = 0
    /\ loads' = Append(loads, "pending") /\ loading' = Len(loads) + 1
    /\ awaits' = [awaits EXCEPT ![c] = loading']
    /\ UNCHANGED loaded

\* initConfidentialTransfers, ensureZk: the caller gets the promise there is, or that
\* of a new load.
Ensure(c) ==
    /\ awaits[c] = 0
    /\ IF loading = 0 THEN loads' = Append(loads, "pending") /\ loading' = Len(loads) + 1
                      ELSE UNCHANGED <<loads, loading>>
    /\ awaits' = [awaits EXCEPT ![c] = loading']
    /\ UNCHANGED loaded

LoadReady(l) ==
    /\ loads[l] = "pending"
    /\ loads' = [loads EXCEPT ![l] = "ready"] /\ loaded' = TRUE
    /\ UNCHANGED <<loading, awaits>>

\* The load is forgotten before those who await it hear of the failure.
LoadFails(l) ==
    /\ loads[l] = "pending" /\ l <= MaxFailures
    /\ loads' = [loads EXCEPT ![l] = "failed"] /\ loading' = 0
    /\ UNCHANGED <<loaded, awaits>>

LoadSettles == \E l \in DOMAIN loads : LoadReady(l) \/ LoadFails(l)

\* The await of c ends, with the module loaded or with CRYPTO_UNAVAILABLE.
Ensured(c) == awaits[c] # 0 /\ loads[awaits[c]] = "ready"
EnsureThrows(c) == awaits[c] # 0 /\ loads[awaits[c]] = "failed"
Released(c) == awaits' = [awaits EXCEPT ![c] = 0] /\ UNCHANGED <<loads, loading, loaded>>

-----------------------------------------------------------------------------
(* Properties.                                                             *)

LoaderTypeOK ==
    /\ loads \in Seq({"pending", "ready", "failed"}) /\ loading \in 0..Len(loads)
    /\ loaded \in BOOLEAN /\ awaits \in [Callers -> 0..Len(loads)]

\* initConfidentialTransfers: concurrent first calls share one load, a failed one is not
\* kept for the next call, and whoever gets past its await can use the module
\* (assertZkReady does not throw).
OneLoadForAll ==
    /\ \A k, l \in DOMAIN loads : loads[k] # "failed" /\ loads[l] # "failed" => k = l
    /\ loading # 0 => loads[loading] # "failed"
    /\ \A c \in Callers : Ensured(c) => loaded
=============================================================================
