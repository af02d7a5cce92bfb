------------------------------- MODULE Payment -------------------------------
(***************************************************************************)
(* What one call of transfer() or withdraw() promises its caller, whatever *)
(* the network does: of all the signed transactions that could move the    *)
(* money at most one does, and the answer says whether one did.            *)
(*    "paid"      it moved                                                 *)
(*    "unpaid"    it did not move and never will                           *)
(*    "unknown"   it may have moved, or still move, once                   *)
(* A process that stops never answers.                                     *)
(***************************************************************************)

CONSTANT Payments      \* the signed transactions that could move the money

VARIABLES paid, answer

Init == paid = {} /\ answer = "none"

\* One of them lands, unless it was promised that none would.
Pay ==
    /\ paid = {} /\ answer # "unpaid"
    /\ \E t \in Payments : paid' = {t}
    /\ UNCHANGED answer

Answer ==
    /\ answer = "none"
    /\ \/ answer' = "paid" /\ paid # {}
       \/ answer' = "unpaid" /\ paid = {}
       \/ answer' = "unknown"
    /\ UNCHANGED paid

Next == Pay \/ Answer

\* The promise broken: it moves although "unpaid" was answered, or that is answered
\* although it moved.  It moves once even so.
BreakPromise ==
    \/ paid = {} /\ (\E t \in Payments : paid' = {t}) /\ UNCHANGED answer
    \/ answer = "none" /\ answer' = "unpaid" /\ UNCHANGED paid

Spec == Init /\ [][Next]_<<paid, answer>>
=============================================================================
