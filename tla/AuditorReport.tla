--------------------------- MODULE AuditorReport ---------------------------
(***************************************************************************)
(* One call of listConfidentialActivity(): page back through the mint's    *)
(* signatures, newest first, then fetch the transactions some at a time    *)
(* and list their deposits, transfers and withdraws, oldest first.  All    *)
(* the while new transactions of the mint are confirmed.                   *)
(***************************************************************************)
EXTENDS Integers, FiniteSets, Sequences, SequencesExt

CONSTANTS
    Transactions,   \* the transactions of the mint that may be confirmed
    Inputs,         \* ListConfidentialActivityInput, see Input
    TicksPerSecond, \* since and until are finer than block times: 1000
    PageSize,       \* the limit of getSignaturesForAddress
    MaxHistory,     \* bound on the mint's transactions
    None            \* an optional value that is not there

InstructionKinds == {"deposit", "withdraw", "transfer", "transfer-with-fee", "other"}

\* An instruction of Token-2022, top-level or inner, with the mint as its second
\* account or not; key is what a transfer's amount is encrypted to.
Instruction == [kind: InstructionKinds, ofMint: BOOLEAN, key: {"ours", "other"}, amt: Nat]
Transaction == [time: Nat \cup {None}, err: BOOLEAN, ixs: Seq(Instruction)]
Input == [since: Nat \cup {None}, until: Nat \cup {None}, maxTransactions: Nat \cup {None},
          concurrency: Nat, keyMatches: BOOLEAN, skipAuditorKeyCheck: BOOLEAN]

ASSUME NoneAssumption    == None \notin Nat
ASSUME LimitAssumption   ==
    PageSize \in Nat \ {0} /\ TicksPerSecond \in Nat \ {0} /\ MaxHistory \in Nat
ASSUME InputAssumption   == Inputs \subseteq Input
ASSUME HistoryAssumption == Transactions \subseteq Transaction

VARIABLES
    history,         \* the mint's transactions, oldest first; a signature is an index
    input,
    pc,
    before,          \* the cursor, 0 when undefined
    out,             \* the signatures to fetch, newest first
    perTransaction,  \* the entries of each fetched transaction, newest first
    report,
    seen,            \* history: how many transactions there were at the first page
    missing          \* history: signatures whose transaction the node did not have

listingVars == <<input, pc, before, out, perTransaction, report>>
reportVars     == <<history, listingVars, seen, missing>>

ReportInit ==
    /\ history = << >>
    /\ input \in Inputs
    /\ pc = "check" /\ before = 0
    /\ out = << >> /\ perTransaction = << >> /\ report = << >>
    /\ seen = 0 /\ missing = {}

-----------------------------------------------------------------------------
(* The chain: block times do not go back; a node may not know one.         *)

Confirmed ==
    /\ Len(history) < MaxHistory
    /\ \E tx \in Transactions :
          /\ tx.time # None =>
                \A i \in 1..Len(history) : history[i].time # None => history[i].time <= tx.time
          /\ history' = Append(history, tx)
    /\ UNCHANGED <<listingVars, seen, missing>>

-----------------------------------------------------------------------------
(* The signatures.                                                         *)

\* Variant: the pages are counted from the newest transaction.
PageByOffset ==
    LET newest == Len(history) - (IF before = 0 THEN 0 ELSE seen - before + 1)
        count  == IF newest < PageSize THEN newest ELSE PageSize
    IN  [k \in 1..count |-> newest - k + 1]

\* getSignaturesForAddress: the signatures before the cursor, newest first.
Page ==
    LET newest == IF before = 0 THEN Len(history) ELSE before - 1
        count  == IF newest < PageSize THEN newest ELSE PageSize
    IN  [k \in 1..count |-> newest - k + 1]

\* sinceSeconds, untilSeconds
Seconds(date) == date \div TicksPerSecond

\* Older than wanted; not wanted.
TooOld(s) ==
    input.since # None /\ history[s].time # None /\ history[s].time < Seconds(input.since)
TooNew(s) ==
    input.until # None /\ history[s].time # None /\ history[s].time >= Seconds(input.until)
Skipped(s) == TooNew(s) \/ history[s].err

\* The signatures among the first k of a page that are kept.
Kept(page, k) ==
    FlattenSeq([i \in 1..k |-> IF Skipped(page[i]) THEN << >> ELSE << page[i] >>])

\* The loop over a page returns at signature k: enough, or too old.
ReturnsAt(page, k) ==
    \/ input.maxTransactions # None /\ Len(out) + Len(Kept(page, k - 1)) >= input.maxTransactions
    \/ TooOld(page[k])

\* listConfidentialActivity compares the auditor key with the mint's.
CheckKey ==
    /\ pc = "check"
    /\ pc' = IF input.skipAuditorKeyCheck \/ input.keyMatches THEN "paging" ELSE "failed"
    /\ UNCHANGED <<history, input, before, out, perTransaction, report, seen, missing>>

\* signaturesOf: one page.
ReadPage ==
    /\ pc = "paging"
    /\ LET stops == {k \in DOMAIN Page : ReturnsAt(Page, k)}
           end   == IF stops = {} THEN Len(Page) ELSE CHOOSE k \in stops : \A j \in stops : k <= j
       IN  /\ out' = out \o Kept(Page, IF stops = {} THEN end ELSE end - 1)
           /\ pc' = IF stops # {} \/ Len(Page) < PageSize THEN "fetching" ELSE "paging"
           /\ before' = IF Page = << >> THEN before ELSE Page[Len(Page)]
    /\ seen' = IF before = 0 THEN Len(history) ELSE seen
    /\ UNCHANGED <<history, input, perTransaction, report, missing>>

-----------------------------------------------------------------------------
(* The transactions.                                                       *)

\* toActivity: an entry, for the instructions that are listed.
Amount(ix) ==
    CASE ix.kind \in {"deposit", "withdraw"} -> ix.amt
      [] ix.kind = "transfer" /\ ix.key = "ours" -> ix.amt
      [] OTHER -> None

\* The entries of transaction s, in instruction order.
EntriesOf(s) ==
    LET ixs == history[s].ixs
    IN  FlattenSeq([i \in DOMAIN ixs |->
            IF ixs[i].ofMint /\ ixs[i].kind # "other"
            THEN << [signature |-> s, kind |-> ixs[i].kind, amount |-> Amount(ixs[i])] >>
            ELSE << >>])

\* Variant: zero at a time.
ConcurrencyAsGiven == input.concurrency

\* signatures.slice(i, i + concurrency)
Concurrency == IF input.concurrency < 1 THEN 1 ELSE input.concurrency
Batch ==
    LET from == Len(perTransaction)
        left == Len(out) - from
    IN  SubSeq(out, from + 1, from + (IF left < Concurrency THEN left ELSE Concurrency))

\* Promise.all of getTransaction: entries in the order of the batch, whichever
\* answer came first; none for a transaction the node does not have.
FetchBatch ==
    /\ pc = "fetching" /\ Len(perTransaction) < Len(out)
    /\ \E gone \in SUBSET ToSet(Batch) :
          /\ perTransaction' = perTransaction \o
                [k \in DOMAIN Batch |-> IF Batch[k] \in gone THEN << >> ELSE EntriesOf(Batch[k])]
          /\ missing' = missing \cup gone
    /\ UNCHANGED <<history, input, pc, before, out, report, seen>>

\* A request fails: the call throws.
RequestFails ==
    /\ pc \in {"check", "paging", "fetching"}
    /\ pc' = "failed"
    /\ UNCHANGED <<history, input, before, out, perTransaction, report, seen, missing>>

\* perTransaction.reverse().flat()
ReturnReport ==
    /\ pc = "fetching" /\ Len(perTransaction) = Len(out)
    /\ pc' = "done"
    /\ report' = FlattenSeq(Reverse(perTransaction))
    /\ UNCHANGED <<history, input, before, out, perTransaction, seen, missing>>

-----------------------------------------------------------------------------
CallStep == CheckKey \/ ReadPage \/ FetchBatch \/ ReturnReport

ReportNext == Confirmed \/ CallStep \/ RequestFails

ReportSpec     == ReportInit /\ [][ReportNext]_reportVars
\* Every request is answered, or fails.
FairReportSpec == ReportSpec /\ WF_reportVars(CallStep)

-----------------------------------------------------------------------------
(* Properties.                                                             *)

\* Types of the variables; what is fetched was there at the first page, and is
\* no more than maxTransactions.
ReportTypes ==
    /\ history \in Seq(Transactions) /\ input \in Inputs
    /\ pc \in {"check", "paging", "fetching", "done", "failed"}
    /\ before \in 0..Len(history) /\ seen \in 0..Len(history)
    /\ ToSet(out) \subseteq 1..seen /\ missing \subseteq ToSet(out)
    /\ Len(perTransaction) <= Len(out)
    /\ input.maxTransactions # None => Len(out) <= input.maxTransactions

\* The successful transactions of the period in whole seconds, among those there
\* were when the call read the first page.  One without a time belongs to it unless it is
\* older than one known to be before the period.
InPeriod(s) ==
    /\ ~history[s].err
    /\ IF history[s].time = None
       THEN \A n \in s..seen : ~TooOld(n)
       ELSE ~TooOld(s) /\ ~TooNew(s)

\* The newest maxTransactions of them.
Wanted(s) ==
    /\ InPeriod(s)
    /\ input.maxTransactions = None
          \/ Cardinality({n \in (s + 1)..seen : InPeriod(n)}) < input.maxTransactions

\* listConfidentialActivity: the report lists every wanted transaction once, the
\* oldest first and each one's instructions in order, and nothing else, however
\* the history grew while it was read and wherever the pages were cut.
\* (ReportTypes is a conjunct.)
ReportIsExact ==
    /\ ReportTypes
    /\ pc = "done" =>
        report = FlattenSeq([s \in 1..seen |->
                    IF Wanted(s) /\ s \notin missing
                    THEN LET ixs == history[s].ixs
                         IN  FlattenSeq([i \in DOMAIN ixs |->
                                IF ixs[i].ofMint /\ ixs[i].kind # "other"
                                THEN << [signature |-> s, kind |-> ixs[i].kind,
                                         amount |-> Amount(ixs[i])] >>
                                ELSE << >>])
                    ELSE << >>])

\* signaturesOf: the loop without an exit of its own ends, although the history
\* grows while it pages.
CallReturns == <>(pc \in {"done", "failed"})
=============================================================================
