---------------------------- MODULE TransferHook ----------------------------
(***************************************************************************)
(* resolveTransferHookAccounts: before a transfer the client reads the     *)
(* mint's hook program, the list of the accounts that the hook wants, and  *)
(* the accounts whose data appear in the seeds of derived addresses, one   *)
(* after the other, while the authority of the hook may change any of      *)
(* them.  A slice of an account's or of the instruction's data stands for  *)
(* itself, cut or not.                                                     *)
(***************************************************************************)
EXTENDS Naturals, Sequences

CONSTANTS
    Programs,     \* the hook programs a mint may name
    Lists,        \* the extra-account-meta lists a program may keep
    Data,         \* the data an account may have
    DataAccounts, \* the accounts whose data change
    MaxChanges    \* bound on the changes on chain during the call

\* Addresses.  An address derived from a program and seeds is the pair of them.
Known(name)           == <<"known", name>>
Derived(program, ss)  == <<"derived", program, ss>>
MetaList(program)     == Derived(program, << <<"extra-account-metas", Known("mint")>> >>)
NoHook                == Known("none")  \* no extension, no program in it, or the system program

\* A list: the count in its header and the entries there are room for.  An entry names an
\* address, or has seeds for one derived from the hook program (by "hook"), from the
\* program at an index (by "other"), or is of a kind the client does not know.
MetaBy   == {"address", "hook", "other", "unknown"}
SeedKind == {"bytes", "instruction", "key", "data", "unknown"}
IsSequence(s) == s \in Seq({s[i] : i \in DOMAIN s})

ASSUME HookAssumption ==
    /\ MaxChanges \in Nat /\ NoHook \notin Programs
    /\ \A l \in Lists :
        /\ l.count \in Nat /\ IsSequence(l.entries)
        /\ \A i \in DOMAIN l.entries :
            /\ l.entries[i].by \in MetaBy /\ l.entries[i].index \in Nat
            /\ IsSequence(l.entries[i].seeds)
            /\ \A j \in DOMAIN l.entries[i].seeds :
                LET s == l.entries[i].seeds[j]
                IN  s.kind \in SeedKind /\ (s.kind \in {"key", "data"} => s.value \in Nat)

VARIABLES
    hook, lists, data,    \* the chain: the mint's hook, and the lists and data there are
    pc,                   \* what the call awaits
    hookProgram, metas,   \* what it read
    resolved,             \* `resolved`: the accounts so far, those every transfer has first
    seeds,                \* the seeds of the entry being resolved
    result,               \* what the call returns, or that it threw
    failed,               \* history: a request failed
    changes               \* history: changes on chain since the call began

chainVars == <<hook, lists, data>>
callVars  == <<pc, hookProgram, metas, resolved, seeds, result, failed>>
vars      == <<chainVars, callVars, changes>>

Account(address, writable) == [address |-> address, writable |-> writable]

\* The accounts of the hook's Execute instruction that are there without the list.
BaseAccounts(program) ==
    << Account(Known("source"), TRUE), Account(Known("mint"), FALSE),
       Account(Known("destination"), TRUE), Account(Known("owner"), FALSE),
       Account(MetaList(program), FALSE) >>

Returned(accounts) == [threw |-> FALSE, accounts |-> accounts]
Threw              == [threw |-> TRUE, accounts |-> <<>>]

\* The functions from a part of s to t: the accounts that exist, and what is in them.
Partial(s, t) == UNION {[some -> t] : some \in SUBSET s}

Init ==
    /\ hook \in Programs \cup {NoHook}
    /\ lists \in Partial(Programs, Lists) /\ data \in Partial(DataAccounts, Data)
    /\ pc = "mint" /\ hookProgram = NoHook /\ metas = <<>> /\ resolved = <<>> /\ seeds = <<>>
    /\ result = Returned(<<>>) /\ failed = FALSE /\ changes = 0

-----------------------------------------------------------------------------
(* The call.                                                               *)

Return(r) == pc' = "done" /\ result' = r

Throw == Return(Threw) /\ UNCHANGED <<hookProgram, metas, resolved, seeds, failed>>

\* getTransferHookProgram
ReadMint ==
    /\ pc = "mint" /\ hookProgram' = hook
    /\ IF hook = NoHook THEN Return(Returned(<<>>)) ELSE pc' = "list" /\ UNCHANGED result
    /\ UNCHANGED <<metas, resolved, seeds, failed, chainVars, changes>>

\* Variant: the count is believed to be that of the entries.
ParsedIgnoringCount(l) == l.entries

\* parseMetaList: as many entries as the header says, or as there is room for.
Parsed(l) == SubSeq(l.entries, 1, IF l.count < Len(l.entries) THEN l.count ELSE Len(l.entries))

\* Variant: the program is read again for the list.
ReadListOfHookNow ==
    /\ pc = "list" /\ hook # NoHook
    /\ IF hook \notin DOMAIN lists
       THEN Return(Returned(<<>>)) /\ UNCHANGED <<metas, resolved>>
       ELSE /\ metas' = Parsed(lists[hook]) /\ resolved' = BaseAccounts(hook)
            /\ pc' = "resolve" /\ UNCHANGED result
    /\ UNCHANGED <<hookProgram, seeds, failed, chainVars, changes>>

\* fetchData of the list of the program that was read
ReadList ==
    /\ pc = "list"
    /\ IF hookProgram \notin DOMAIN lists
       THEN Return(Returned(<<>>)) /\ UNCHANGED <<metas, resolved>>
       ELSE /\ metas' = Parsed(lists[hookProgram]) /\ resolved' = BaseAccounts(hookProgram)
            /\ pc' = "resolve" /\ UNCHANGED result
    /\ UNCHANGED <<hookProgram, seeds, failed, chainVars, changes>>

\* The entry that is resolved now, and the program of an address derived for it.
Meta == metas[Len(resolved) - 4]
HasMeta == pc = "resolve" /\ Len(resolved) - 5 < Len(metas)
InList(index) == index < Len(resolved)
At(index) == resolved[index + 1].address
Program == IF Meta.by = "hook" THEN hookProgram ELSE At(Meta.index)

\* unpackSeeds, one seed: bytes of its own or of the instruction, or the key or the data of
\* an account before.
Seed(s) ==
    CASE s.kind \in {"bytes", "instruction"} -> <<s.kind, s.value>>
      [] s.kind = "key" -> <<"key", At(s.value)>>
      [] OTHER -> <<"data", data[At(s.value)]>>

\* An entry without a program in the list, or with a seed that cannot be had, throws.
ProgramMissing == Meta.by = "unknown" \/ (Meta.by = "other" /\ ~InList(Meta.index))
SeedMissing(s) ==
    \/ s.kind = "unknown"
    \/ s.kind \in {"key", "data"} /\ ~InList(s.value)
    \/ s.kind = "data" /\ At(s.value) \notin DOMAIN data

\* resolved.push
Push(address) ==
    resolved' = Append(resolved, Account(address, Meta.writable)) /\ seeds' = <<>>

\* resolveMeta: a literal address.
ResolveAddress ==
    /\ HasMeta /\ Meta.by = "address"
    /\ Push(Meta.address)
    /\ UNCHANGED <<pc, hookProgram, metas, result, failed, chainVars, changes>>

\* The next seed; one from an account's data reads the account.
TakeSeed ==
    /\ HasMeta /\ Meta.by # "address" /\ ~ProgramMissing /\ Len(seeds) < Len(Meta.seeds)
    /\ LET s == Meta.seeds[Len(seeds) + 1]
       IN  IF SeedMissing(s) THEN Throw
           ELSE /\ seeds' = Append(seeds, Seed(s))
                /\ UNCHANGED <<pc, hookProgram, metas, resolved, result, failed>>
    /\ UNCHANGED <<chainVars, changes>>

\* getProgramDerivedAddress
Derive ==
    /\ HasMeta /\ Meta.by # "address" /\ ~ProgramMissing /\ Len(seeds) = Len(Meta.seeds)
    /\ Push(Derived(Program, seeds))
    /\ UNCHANGED <<pc, hookProgram, metas, result, failed, chainVars, changes>>

\* Variant: the entry is skipped, and comes again.
SkipsForProgram == HasMeta /\ ProgramMissing /\ UNCHANGED vars

ThrowForProgram ==
    /\ HasMeta /\ Meta.by # "address" /\ ProgramMissing
    /\ Throw
    /\ UNCHANGED <<chainVars, changes>>

\* The extra accounts, then the hook program, then its list.
ReturnAccounts ==
    /\ pc = "resolve" /\ ~HasMeta
    /\ Return(Returned(SubSeq(resolved, 6, Len(resolved))
                 \o << Account(hookProgram, FALSE), Account(MetaList(hookProgram), FALSE) >>))
    /\ UNCHANGED <<hookProgram, metas, resolved, seeds, failed, chainVars, changes>>

\* A request that reads the chain fails.
Reading ==
    \/ pc \in {"mint", "list"}
    \/ HasMeta /\ Meta.by # "address" /\ ~ProgramMissing /\ Len(seeds) < Len(Meta.seeds)
         /\ LET s == Meta.seeds[Len(seeds) + 1] IN s.kind = "data" /\ InList(s.value)

RequestFails ==
    /\ Reading /\ Return(Threw) /\ failed' = TRUE
    /\ UNCHANGED <<hookProgram, metas, resolved, seeds, chainVars, changes>>

-----------------------------------------------------------------------------
(* The chain.                                                              *)

Change ==
    /\ pc # "done" /\ changes < MaxChanges /\ changes' = changes + 1
    /\ \/ \E h \in Programs \cup {NoHook} : h # hook /\ hook' = h /\ UNCHANGED <<lists, data>>
       \/ \E l \in Partial(Programs, Lists) : l # lists /\ lists' = l /\ UNCHANGED <<hook, data>>
       \/ \E d \in Partial(DataAccounts, Data) : d # data /\ data' = d /\ UNCHANGED <<hook, lists>>
    /\ UNCHANGED callVars

CallStep ==
    \/ ReadMint \/ ReadList \/ ResolveAddress \/ TakeSeed \/ Derive \/ ThrowForProgram
    \/ ReturnAccounts \/ RequestFails

Next == CallStep \/ Change

Spec == Init /\ [][Next]_vars

\* Every request is answered.
FairSpec == Spec /\ WF_vars(CallStep)

-----------------------------------------------------------------------------
(* What the hook of the chain as it is wants, by the rules of the header   *)
(* comment: an address is defined when those it refers to come earlier.    *)

RefersTo(m) ==
    {m.seeds[j].value : j \in {k \in DOMAIN m.seeds : m.seeds[k].kind \in {"key", "data"}}}
        \cup IF m.by = "other" THEN {m.index} ELSE {}

HookMeta(i) == lists[hook].entries[i - 5]

\* Where the accounts of the list stand: those of as many of its entries as it counts.
Counted(l) == CHOOSE k \in 0..Len(l.entries) :
                k <= l.count /\ (k < Len(l.entries) => k = l.count)
Extra == 6..(5 + Counted(lists[hook]))

\* A seed and the address at an index, given the addresses before it.
SeedFrom(s, addr) ==
    CASE s.kind = "key" -> <<"key", addr[s.value + 1]>>
      [] s.kind = "data" -> <<"data", data[addr[s.value + 1]]>>
      [] OTHER -> <<s.kind, s.value>>

AddressFrom(i, addr) ==
    IF i <= 5 THEN BaseAccounts(hook)[i].address
    ELSE IF HookMeta(i).by = "address" THEN HookMeta(i).address
    ELSE Derived(IF HookMeta(i).by = "other" THEN addr[HookMeta(i).index + 1] ELSE hook,
                 [j \in DOMAIN HookMeta(i).seeds |-> SeedFrom(HookMeta(i).seeds[j], addr)])

HookAddress[i \in 1..(5 + Counted(lists[hook]))] == AddressFrom(i, HookAddress)

\* What makes the list one that can be resolved: every reference is to an account before,
\* every kind is known, and the data that are read exist.
RefersBack(i) == \A r \in RefersTo(HookMeta(i)) : r + 1 < i
KindsKnown(i) ==
    /\ HookMeta(i).by # "unknown"
    /\ \A j \in DOMAIN HookMeta(i).seeds : HookMeta(i).seeds[j].kind # "unknown"
DataExist(i, addr) ==
    \A j \in DOMAIN HookMeta(i).seeds :
        HookMeta(i).seeds[j].kind = "data" => addr[HookMeta(i).seeds[j].value + 1] \in DOMAIN data

BackReferences == \A i \in Extra : HookMeta(i).by # "address" => RefersBack(i)
Resolvable ==
    /\ BackReferences
    /\ \A i \in Extra : HookMeta(i).by # "address" => KindsKnown(i) /\ DataExist(i, HookAddress)

Wanted ==
    IF hook \notin DOMAIN lists THEN Returned(<<>>)
    ELSE IF ~Resolvable THEN Threw
    ELSE LET n == Counted(lists[hook])
         IN  Returned([k \in 1..(n + 2) |->
                IF k <= n THEN Account(HookAddress[k + 5], HookMeta(k + 5).writable)
                ELSE Account(IF k = n + 1 THEN hook ELSE MetaList(hook), FALSE)])

-----------------------------------------------------------------------------
(* Properties.                                                             *)

\* Types of the variables.
TypeOK ==
    /\ hook \in Programs \cup {NoHook} /\ hookProgram \in Programs \cup {NoHook}
    /\ pc \in {"mint", "list", "resolve", "done"}
    /\ Len(resolved) <= 5 + Len(metas) /\ (pc = "resolve" => Len(resolved) >= 5)
    /\ HasMeta => Len(seeds) <= Len(Meta.seeds)
    /\ failed \in BOOLEAN /\ changes \in 0..MaxChanges

\* resolveTransferHookAccounts: unless the chain changed under it or a request failed, the
\* call returns the accounts that the mint's hook wants, in their order, and throws only
\* when the list cannot be resolved.  (TypeOK is a conjunct.)
ExactUnlessChanged ==
    /\ TypeOK
    /\ pc = "done" /\ changes = 0 /\ ~failed => result = Wanted

\* Whatever changes between its reads, the call never mixes two hooks: the program and the
\* list at the end of a result are those its derived accounts were resolved for.
OneHook ==
    pc = "done" /\ result.accounts # <<>> =>
        LET accounts == result.accounts
            program  == accounts[Len(accounts) - 1].address
        IN  /\ accounts[Len(accounts)].address = MetaList(program)
            /\ resolved[5].address = MetaList(program)
            /\ \A i \in DOMAIN metas : metas[i].by = "hook" => accounts[i].address[2] = program

\* The call returns.
CallReturns == <>(pc = "done")
=============================================================================
