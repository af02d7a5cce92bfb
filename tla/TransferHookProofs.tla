------------------------- MODULE TransferHookProofs -------------------------
(***************************************************************************)
(* Proofs about TransferHook, for every set of lists, of any length and    *)
(* with any entries and seeds: the call never mixes two hooks, and what it *)
(* returns is what the recursive definition of the hook's accounts says.   *)
(* The inductions over the entries of a list are by least counterexample.  *)
(***************************************************************************)
EXTENDS TransferHook, TLAPS, SequenceTheorems, WellFoundedInduction

-----------------------------------------------------------------------------
(* Sequences, and induction over them.                                     *)

LEMMA Least ==
    ASSUME NEW T \in SUBSET Nat, T # {}
    PROVE  \E x \in T : \A y \in T : x <= y
  <1> DEFINE R == OpToRel(<, Nat)
  <1>1. IsWellFoundedOn(R, Nat)
    BY NatLessThanWellFounded
  <1> HIDE DEF R
  <1>2. PICK x \in T : \A y \in T : ~(<<y, x>> \in R)
    BY <1>1, WFMin
  <1>3. \A a, b \in Nat : a < b => <<a, b>> \in R
    BY DEF R, OpToRel
  <1>4. \A y \in T : x <= y
    <2> TAKE y \in T
    <2>1. x \in Nat /\ y \in Nat
      OBVIOUS
    <2>2. ~(y < x)
      BY <1>2, <1>3, <2>1
    <2>3. QED
      BY <2>1, <2>2
  <1>5. QED
    BY <1>4

LEMMA SequenceIs ==
    ASSUME NEW s, IsSequence(s)
    PROVE  Len(s) \in Nat /\ DOMAIN s = 1..Len(s) /\ s = [i \in 1..Len(s) |-> s[i]]
  BY LenProperties DEF IsSequence

LEMMA IsSequenceFrom ==
    ASSUME NEW S, NEW s \in Seq(S)
    PROVE  IsSequence(s)
  <1>1. Len(s) \in Nat /\ DOMAIN s = 1..Len(s) /\ s = [i \in 1..Len(s) |-> s[i]]
    BY LenProperties
  <1> DEFINE R == {s[i] : i \in DOMAIN s}
  <1>2. s \in [1..Len(s) -> R]
    BY <1>1
  <1>3. s \in Seq(R)
    <2> HIDE DEF R
    <2>1. QED
      BY <1>1, <1>2
  <1>4. QED
    BY <1>3 DEF IsSequence

LEMMA AppendIs ==
    ASSUME NEW s, IsSequence(s), NEW e
    PROVE  /\ IsSequence(Append(s, e)) /\ Len(Append(s, e)) = Len(s) + 1
           /\ \A i \in 1..Len(s) : Append(s, e)[i] = s[i]
           /\ Append(s, e)[Len(s) + 1] = e
  <1> DEFINE S == {s[i] : i \in DOMAIN s} \cup {e}
  <1>1. s \in Seq(S)
    <2>1. Len(s) \in Nat /\ DOMAIN s = 1..Len(s) /\ s = [i \in 1..Len(s) |-> s[i]]
      BY SequenceIs
    <2>2. s \in [1..Len(s) -> S]
      BY <2>1
    <2> HIDE DEF S
    <2>3. QED
      BY <2>1, <2>2
  <1>2. e \in S
    OBVIOUS
  <1> HIDE DEF S
  <1>3. /\ Append(s, e) \in Seq(S) /\ Len(Append(s, e)) = Len(s) + 1
        /\ \A i \in 1..Len(s) : Append(s, e)[i] = s[i]
        /\ Append(s, e)[Len(s) + 1] = e
    BY <1>1, <1>2, AppendProperties
  <1>4. IsSequence(Append(s, e))
    BY <1>3, IsSequenceFrom
  <1>5. QED
    BY <1>3, <1>4

LEMMA EmptyIs == IsSequence(<<>>) /\ Len(<<>>) = 0
  BY EmptySeq, IsSequenceFrom

-----------------------------------------------------------------------------
(* The lists.                                                              *)

LEMMA NumberCounted ==
    ASSUME NEW l \in Lists
    PROVE  /\ l.count \in Nat /\ IsSequence(l.entries) /\ Len(l.entries) \in Nat
           /\ Counted(l) = IF l.count < Len(l.entries) THEN l.count ELSE Len(l.entries)
           /\ Counted(l) \in 0..Len(l.entries)
  <1>1. l.count \in Nat /\ IsSequence(l.entries)
    BY HookAssumption
  <1>2. Len(l.entries) \in Nat
    BY <1>1, SequenceIs
  <1> DEFINE c == IF l.count < Len(l.entries) THEN l.count ELSE Len(l.entries)
             P(k) == k <= l.count /\ (k < Len(l.entries) => k = l.count)
  <1>3. c \in 0..Len(l.entries) /\ P(c)
    BY <1>1, <1>2
  <1>4. \A k \in 0..Len(l.entries) : P(k) => k = c
    BY <1>1, <1>2
  <1>5. Counted(l) = CHOOSE k \in 0..Len(l.entries) : P(k)
    BY DEF Counted
  <1> HIDE DEF c, P
  <1>6. Counted(l) = c
    BY <1>3, <1>4, <1>5
  <1>7. QED
    BY <1>1, <1>2, <1>3, <1>6 DEF c

\* What parseMetaList returns: the entries the header counts, in their order.
LEMMA ParsedIs ==
    ASSUME NEW l \in Lists
    PROVE  /\ IsSequence(Parsed(l)) /\ Len(Parsed(l)) = Counted(l)
           /\ \A i \in 1..Counted(l) : Parsed(l)[i] = l.entries[i]
  <1> DEFINE s == l.entries
             n == Counted(l)
             S == {s[i] : i \in DOMAIN s}
  <1>1. n \in 0..Len(s) /\ Len(s) \in Nat /\ DOMAIN s = 1..Len(s) /\ Parsed(l) = SubSeq(s, 1, n)
    BY NumberCounted, SequenceIs DEF Parsed
  <1>2. \A i \in 1..n : s[i] \in S
    BY <1>1
  <1> HIDE DEF n, s, S
  <1>3. /\ SubSeq(s, 1, n) \in Seq(S)
        /\ Len(SubSeq(s, 1, n)) = IF 1 <= n THEN n - 1 + 1 ELSE 0
        /\ \A i \in 1..(n - 1 + 1) : SubSeq(s, 1, n)[i] = s[1 + i - 1]
    BY <1>1, <1>2, SubSeqProperties
  <1>4. Len(SubSeq(s, 1, n)) = n /\ \A i \in 1..n : SubSeq(s, 1, n)[i] = s[i]
    BY <1>1, <1>3
  <1>5. IsSequence(SubSeq(s, 1, n))
    BY <1>3, IsSequenceFrom
  <1>6. QED
    BY <1>1, <1>4, <1>5 DEF n, s

\* An entry of a list.
IsMeta(m) ==
    /\ m.by \in MetaBy /\ m.index \in Nat /\ IsSequence(m.seeds)
    /\ \A j \in DOMAIN m.seeds :
        m.seeds[j].kind \in SeedKind /\ (m.seeds[j].kind \in {"key", "data"} => m.seeds[j].value \in Nat)

LEMMA EntriesAre ==
    ASSUME NEW l \in Lists, NEW i \in 1..Counted(l)
    PROVE  i \in DOMAIN l.entries /\ IsMeta(l.entries[i])
  <1>1. i \in DOMAIN l.entries
    BY NumberCounted, SequenceIs
  <1>2. QED
    BY <1>1, HookAssumption DEF IsMeta

-----------------------------------------------------------------------------
(* The recursive definition of the hook's accounts.                        *)

HasList == hook \in DOMAIN lists /\ lists[hook] \in Lists
Size == 5 + Counted(lists[hook])

LEMMA SizeIs ==
    ASSUME HasList
    PROVE  /\ Size \in Nat /\ Size >= 5 /\ Extra = 6..Size
           /\ \A i \in Extra : IsMeta(HookMeta(i))
  <1>1. Counted(lists[hook]) \in Nat
    BY NumberCounted DEF HasList
  <1>2. \A i \in 6..(5 + Counted(lists[hook])) : i - 5 \in 1..Counted(lists[hook])
    BY <1>1
  <1>3. QED
    BY <1>1, <1>2, EntriesAre DEF HasList, Size, Extra, HookMeta

\* The seeds' references are among those of their entry.
LEMMA SeedRefers ==
    ASSUME NEW m, IsMeta(m), NEW j \in DOMAIN m.seeds, m.seeds[j].kind \in {"key", "data"}
    PROVE  m.seeds[j].value \in Nat /\ m.seeds[j].value \in RefersTo(m)
  BY DEF IsMeta, RefersTo

\* An address depends only on those before it, when its references are to those.
LEMMA DependsOnEarlier ==
    ASSUME HasList, NEW i \in 1..Size, NEW f, NEW g, \A k \in 1..(i - 1) : f[k] = g[k],
           i \in Extra /\ HookMeta(i).by # "address" => RefersBack(i)
    PROVE  AddressFrom(i, f) = AddressFrom(i, g)
  <1> DEFINE m == HookMeta(i)
  <1>0. Size \in Nat /\ i \in Nat
    BY SizeIs
  <1>1. CASE i <= 5 \/ m.by = "address"
    BY <1>1 DEF AddressFrom
  <1>2. CASE ~(i <= 5) /\ m.by # "address"
    <2>1. i \in Extra /\ IsMeta(m) /\ RefersBack(i)
      BY <1>0, <1>2, SizeIs
    <2>2. \A r \in RefersTo(m) : r \in Nat => f[r + 1] = g[r + 1]
      <3> TAKE r \in RefersTo(m)
      <3> HAVE r \in Nat
      <3>1. r + 1 \in 1..(i - 1)
        BY <1>0, <2>1 DEF RefersBack
      <3>2. QED
        BY <3>1
    <2>3. ASSUME NEW j \in DOMAIN m.seeds
          PROVE  SeedFrom(m.seeds[j], f) = SeedFrom(m.seeds[j], g)
      <3>1. CASE m.seeds[j].kind \in {"key", "data"}
        <4>1. f[m.seeds[j].value + 1] = g[m.seeds[j].value + 1]
          BY <2>1, <2>2, <3>1, SeedRefers
        <4>2. QED
          BY <3>1, <4>1 DEF SeedFrom
      <3>2. CASE m.seeds[j].kind \notin {"key", "data"}
        BY <3>2 DEF SeedFrom
      <3>3. QED
        BY <3>1, <3>2
    <2>4. m.by = "other" => f[m.index + 1] = g[m.index + 1]
      <3> HAVE m.by = "other"
      <3>1. m.index \in RefersTo(m) /\ m.index \in Nat
        BY <2>1 DEF RefersTo, IsMeta
      <3>2. QED
        BY <2>2, <3>1
    <2>5. QED
      BY <1>2, <2>3, <2>4 DEF AddressFrom
  <1>3. QED
    BY <1>1, <1>2

\* So there are addresses that satisfy the definition, for as many of the entries
\* as one likes: those for one more are those for the ones before and one more.
LEMMA AddressesExist ==
    ASSUME HasList, BackReferences
    PROVE  \E f : f = [i \in 1..Size |-> AddressFrom(i, f)]
  <1> DEFINE P(k) == \E f : f = [i \in 1..k |-> AddressFrom(i, f)]
             T == {k \in 0..Size : ~P(k)}
  <1>0. Size \in Nat
    BY SizeIs
  <1> HIDE DEF P
  <1>1. P(0)
    <2>1. <<>> = [i \in 1..0 |-> AddressFrom(i, <<>>)]
      OBVIOUS
    <2>2. QED
      BY <2>1 DEF P
  <1>2. ASSUME NEW k \in 0..Size, k + 1 \in 0..Size, P(k)
        PROVE  P(k + 1)
    <2>1. PICK f : f = [i \in 1..k |-> AddressFrom(i, f)]
      BY <1>2 DEF P
    <2> DEFINE g == [i \in 1..(k + 1) |-> AddressFrom(i, f)]
    <2>2. \A i \in 1..k : f[i] = g[i]
      <3>1. \A i \in 1..k : f[i] = AddressFrom(i, f)
        BY <2>1
      <3>2. QED
        BY <3>1
    <2>3. \A i \in 1..(k + 1) : AddressFrom(i, f) = AddressFrom(i, g)
      <3> TAKE i \in 1..(k + 1)
      <3> HIDE DEF g
      <3>1. i \in 1..Size /\ (\A j \in 1..(i - 1) : f[j] = g[j])
        BY <1>0, <1>2, <2>2
      <3>2. QED
        BY <3>1, DependsOnEarlier DEF BackReferences
    <2>4. g = [i \in 1..(k + 1) |-> AddressFrom(i, g)]
      <3> DEFINE h == g
      <3>1. \A i \in 1..(k + 1) : AddressFrom(i, f) = AddressFrom(i, h)
        BY <2>3
      <3>2. [i \in 1..(k + 1) |-> AddressFrom(i, f)] = [i \in 1..(k + 1) |-> AddressFrom(i, h)]
        <4> HIDE DEF h
        <4>1. QED
          BY <3>1
      <3>3. QED
        BY <3>2
    <2>5. QED
      BY <2>4 DEF P
  <1>3. T = {}
    <2> SUFFICES ASSUME T # {} PROVE FALSE
      OBVIOUS
    <2>0. T \in SUBSET Nat
      BY <1>0
    <2>1. PICK k \in T : \A j \in T : k <= j
      <3> HIDE DEF T
      <3>1. QED
        BY <2>0, Least
    <2>2. k \in 0..Size /\ ~P(k) /\ k # 0
      BY <1>1
    <2>3. k - 1 \in 0..Size /\ k - 1 \notin T
      BY <1>0, <2>1, <2>2
    <2>4. P(k - 1)
      BY <2>3
    <2>5. (k - 1) + 1 = k
      BY <1>0, <2>2
    <2>6. QED
      BY <1>2, <2>2, <2>3, <2>4, <2>5
  <1>4. P(Size)
    BY <1>0, <1>3
  <1>5. QED
    BY <1>4 DEF P

\* The recursive definition is one.
LEMMA HookAddressIs ==
    ASSUME HasList, BackReferences
    PROVE  HookAddress = [i \in 1..Size |-> AddressFrom(i, HookAddress)]
  <1> DEFINE P(f) == f = [i \in 1..Size |-> AddressFrom(i, f)]
  <1> HIDE DEF P
  <1>1. HookAddress = CHOOSE f : P(f)
    BY DEF HookAddress, P, Size
  <1>2. \E f : P(f)
    BY AddressesExist DEF P
  <1>3. P(HookAddress)
    BY <1>1, <1>2
  <1>4. QED
    BY <1>3 DEF P

\* Any addresses that satisfy it up to some index are the ones it defines.
LEMMA HookAddressUnique ==
    ASSUME HasList, BackReferences, NEW n \in 0..Size, NEW f,
           \A i \in 1..n : f[i] = AddressFrom(i, f)
    PROVE  \A i \in 1..n : HookAddress[i] = f[i]
  <1> DEFINE T == {i \in 1..n : HookAddress[i] # f[i]}
  <1>0. Size \in Nat /\ n \in Nat
    BY SizeIs
  <1>1. \A i \in 1..Size : HookAddress[i] = AddressFrom(i, HookAddress)
    <2> DEFINE A(i) == AddressFrom(i, HookAddress)
    <2> HIDE DEF A
    <2>1. HookAddress = [i \in 1..Size |-> A(i)]
      BY HookAddressIs DEF A
    <2>2. \A i \in 1..Size : HookAddress[i] = A(i)
      BY <2>1
    <2>3. QED
      BY <2>2 DEF A
  <1> SUFFICES ASSUME T # {} PROVE FALSE
    OBVIOUS
  <1>2. PICK i \in T : \A j \in T : i <= j
    <2>1. T \in SUBSET Nat
      BY <1>0
    <2> HIDE DEF T
    <2>2. QED
      BY <2>1, Least
  <1>3. i \in 1..n /\ i \in 1..Size /\ HookAddress[i] # f[i]
    BY <1>0
  <1>4. \A k \in 1..(i - 1) : HookAddress[k] = f[k]
    BY <1>0, <1>2, <1>3
  <1>5. AddressFrom(i, HookAddress) = AddressFrom(i, f)
    <2>1. \A k \in 1..(i - 1) : HookAddress[k] = f[k]
      BY <1>4
    <2>2. i \in Extra /\ HookMeta(i).by # "address" => RefersBack(i)
      BY DEF BackReferences
    <2>3. QED
      BY <1>3, <2>1, <2>2, DependsOnEarlier
  <1>6. QED
    BY <1>1, <1>3, <1>5

-----------------------------------------------------------------------------
(* What holds of every state.                                              *)

\* What the call keeps is of the shape the code gives it.
ShapeInv ==
    /\ hook \in Programs \cup {NoHook} /\ hookProgram \in Programs \cup {NoHook}
    /\ lists \in Partial(Programs, Lists)
    /\ pc \in {"mint", "list", "resolve", "done"}
    /\ failed \in BOOLEAN /\ changes \in 0..MaxChanges
    /\ IsSequence(metas) /\ IsSequence(resolved) /\ IsSequence(seeds)
    /\ Len(resolved) <= 5 + Len(metas)
    /\ pc \in {"mint", "list"} => metas = <<>> /\ resolved = <<>> /\ seeds = <<>>
    /\ pc = "resolve" => Len(resolved) >= 5 /\ \A i \in 1..Len(metas) : IsMeta(metas[i])
    /\ HasMeta => Len(seeds) <= Len(Meta.seeds)

ReturnedAccounts ==
    SubSeq(resolved, 6, Len(resolved))
        \o << Account(hookProgram, FALSE), Account(MetaList(hookProgram), FALSE) >>

\* Every account so far that is derived by the hook is derived by the one program
\* that was read.
ByHookProgram ==
    /\ resolved[5].address = MetaList(hookProgram)
    /\ \A i \in 1..Len(metas) :
        5 + i <= Len(resolved) /\ metas[i].by = "hook" => resolved[5 + i].address[2] = hookProgram

OneHookInv ==
    /\ pc = "resolve" => ByHookProgram
    /\ IF pc = "done" /\ result.accounts # <<>>
       THEN ByHookProgram /\ Len(resolved) = 5 + Len(metas) /\ result.accounts = ReturnedAccounts
       ELSE result.accounts = <<>>

\* As long as the chain has not changed, the accounts so far are those of its hook,
\* and so are the seeds of the next one.
Addresses == [i \in 1..Len(resolved) |-> resolved[i].address]

AsWanted ==
    /\ hookProgram = hook /\ hook \in DOMAIN lists /\ metas = Parsed(lists[hook])
    /\ \A i \in 1..Len(resolved) : Addresses[i] = AddressFrom(i, Addresses)
    /\ \A i \in 6..Len(resolved) :
        /\ resolved[i] = Account(Addresses[i], HookMeta(i).writable)
        /\ HookMeta(i).by # "address" => RefersBack(i) /\ KindsKnown(i) /\ DataExist(i, Addresses)
    /\ \A j \in 1..Len(seeds) :
        HasMeta => /\ seeds[j] = SeedFrom(Meta.seeds[j], Addresses)
                   /\ ~SeedMissing(Meta.seeds[j])

ExactInv ==
    changes = 0 =>
        /\ pc = "list" => hookProgram = hook
        /\ pc = "resolve" => AsWanted
        /\ pc = "done" /\ ~failed => result = Wanted

LEMMA ListsThere ==
    ASSUME lists \in Partial(Programs, Lists)
    PROVE  /\ NoHook \notin DOMAIN lists
           /\ \A p \in DOMAIN lists : p \in Programs /\ lists[p] \in Lists
  BY HookAssumption DEF Partial

\* What the call returns: the accounts after the first five, the hook program and its list.
LEMMA ReturnedIs ==
    ASSUME IsSequence(resolved), NEW n \in Nat, Len(resolved) = 5 + n
    PROVE  /\ Len(ReturnedAccounts) = n + 2
           /\ ReturnedAccounts = [k \in 1..(n + 2) |->
                IF k <= n THEN resolved[k + 5]
                ELSE Account(IF k = n + 1 THEN hookProgram ELSE MetaList(hookProgram), FALSE)]
  <1> DEFINE extra == SubSeq(resolved, 6, Len(resolved))
             last  == << Account(hookProgram, FALSE), Account(MetaList(hookProgram), FALSE) >>
             S     == {resolved[i] : i \in DOMAIN resolved} \cup {last[1], last[2]}
  <1>1. /\ Len(resolved) \in Nat /\ DOMAIN resolved = 1..Len(resolved)
        /\ \A i \in 6..Len(resolved) : resolved[i] \in S
    <2>1. Len(resolved) \in Nat /\ DOMAIN resolved = 1..Len(resolved)
      BY SequenceIs
    <2>2. \A i \in 6..Len(resolved) : i \in DOMAIN resolved
      BY <2>1
    <2>3. QED
      BY <2>1, <2>2
  <1>2. last \in Seq(S) /\ Len(last) = 2
    OBVIOUS
  <1>3. last[1] = Account(hookProgram, FALSE) /\ last[2] = Account(MetaList(hookProgram), FALSE)
    OBVIOUS
  <1>4. ReturnedAccounts = extra \o last
    BY DEF ReturnedAccounts
  <1>5. extra = SubSeq(resolved, 6, Len(resolved))
    OBVIOUS
  <1> HIDE DEF S, last, extra
  <1>6. /\ extra \in Seq(S)
        /\ Len(extra) = IF 6 <= Len(resolved) THEN Len(resolved) - 6 + 1 ELSE 0
        /\ \A i \in 1..(Len(resolved) - 6 + 1) : extra[i] = resolved[6 + i - 1]
    BY <1>1, <1>5, SubSeqProperties
  <1>7. Len(extra) = n /\ \A i \in 1..n : extra[i] = resolved[i + 5]
    BY <1>6
  <1>8. /\ ReturnedAccounts \in Seq(S) /\ Len(ReturnedAccounts) = n + 2
        /\ \A i \in 1..(n + 2) : ReturnedAccounts[i] = IF i <= n THEN extra[i] ELSE last[i - n]
    <2>1. /\ extra \o last \in Seq(S) /\ Len(extra \o last) = Len(extra) + Len(last)
          /\ \A i \in 1..(Len(extra) + Len(last)) :
                (extra \o last)[i] = IF i <= Len(extra) THEN extra[i] ELSE last[i - Len(extra)]
      <3>1. extra \in Seq(S) /\ last \in Seq(S)
        BY <1>2, <1>6
      <3>2. QED
        BY <3>1, ConcatProperties
    <2>2. QED
      BY <1>2, <1>4, <1>7, <2>1
  <1>9. ReturnedAccounts = [k \in 1..(n + 2) |-> ReturnedAccounts[k]]
    BY <1>8, LenProperties
  <1>10. \A k \in 1..(n + 2) : ReturnedAccounts[k] =
            IF k <= n THEN resolved[k + 5]
            ELSE Account(IF k = n + 1 THEN hookProgram ELSE MetaList(hookProgram), FALSE)
    <2> TAKE k \in 1..(n + 2)
    <2>0. ReturnedAccounts[k] = IF k <= n THEN extra[k] ELSE last[k - n]
      BY <1>8
    <2>1. CASE k <= n
      <3>1. k \in 1..n
        BY <2>1
      <3>2. extra[k] = resolved[k + 5]
        BY <1>7, <3>1
      <3>3. QED
        BY <2>0, <2>1, <3>2
    <2>2. CASE k = n + 1
      <3>1. ~(k <= n) /\ k - n = 1
        BY <2>2
      <3>2. QED
        BY <1>3, <2>0, <2>2, <3>1
    <2>3. CASE k = n + 2
      <3>1. ~(k <= n) /\ k - n = 2 /\ k # n + 1
        BY <2>3
      <3>2. QED
        BY <1>3, <2>0, <3>1
    <2>4. k <= n \/ k = n + 1 \/ k = n + 2
      OBVIOUS
    <2>5. QED
      BY <2>1, <2>2, <2>3, <2>4
  <1>11. QED
    BY <1>8, <1>9, <1>10

-----------------------------------------------------------------------------
(* What the chain says stays while the chain stays.                        *)

LEMMA WantedStays ==
    ASSUME UNCHANGED chainVars
    PROVE  Wanted' = Wanted
  BY DEF chainVars, Wanted, Resolvable, BackReferences, RefersBack, KindsKnown, DataExist,
         HookAddress, AddressFrom, SeedFrom, HookMeta, Extra

LEMMA RulesStay ==
    ASSUME UNCHANGED chainVars, NEW f, f = Addresses'
    PROVE  /\ \A i : HookMeta(i)' = HookMeta(i)
           /\ \A i : AddressFrom(i, Addresses)' = AddressFrom(i, f)
           /\ \A i : RefersBack(i)' = RefersBack(i) /\ KindsKnown(i)' = KindsKnown(i)
           /\ \A i : DataExist(i, Addresses)' = DataExist(i, f)
  <1>1. \A i : HookMeta(i)' = HookMeta(i)
    BY DEF chainVars, HookMeta
  <1>2. \A i : AddressFrom(i, Addresses)' = AddressFrom(i, f)
    BY <1>1 DEF chainVars, AddressFrom, SeedFrom
  <1>3. \A i : RefersBack(i)' = RefersBack(i) /\ KindsKnown(i)' = KindsKnown(i)
    BY <1>1 DEF RefersBack, KindsKnown
  <1>4. \A i : DataExist(i, Addresses)' = DataExist(i, f)
    BY <1>1 DEF chainVars, DataExist
  <1>5. QED
    BY <1>1, <1>2, <1>3, <1>4

-----------------------------------------------------------------------------
(* The shape is kept.                                                      *)

LEMMA ShapeFacts ==
    ASSUME ShapeInv
    PROVE  /\ Len(resolved) \in Nat /\ DOMAIN resolved = 1..Len(resolved)
           /\ Len(metas) \in Nat /\ Len(seeds) \in Nat /\ DOMAIN seeds = 1..Len(seeds)
           /\ HasMeta => /\ pc = "resolve" /\ Len(resolved) - 4 \in 1..Len(metas) /\ Len(resolved) >= 5
                         /\ IsMeta(Meta) /\ Len(Meta.seeds) \in Nat
                         /\ DOMAIN Meta.seeds = 1..Len(Meta.seeds)
  <1>1. /\ Len(resolved) \in Nat /\ DOMAIN resolved = 1..Len(resolved)
        /\ Len(metas) \in Nat /\ Len(seeds) \in Nat /\ DOMAIN seeds = 1..Len(seeds)
    BY SequenceIs DEF ShapeInv
  <1>2. ASSUME HasMeta
        PROVE  /\ pc = "resolve" /\ Len(resolved) - 4 \in 1..Len(metas) /\ Len(resolved) >= 5
               /\ IsMeta(Meta)
    BY <1>1, <1>2 DEF ShapeInv, HasMeta, Meta
  <1>3. ASSUME IsMeta(Meta)
        PROVE  Len(Meta.seeds) \in Nat /\ DOMAIN Meta.seeds = 1..Len(Meta.seeds)
    BY <1>3, SequenceIs DEF IsMeta
  <1>4. QED
    BY <1>1, <1>2, <1>3

\* resolved.push: one more account, and the next entry begins.
LEMMA PushIs ==
    ASSUME ShapeInv, HasMeta, NEW a, Push(a), UNCHANGED <<pc, metas>>
    PROVE  /\ IsSequence(resolved') /\ Len(resolved') = Len(resolved) + 1
           /\ \A i \in 1..Len(resolved) : resolved'[i] = resolved[i]
           /\ resolved'[Len(resolved) + 1] = Account(a, Meta.writable)
           /\ seeds' = <<>> /\ Len(seeds') = 0 /\ IsSequence(seeds')
           /\ HasMeta' => IsMeta(Meta)'
           /\ HasMeta' => Len(Meta.seeds)' \in Nat
  <1>1. /\ IsSequence(resolved') /\ Len(resolved') = Len(resolved) + 1
        /\ \A i \in 1..Len(resolved) : resolved'[i] = resolved[i]
        /\ resolved'[Len(resolved) + 1] = Account(a, Meta.writable)
    BY AppendIs DEF Push, ShapeInv
  <1>2. seeds' = <<>> /\ Len(seeds') = 0 /\ IsSequence(seeds')
    BY EmptyIs DEF Push
  <1>3. ASSUME HasMeta'
        PROVE  IsMeta(Meta)'
    <2>1. Len(resolved) + 1 - 4 \in 1..Len(metas)
      BY <1>1, <1>3, ShapeFacts DEF HasMeta
    <2>2. IsMeta(metas[Len(resolved) + 1 - 4])
      BY <2>1, ShapeFacts DEF ShapeInv
    <2>3. QED
      BY <1>1, <2>2 DEF Meta, IsMeta
  <1>4. ASSUME HasMeta'
        PROVE  Len(Meta.seeds)' \in Nat
    BY <1>3, <1>4, SequenceIs DEF IsMeta
  <1>5. QED
    BY <1>1, <1>2, <1>3, <1>4

LEMMA ShapePush ==
    ASSUME ShapeInv, HasMeta, NEW a, Push(a),
           UNCHANGED <<pc, hookProgram, metas, result, failed, chainVars, changes>>
    PROVE  ShapeInv'
  <1>1. /\ IsSequence(resolved') /\ Len(resolved') = Len(resolved) + 1
        /\ IsSequence(seeds') /\ (HasMeta' => Len(seeds') <= Len(Meta.seeds)')
    BY PushIs
  <1>2. Len(resolved) \in Nat /\ Len(metas) \in Nat /\ pc = "resolve" /\ Len(resolved) < 5 + Len(metas)
    BY ShapeFacts DEF HasMeta
  <1>3. \A i \in 1..Len(metas)' : IsMeta(metas[i])'
    BY <1>2 DEF ShapeInv, IsMeta
  <1>4. QED
    BY <1>1, <1>2, <1>3 DEF ShapeInv, chainVars

\* Once the call is over, only what it leaves matters.
LEMMA ShapeDone ==
    ASSUME ShapeInv, pc' = "done", hookProgram' \in Programs \cup {NoHook}, failed' \in BOOLEAN,
           UNCHANGED <<metas, resolved, seeds, chainVars, changes>>
    PROVE  ShapeInv'
  BY DEF ShapeInv, chainVars, HasMeta

LEMMA BaseIs ==
    ASSUME NEW p
    PROVE  IsSequence(BaseAccounts(p)) /\ Len(BaseAccounts(p)) = 5
  <1>1. ASSUME NEW a, NEW b, NEW c, NEW d, NEW e
        PROVE  <<a, b, c, d, e>> \in Seq({a, b, c, d, e}) /\ Len(<<a, b, c, d, e>>) = 5
    OBVIOUS
  <1>2. IsSequence(BaseAccounts(p))
    BY <1>1, IsSequenceFrom DEF BaseAccounts
  <1>3. QED
    BY <1>1, <1>2 DEF BaseAccounts

LEMMA ShapeReadList ==
    ASSUME ShapeInv, ReadList
    PROVE  ShapeInv'
  <1>1. CASE hookProgram \notin DOMAIN lists
    BY <1>1, ShapeDone DEF ReadList, Return, ShapeInv
  <1>2. CASE hookProgram \in DOMAIN lists
    <2>1. /\ lists[hookProgram] \in Lists /\ metas' = Parsed(lists[hookProgram])
          /\ resolved' = BaseAccounts(hookProgram) /\ pc' = "resolve" /\ seeds = <<>>
          /\ UNCHANGED <<hookProgram, seeds, failed, chainVars, changes>>
      BY <1>2, ListsThere DEF ReadList, ShapeInv
    <2>2. /\ IsSequence(metas') /\ Len(metas') \in Nat
          /\ \A i \in 1..Len(metas') : IsMeta(metas'[i])
      <3>1. /\ Len(metas') = Counted(lists[hookProgram]) /\ Counted(lists[hookProgram]) \in Nat
            /\ IsSequence(metas')
            /\ \A i \in 1..Len(metas') : metas'[i] = lists[hookProgram].entries[i]
        BY <2>1, ParsedIs, NumberCounted
      <3>2. QED
        BY <2>1, <3>1, EntriesAre
    <2>3. IsSequence(resolved') /\ Len(resolved') = 5
      BY <2>1, BaseIs
    <2>4. HasMeta' => Len(seeds') <= Len(Meta.seeds)'
      <3> SUFFICES ASSUME HasMeta' PROVE Len(seeds') <= Len(Meta.seeds)'
        OBVIOUS
      <3>1. 1 \in 1..Len(metas') /\ Meta' = metas'[1]
        BY <2>2, <2>3 DEF HasMeta, Meta
      <3>2. Len(Meta.seeds)' \in Nat
        BY <2>2, <3>1, SequenceIs DEF IsMeta
      <3>3. QED
        BY <2>1, <3>2, EmptyIs
    <2>5. \A i \in 1..Len(metas)' : IsMeta(metas[i])'
      BY <2>2 DEF IsMeta
    <2>6. QED
      BY <2>1, <2>2, <2>3, <2>4, <2>5 DEF ShapeInv, chainVars
  <1>3. QED
    BY <1>1, <1>2

LEMMA ShapeTakeSeed ==
    ASSUME ShapeInv, TakeSeed
    PROVE  ShapeInv'
  <1> DEFINE s == Meta.seeds[Len(seeds) + 1]
  <1>1. CASE SeedMissing(s)
    BY <1>1, ShapeDone DEF TakeSeed, Throw, Return, ShapeInv
  <1>2. CASE ~SeedMissing(s)
    <2>1. /\ seeds' = Append(seeds, Seed(s)) /\ Len(seeds) < Len(Meta.seeds)
          /\ UNCHANGED <<pc, hookProgram, metas, resolved, failed, chainVars, changes>>
      BY <1>2 DEF TakeSeed
    <2>2. IsSequence(seeds') /\ Len(seeds') = Len(seeds) + 1
      BY <2>1, AppendIs DEF ShapeInv
    <2>3. HasMeta' => Len(seeds') <= Len(Meta.seeds)'
      BY <2>1, <2>2, ShapeFacts DEF HasMeta, Meta, TakeSeed
    <2>4. \A i \in 1..Len(metas)' : pc' = "resolve" => IsMeta(metas[i])'
      BY <2>1 DEF ShapeInv, IsMeta
    <2>5. pc = "resolve"
      BY DEF TakeSeed, HasMeta
    <2>6. QED
      BY <2>1, <2>2, <2>3, <2>4, <2>5 DEF ShapeInv, chainVars
  <1>3. QED
    BY <1>1, <1>2

LEMMA ShapeInvInit == Init => ShapeInv
  <1> SUFFICES ASSUME Init PROVE ShapeInv
    OBVIOUS
  <1>1. changes \in 0..MaxChanges
    BY HookAssumption DEF Init
  <1>2. IsSequence(metas) /\ IsSequence(resolved) /\ IsSequence(seeds) /\ Len(resolved) <= 5 + Len(metas)
    BY EmptyIs DEF Init
  <1>3. QED
    BY <1>1, <1>2 DEF Init, ShapeInv, HasMeta

LEMMA ShapeInvStep == ShapeInv /\ [Next]_vars => ShapeInv'
  <1> SUFFICES ASSUME ShapeInv, [Next]_vars PROVE ShapeInv'
    OBVIOUS
  <1>1. CASE ReadMint
    <2>1. CASE hook = NoHook
      BY <1>1, <2>1, ShapeDone DEF ReadMint, Return, ShapeInv
    <2>2. CASE hook # NoHook
      BY <1>1, <2>2 DEF ReadMint, ShapeInv, HasMeta, chainVars
    <2>3. QED
      BY <2>1, <2>2
  <1>2. CASE ReadList
    BY <1>2, ShapeReadList
  <1>3. CASE ResolveAddress
    BY <1>3, ShapePush DEF ResolveAddress
  <1>4. CASE TakeSeed
    BY <1>4, ShapeTakeSeed
  <1>5. CASE Derive
    BY <1>5, ShapePush DEF Derive
  <1>6. CASE ThrowForProgram
    BY <1>6, ShapeDone DEF ThrowForProgram, Throw, Return, ShapeInv
  <1>7. CASE ReturnAccounts
    BY <1>7, ShapeDone DEF ReturnAccounts, Return, ShapeInv
  <1>8. CASE RequestFails
    BY <1>8, ShapeDone DEF RequestFails, Return, ShapeInv
  <1>9. CASE Change
    <2>1. /\ UNCHANGED callVars /\ changes' \in 0..MaxChanges
          /\ hook' \in Programs \cup {NoHook} /\ lists' \in Partial(Programs, Lists)
      BY <1>9, HookAssumption DEF Change, ShapeInv
    <2>2. \A i \in 1..Len(metas)' : pc' = "resolve" => IsMeta(metas[i])'
      BY <2>1 DEF ShapeInv, IsMeta, callVars
    <2>3. QED
      BY <2>1, <2>2 DEF ShapeInv, callVars, HasMeta, Meta
  <1>10. CASE UNCHANGED vars
    <2>1. \A i \in 1..Len(metas)' : pc' = "resolve" => IsMeta(metas[i])'
      BY <1>10 DEF ShapeInv, IsMeta, vars, callVars
    <2>2. QED
      BY <1>10, <2>1 DEF ShapeInv, vars, chainVars, callVars, HasMeta, Meta
  <1>11. QED
    BY <1>1, <1>2, <1>3, <1>4, <1>5, <1>6, <1>7, <1>8, <1>9, <1>10 DEF Next, CallStep

LEMMA ShapeInvAlways == Spec => []ShapeInv
  BY ShapeInvInit, ShapeInvStep, PTL DEF Spec

-----------------------------------------------------------------------------
(* One hook.                                                               *)

LEMMA OneHookInvInit == Init => OneHookInv
  BY DEF Init, OneHookInv, Returned

\* An account more: one that the hook derives is derived by the program that was read.
LEMMA OneHookPush ==
    ASSUME ShapeInv, OneHookInv, HasMeta, NEW a, Push(a), Meta.by = "hook" => a[2] = hookProgram,
           UNCHANGED <<pc, hookProgram, metas, result>>
    PROVE  OneHookInv'
  <1>1. /\ Len(resolved) \in Nat /\ Len(resolved) >= 5 /\ Len(metas) \in Nat /\ pc = "resolve"
        /\ Len(resolved') = Len(resolved) + 1
        /\ \A i \in 1..Len(resolved) : resolved'[i] = resolved[i]
        /\ resolved'[Len(resolved) + 1] = Account(a, Meta.writable)
    BY ShapeFacts, PushIs
  <1>2. ByHookProgram
    BY <1>1 DEF OneHookInv
  <1>3. ASSUME NEW i \in 1..Len(metas), 5 + i <= Len(resolved) + 1, metas[i].by = "hook"
        PROVE  resolved'[5 + i].address[2] = hookProgram
    <2>1. CASE 5 + i <= Len(resolved)
      <3>1. 5 + i \in 1..Len(resolved)
        BY <1>1, <2>1
      <3>2. resolved'[5 + i] = resolved[5 + i]
        BY <1>1, <3>1
      <3>3. QED
        BY <1>2, <1>3, <2>1, <3>2 DEF ByHookProgram
    <2>2. CASE 5 + i = Len(resolved) + 1
      <3>1. i = Len(resolved) - 4
        BY <1>1, <2>2
      <3>2. Meta.by = "hook"
        BY <1>3, <3>1 DEF Meta
      <3>3. resolved'[5 + i].address = a
        BY <1>1, <2>2 DEF Account
      <3>4. QED
        BY <3>2, <3>3
    <2>3. QED
      BY <1>1, <1>3, <2>1, <2>2
  <1>4. resolved'[5] = resolved[5]
    BY <1>1
  <1>5. ByHookProgram'
    BY <1>1, <1>2, <1>3, <1>4 DEF ByHookProgram
  <1>6. QED
    BY <1>1, <1>5 DEF OneHookInv

\* A result without accounts.
LEMMA OneHookNothing ==
    ASSUME pc' = "done", result'.accounts = <<>>
    PROVE  OneHookInv'
  BY DEF OneHookInv

LEMMA OneHookInvStep == ShapeInv /\ OneHookInv /\ [Next]_vars => OneHookInv'
  <1> SUFFICES ASSUME ShapeInv, OneHookInv, [Next]_vars PROVE OneHookInv'
    OBVIOUS
  <1>0. Threw.accounts = <<>> /\ Returned(<<>>).accounts = <<>>
    BY DEF Threw, Returned
  <1>1. CASE ReadMint
    <2>1. CASE hook = NoHook
      BY <1>0, <1>1, <2>1, OneHookNothing DEF ReadMint, Return
    <2>2. CASE hook # NoHook
      BY <1>1, <2>2 DEF ReadMint, OneHookInv
    <2>3. QED
      BY <2>1, <2>2
  <1>2. CASE ReadList
    <2>1. CASE hookProgram \notin DOMAIN lists
      BY <1>0, <1>2, <2>1, OneHookNothing DEF ReadList, Return
    <2>2. CASE hookProgram \in DOMAIN lists
      <3>1. /\ resolved' = BaseAccounts(hookProgram) /\ pc = "list" /\ pc' = "resolve"
            /\ hookProgram' = hookProgram /\ result' = result
        BY <1>2, <2>2 DEF ReadList
      <3>2. resolved'[5].address = MetaList(hookProgram) /\ Len(resolved') = 5
        BY <3>1, BaseIs DEF BaseAccounts, Account
      <3>3. ByHookProgram'
        BY <3>1, <3>2 DEF ByHookProgram
      <3>4. QED
        BY <3>1, <3>3 DEF OneHookInv
    <2>3. QED
      BY <2>1, <2>2
  <1>3. CASE ResolveAddress
    BY <1>3, OneHookPush DEF ResolveAddress
  <1>4. CASE TakeSeed
    <2>1. CASE result' = Threw /\ pc' = "done"
      BY <1>0, <2>1, OneHookNothing
    <2>2. CASE UNCHANGED <<pc, hookProgram, metas, resolved, result>>
      BY <2>2 DEF OneHookInv, ByHookProgram, ReturnedAccounts
    <2>3. QED
      BY <1>4, <2>1, <2>2 DEF TakeSeed, Throw, Return
  <1>5. CASE Derive
    <2>1. Meta.by = "hook" => Derived(Program, seeds)[2] = hookProgram
      BY DEF Derived, Program
    <2>2. QED
      BY <1>5, <2>1, OneHookPush DEF Derive
  <1>6. CASE ThrowForProgram
    BY <1>0, <1>6, OneHookNothing DEF ThrowForProgram, Throw, Return
  <1>7. CASE ReturnAccounts
    <2>1. pc = "resolve" /\ pc' = "done" /\ ByHookProgram /\ Len(resolved) = 5 + Len(metas)
      BY <1>7, ShapeFacts DEF ReturnAccounts, Return, HasMeta, OneHookInv, ShapeInv
    <2>2. result'.accounts = ReturnedAccounts /\ UNCHANGED <<hookProgram, metas, resolved>>
      BY <1>7 DEF ReturnAccounts, Return, Returned, ReturnedAccounts
    <2>3. ByHookProgram' /\ ReturnedAccounts' = ReturnedAccounts
      BY <2>1, <2>2 DEF ByHookProgram, ReturnedAccounts
    <2>4. QED
      BY <2>1, <2>2, <2>3 DEF OneHookInv
  <1>8. CASE RequestFails
    BY <1>0, <1>8, OneHookNothing DEF RequestFails, Return
  <1>9. CASE Change \/ UNCHANGED vars
    <2>1. UNCHANGED <<pc, hookProgram, metas, resolved, result>>
      BY <1>9 DEF Change, vars, callVars
    <2>2. QED
      BY <2>1 DEF OneHookInv, ByHookProgram, ReturnedAccounts
  <1>10. QED
    BY <1>1, <1>2, <1>3, <1>4, <1>5, <1>6, <1>7, <1>8, <1>9 DEF Next, CallStep

\* resolveTransferHookAccounts: whatever the authorities of the hooks change between its
\* reads, the program and the list at the end of a result are those that its derived
\* accounts were resolved for.
THEOREM OneHookHolds == Spec => []OneHook
  <1>1. ShapeInv /\ OneHookInv => OneHook
    <2> SUFFICES ASSUME ShapeInv, OneHookInv, pc = "done", result.accounts # <<>>
                 PROVE  LET accounts == result.accounts
                            program  == accounts[Len(accounts) - 1].address
                        IN  /\ accounts[Len(accounts)].address = MetaList(program)
                            /\ resolved[5].address = MetaList(program)
                            /\ \A i \in DOMAIN metas : metas[i].by = "hook" => accounts[i].address[2] = program
      BY DEF OneHook
    <2> DEFINE n == Len(metas)
    <2>1. /\ ByHookProgram /\ result.accounts = ReturnedAccounts
          /\ n \in Nat /\ Len(resolved) = 5 + n /\ IsSequence(resolved) /\ DOMAIN metas = 1..n
      BY SequenceIs DEF ShapeInv, OneHookInv
    <2> DEFINE last(k) == Account(IF k = n + 1 THEN hookProgram ELSE MetaList(hookProgram), FALSE)
    <2>2. /\ Len(ReturnedAccounts) = n + 2
          /\ ReturnedAccounts = [k \in 1..(n + 2) |-> IF k <= n THEN resolved[k + 5] ELSE last(k)]
      BY <2>1, ReturnedIs
    <2>3. last(n + 1).address = hookProgram /\ last(n + 2).address = MetaList(hookProgram)
      BY <2>1 DEF Account
    <2> HIDE DEF n, last
    <2>4. ReturnedAccounts[n + 1] = last(n + 1) /\ ReturnedAccounts[n + 2] = last(n + 2)
      BY <2>1, <2>2
    <2>5. \A i \in 1..n : ReturnedAccounts[i] = resolved[i + 5]
      BY <2>1, <2>2
    <2>6. \A i \in 1..n : metas[i].by = "hook" => ReturnedAccounts[i].address[2] = hookProgram
      <3> TAKE i \in 1..n
      <3>1. 5 + i <= Len(resolved) /\ i + 5 = 5 + i
        BY <2>1
      <3>2. QED
        BY <2>1, <2>5, <3>1 DEF ByHookProgram, n
    <2>7. /\ ReturnedAccounts[(n + 2) - 1].address = hookProgram
          /\ ReturnedAccounts[n + 2].address = MetaList(hookProgram)
      <3>1. (n + 2) - 1 = n + 1
        BY <2>1
      <3>2. QED
        BY <2>3, <2>4, <3>1
    <2>8. QED
      BY <2>1, <2>2, <2>6, <2>7 DEF ByHookProgram
  <1>2. Spec => []OneHookInv
    BY OneHookInvInit, OneHookInvStep, ShapeInvAlways, PTL DEF Spec
  <1>3. QED
    BY <1>1, <1>2, ShapeInvAlways, PTL

-----------------------------------------------------------------------------
(* The accounts of the hook, one after the other.                          *)

\* Whether the data of an entry exist depends only on the addresses before it.
LEMMA DataDependOnEarlier ==
    ASSUME HasList, NEW i \in Extra, NEW f, NEW g, \A k \in 1..(i - 1) : f[k] = g[k],
           RefersBack(i), DataExist(i, f)
    PROVE  DataExist(i, g)
  <1> DEFINE m == HookMeta(i)
  <1>0. IsMeta(m) /\ i \in Nat /\ Size \in Nat
    BY SizeIs
  <1> SUFFICES ASSUME NEW j \in DOMAIN m.seeds, m.seeds[j].kind = "data"
               PROVE  g[m.seeds[j].value + 1] \in DOMAIN data
    BY DEF DataExist
  <1>1. m.seeds[j].value \in Nat /\ m.seeds[j].value \in RefersTo(m)
    BY <1>0, SeedRefers
  <1>2. m.seeds[j].value + 1 \in 1..(i - 1)
    BY <1>0, <1>1 DEF RefersBack
  <1>3. g[m.seeds[j].value + 1] = f[m.seeds[j].value + 1]
    BY <1>2
  <1>4. QED
    BY <1>3 DEF DataExist

\* The list the call has read is the one of the definition, entry by entry.
LEMMA SameList ==
    ASSUME ShapeInv, hook \in DOMAIN lists, metas = Parsed(lists[hook])
    PROVE  /\ HasList /\ Size = 5 + Len(metas) /\ Extra = 6..Size /\ Size \in Nat
           /\ \A i \in Extra : HookMeta(i) = metas[i - 5] /\ IsMeta(HookMeta(i))
           /\ HasMeta => Len(resolved) + 1 \in Extra /\ HookMeta(Len(resolved) + 1) = Meta
  <1>1. HasList
    BY ListsThere DEF ShapeInv, HasList
  <1>2. /\ Len(metas) = Counted(lists[hook]) /\ Counted(lists[hook]) \in Nat
        /\ \A i \in 1..Counted(lists[hook]) : metas[i] = lists[hook].entries[i]
    BY <1>1, ParsedIs, NumberCounted DEF HasList
  <1>3. Size = 5 + Len(metas) /\ Extra = 6..Size /\ Size \in Nat
    BY <1>1, <1>2, SizeIs DEF Size
  <1>4. ASSUME NEW i \in Extra
        PROVE  HookMeta(i) = metas[i - 5] /\ IsMeta(HookMeta(i))
    <2>1. i - 5 \in 1..Counted(lists[hook])
      BY <1>2, <1>3 DEF Size
    <2>2. QED
      BY <1>1, <1>2, <2>1, SizeIs DEF HookMeta
  <1>5. ASSUME HasMeta
        PROVE  Len(resolved) + 1 \in Extra /\ HookMeta(Len(resolved) + 1) = Meta
    <2>1. Len(resolved) \in Nat /\ Len(resolved) - 4 \in 1..Len(metas)
      BY <1>5, ShapeFacts
    <2>2. Len(resolved) + 1 \in Extra /\ (Len(resolved) + 1) - 5 = Len(resolved) - 4
      BY <1>3, <2>1
    <2>3. QED
      BY <1>4, <2>2 DEF Meta
  <1>6. QED
    BY <1>1, <1>3, <1>4, <1>5

\* A seed that can be had is the one of the definition.
LEMMA SeedIs ==
    ASSUME ShapeInv, NEW s, s.kind \in SeedKind, s.kind \in {"key", "data"} => s.value \in Nat,
           ~SeedMissing(s)
    PROVE  /\ Seed(s) = SeedFrom(s, Addresses)
           /\ s.kind \in {"key", "data"} => s.value < Len(resolved) /\ Addresses[s.value + 1] = At(s.value)
  <1>1. CASE s.kind \in {"key", "data"}
    <2>1. s.value \in Nat /\ s.value < Len(resolved)
      BY <1>1 DEF SeedMissing, InList
    <2>2. s.value + 1 \in 1..Len(resolved)
      BY <2>1, ShapeFacts
    <2>3. Addresses[s.value + 1] = At(s.value)
      BY <2>2 DEF Addresses, At
    <2>4. QED
      BY <1>1, <2>1, <2>3 DEF Seed, SeedFrom
  <1>2. CASE s.kind \in {"bytes", "instruction"}
    BY <1>2 DEF Seed, SeedFrom
  <1>3. QED
    BY <1>1, <1>2 DEF SeedKind, SeedMissing

\* An entry whose program and seeds are all there is one that can be resolved.
LEMMA EntryCanBeResolved ==
    ASSUME ShapeInv, AsWanted, HasMeta, Meta.by # "address", ~ProgramMissing,
           \A j \in DOMAIN Meta.seeds : ~SeedMissing(Meta.seeds[j])
    PROVE  /\ RefersBack(Len(resolved) + 1) /\ KindsKnown(Len(resolved) + 1)
           /\ DataExist(Len(resolved) + 1, Addresses)
  <1> DEFINE i == Len(resolved) + 1
  <1>1. HookMeta(i) = Meta /\ IsMeta(Meta) /\ Len(resolved) \in Nat
    BY SameList, ShapeFacts DEF AsWanted
  <1>2. \A j \in DOMAIN Meta.seeds :
            /\ ~SeedMissing(Meta.seeds[j])
            /\ Meta.seeds[j].kind \in {"key", "data"} =>
                 /\ Meta.seeds[j].value \in Nat /\ Meta.seeds[j].value < Len(resolved)
                 /\ Addresses[Meta.seeds[j].value + 1] = At(Meta.seeds[j].value)
    BY <1>1, SeedIs DEF IsMeta
  <1>3. Meta.by # "unknown" /\ (Meta.by = "other" => Meta.index \in Nat /\ Meta.index < Len(resolved))
    BY <1>1 DEF ProgramMissing, InList, IsMeta
  <1>4. RefersBack(i)
    <2> SUFFICES ASSUME NEW r \in RefersTo(Meta) PROVE r + 1 < i
      BY <1>1 DEF RefersBack
    <2>1. r \in Nat /\ r < Len(resolved)
      BY <1>2, <1>3 DEF RefersTo
    <2>2. QED
      BY <1>1, <2>1
  <1>5. KindsKnown(i)
    BY <1>1, <1>2, <1>3 DEF KindsKnown, SeedMissing
  <1>6. DataExist(i, Addresses)
    BY <1>1, <1>2 DEF DataExist, SeedMissing
  <1>7. QED
    BY <1>4, <1>5, <1>6

\* The addresses so far are those of the recursive definition.
LEMMA SoFarAsDefined ==
    ASSUME ShapeInv, AsWanted, BackReferences
    PROVE  \A i \in 1..Len(resolved) : HookAddress[i] = Addresses[i]
  <1>1. HasList /\ Len(resolved) \in 0..Size
    <2>1. HasList /\ Size = 5 + Len(metas)
      BY SameList DEF AsWanted
    <2>2. QED
      BY <2>1, ShapeFacts DEF ShapeInv
  <1>2. \A i \in 1..Len(resolved) : Addresses[i] = AddressFrom(i, Addresses)
    BY DEF AsWanted
  <1>3. QED
    BY <1>1, <1>2, HookAddressUnique

\* A list with an entry that cannot be resolved is none that can.
LEMMA CannotBeResolved ==
    ASSUME ShapeInv, AsWanted, HasMeta, Meta.by # "address",
           ProgramMissing \/ \E j \in DOMAIN Meta.seeds : SeedMissing(Meta.seeds[j])
    PROVE  ~Resolvable
  <1> DEFINE i == Len(resolved) + 1
  <1> SUFFICES ASSUME Resolvable PROVE FALSE
    OBVIOUS
  <1>1. /\ HookMeta(i) = Meta /\ IsMeta(Meta) /\ Len(resolved) \in Nat
        /\ RefersBack(i) /\ KindsKnown(i) /\ DataExist(i, HookAddress)
    BY SameList, ShapeFacts DEF AsWanted, Resolvable, BackReferences
  <1>2. \A k \in 1..Len(resolved) : HookAddress[k] = Addresses[k]
    BY SoFarAsDefined DEF Resolvable
  <1>3. \A r \in RefersTo(Meta) : r + 1 < i
    BY <1>1 DEF RefersBack
  <1>4. CASE ProgramMissing
    <2>1. Meta.by = "other" /\ ~(Meta.index < Len(resolved)) /\ Meta.index \in Nat
      BY <1>1, <1>4 DEF ProgramMissing, InList, KindsKnown, IsMeta
    <2>2. Meta.index \in RefersTo(Meta)
      BY <2>1 DEF RefersTo
    <2>3. QED
      BY <1>1, <1>3, <2>1, <2>2
  <1>5. ASSUME NEW j \in DOMAIN Meta.seeds, SeedMissing(Meta.seeds[j])
        PROVE  FALSE
    <2> DEFINE s == Meta.seeds[j]
    <2>1. s.kind \in {"key", "data"}
      BY <1>1, <1>5 DEF SeedMissing, KindsKnown
    <2>2. s.value \in Nat /\ s.value \in RefersTo(Meta)
      BY <1>1, <2>1, SeedRefers
    <2>3. s.value < Len(resolved)
      BY <1>1, <1>3, <2>2
    <2>4. s.kind = "data" /\ At(s.value) \notin DOMAIN data
      BY <1>5, <2>1, <2>3 DEF SeedMissing, InList
    <2>5. s.value + 1 \in 1..Len(resolved)
      BY <1>1, <2>2, <2>3
    <2>6. HookAddress[s.value + 1] = At(s.value)
      BY <1>2, <2>5 DEF Addresses, At
    <2>7. HookAddress[s.value + 1] \in DOMAIN data
      BY <1>1, <2>4 DEF DataExist
    <2>8. QED
      BY <2>4, <2>6, <2>7
  <1>6. QED
    BY <1>4, <1>5

\* An account more that is the one of the definition.
LEMMA WantedPush ==
    ASSUME ShapeInv, AsWanted, HasMeta, NEW a, Push(a),
           UNCHANGED <<pc, hookProgram, metas, chainVars>>,
           a = AddressFrom(Len(resolved) + 1, Addresses),
           Meta.by # "address" => /\ RefersBack(Len(resolved) + 1) /\ KindsKnown(Len(resolved) + 1)
                                  /\ DataExist(Len(resolved) + 1, Addresses)
    PROVE  AsWanted'
  <1> DEFINE L == Len(resolved)
             f == Addresses
             g == Addresses'
  <1>1. /\ L \in Nat /\ Len(resolved') = L + 1
        /\ \A i \in 1..L : resolved'[i] = resolved[i]
        /\ resolved'[L + 1] = Account(a, Meta.writable)
        /\ Len(seeds') = 0
    BY ShapeFacts, PushIs
  <1>2. /\ HasList /\ Size \in Nat /\ Extra = 6..Size /\ L + 1 \in Extra
        /\ HookMeta(L + 1) = Meta
    BY SameList DEF AsWanted
  <1>3. /\ \A k \in 1..L : f[k] = g[k] /\ f[k] = resolved[k].address
        /\ g[L + 1] = a
    BY <1>1, SMTT(30) DEF Addresses, Account
  <1>4. g = Addresses'
    OBVIOUS
  <1>5. f = Addresses
    OBVIOUS
  <1> HIDE DEF L, f, g
  <1>6. /\ \A i : HookMeta(i)' = HookMeta(i)
        /\ \A i : AddressFrom(i, Addresses)' = AddressFrom(i, g)
        /\ \A i : RefersBack(i)' = RefersBack(i) /\ KindsKnown(i)' = KindsKnown(i)
        /\ \A i : DataExist(i, Addresses)' = DataExist(i, g)
    BY <1>4, RulesStay
  <1>7. \A i \in 1..(L + 1) : i \in Extra /\ HookMeta(i).by # "address" =>
            RefersBack(i) /\ KindsKnown(i) /\ DataExist(i, f)
    <2> TAKE i \in 1..(L + 1)
    <2> HAVE i \in Extra /\ HookMeta(i).by # "address"
    <2>1. CASE i = L + 1
      BY <1>2, <1>5, <2>1 DEF L
    <2>2. CASE i # L + 1
      <3>1. i \in 6..L
        BY <1>1, <1>2, <2>2
      <3>2. QED
        BY <1>5, <3>1 DEF AsWanted, L
    <2>3. QED
      BY <2>1, <2>2
  <1>8. \A i \in 1..(L + 1) : /\ AddressFrom(i, f) = AddressFrom(i, g)
                              /\ i \in Extra /\ HookMeta(i).by # "address" => DataExist(i, g)
    <2> TAKE i \in 1..(L + 1)
    <2>1. i \in 1..Size /\ \A k \in 1..(i - 1) : f[k] = g[k]
      BY <1>1, <1>2, <1>3
    <2>2. AddressFrom(i, f) = AddressFrom(i, g)
      BY <1>2, <1>7, <2>1, DependsOnEarlier
    <2>3. ASSUME i \in Extra, HookMeta(i).by # "address"
          PROVE  DataExist(i, g)
      BY <1>2, <1>7, <2>1, <2>3, DataDependOnEarlier
    <2>4. QED
      BY <2>2, <2>3
  <1>9. \A i \in 1..(L + 1) : g[i] = AddressFrom(i, g)
    <2> TAKE i \in 1..(L + 1)
    <2>1. CASE i = L + 1
      BY <1>3, <1>5, <1>8, <2>1 DEF L
    <2>2. CASE i # L + 1
      <3>1. i \in 1..L
        BY <1>1, <2>2
      <3>2. g[i] = f[i] /\ f[i] = AddressFrom(i, f)
        BY <1>3, <1>5, <3>1 DEF AsWanted, L
      <3>3. QED
        BY <1>8, <3>2
    <2>3. QED
      BY <2>1, <2>2
  <1>10. \A i \in 6..(L + 1) : resolved'[i] = Account(g[i], HookMeta(i).writable)
    <2> TAKE i \in 6..(L + 1)
    <2>1. CASE i = L + 1
      BY <1>1, <1>2, <1>3, <2>1
    <2>2. CASE i # L + 1
      <3>1. i \in 6..L /\ i \in 1..L
        BY <1>1, <2>2
      <3>2. resolved'[i] = Account(f[i], HookMeta(i).writable)
        BY <1>1, <1>5, <3>1 DEF AsWanted, L
      <3>3. QED
        BY <1>3, <3>1, <3>2
    <2>3. QED
      BY <2>1, <2>2
  <1>11. \A i \in 6..(L + 1) : i \in 1..(L + 1) /\ i \in Extra
    BY <1>1, <1>2
  <1>12. hookProgram' = hook' /\ (hook \in DOMAIN lists)' /\ metas' = Parsed(lists[hook])'
    BY DEF AsWanted, chainVars
  <1>13. \A i \in 1..Len(resolved') : Addresses'[i] = AddressFrom(i, Addresses)'
    BY <1>1, <1>4, <1>6, <1>9
  <1>14. \A i \in 6..Len(resolved') :
            /\ resolved'[i] = Account(Addresses'[i], HookMeta(i)'.writable)
            /\ HookMeta(i)'.by # "address" =>
                    RefersBack(i)' /\ KindsKnown(i)' /\ DataExist(i, Addresses)'
    BY <1>1, <1>4, <1>6, <1>7, <1>8, <1>10, <1>11
  <1>15. \A j \in 1..Len(seeds') : FALSE
    BY <1>1
  <1>16. QED
    BY <1>12, <1>13, <1>14, <1>15 DEF AsWanted

\* The rest of the call: it keeps what has been resolved.
LEMMA WantedKept ==
    ASSUME AsWanted, HasMeta,
           UNCHANGED <<pc, hookProgram, metas, resolved, chainVars>>,
           \A j \in 1..Len(seeds') : /\ seeds'[j] = SeedFrom(Meta.seeds[j], Addresses)
                                     /\ ~SeedMissing(Meta.seeds[j])
    PROVE  AsWanted'
  <1>1. Addresses' = Addresses /\ Meta' = Meta
    BY DEF Addresses, Meta
  <1>2. \A s : SeedFrom(s, Addresses)' = SeedFrom(s, Addresses) /\ SeedMissing(s)' = SeedMissing(s)
    BY <1>1 DEF chainVars, SeedFrom, SeedMissing, InList, At
  <1>3. /\ \A i : HookMeta(i)' = HookMeta(i)
        /\ \A i : AddressFrom(i, Addresses)' = AddressFrom(i, Addresses)
        /\ \A i : RefersBack(i)' = RefersBack(i) /\ KindsKnown(i)' = KindsKnown(i)
        /\ \A i : DataExist(i, Addresses)' = DataExist(i, Addresses)
    BY <1>1, RulesStay
  <1>4. /\ hookProgram' = hook' /\ (hook \in DOMAIN lists)' /\ metas' = Parsed(lists[hook])'
        /\ resolved' = resolved
    BY DEF AsWanted, chainVars
  <1>5. \A i \in 1..Len(resolved') : Addresses'[i] = AddressFrom(i, Addresses)'
    BY <1>1, <1>3, <1>4 DEF AsWanted
  <1>6. \A i \in 6..Len(resolved') :
            /\ resolved'[i] = Account(Addresses'[i], HookMeta(i)'.writable)
            /\ HookMeta(i)'.by # "address" =>
                    RefersBack(i)' /\ KindsKnown(i)' /\ DataExist(i, Addresses)'
    BY <1>1, <1>3, <1>4 DEF AsWanted
  <1>7. \A j \in 1..Len(seeds') : /\ seeds'[j] = SeedFrom(Meta.seeds[j], Addresses)'
                                  /\ ~SeedMissing(Meta.seeds[j])'
    BY <1>1 DEF SeedFrom, SeedMissing, InList, At, chainVars
  <1>8. QED
    BY <1>4, <1>5, <1>6, <1>7 DEF AsWanted

LEMMA ExactTakeSeed ==
    ASSUME ShapeInv, AsWanted, TakeSeed
    PROVE  /\ UNCHANGED <<chainVars, changes, failed>>
           /\ (pc' = "resolve" /\ AsWanted') \/ (pc' = "done" /\ result' = Wanted)
  <1> DEFINE s == Meta.seeds[Len(seeds) + 1]
  <1>0. /\ HasMeta /\ pc = "resolve" /\ Meta.by # "address" /\ ~ProgramMissing
        /\ Len(seeds) \in Nat /\ Len(seeds) + 1 \in DOMAIN Meta.seeds /\ IsMeta(Meta)
        /\ UNCHANGED <<chainVars, changes>>
    BY ShapeFacts DEF TakeSeed
  <1>1. CASE SeedMissing(s)
    <2>1. ~Resolvable
      BY <1>0, <1>1, CannotBeResolved
    <2>2. Wanted = Threw
      BY <2>1 DEF Wanted, AsWanted
    <2>3. QED
      BY <1>0, <1>1, <2>2 DEF TakeSeed, Throw, Return
  <1>2. CASE ~SeedMissing(s)
    <2>1. /\ seeds' = Append(seeds, Seed(s))
          /\ UNCHANGED <<pc, hookProgram, metas, resolved, failed>>
      BY <1>2 DEF TakeSeed
    <2>2. Seed(s) = SeedFrom(s, Addresses)
      <3>1. s.kind \in SeedKind /\ (s.kind \in {"key", "data"} => s.value \in Nat)
        BY <1>0 DEF IsMeta
      <3>2. QED
        BY <1>2, <3>1, SeedIs
    <2>3. /\ Len(seeds') = Len(seeds) + 1 /\ seeds'[Len(seeds) + 1] = Seed(s)
          /\ \A j \in 1..Len(seeds) : seeds'[j] = seeds[j]
      BY <2>1, AppendIs DEF ShapeInv
    <2>4. ASSUME NEW j \in 1..Len(seeds')
          PROVE  seeds'[j] = SeedFrom(Meta.seeds[j], Addresses) /\ ~SeedMissing(Meta.seeds[j])
      <3>1. CASE j = Len(seeds) + 1
        BY <1>2, <2>2, <2>3, <3>1
      <3>2. CASE j # Len(seeds) + 1
        <4>1. j \in 1..Len(seeds)
          BY <1>0, <2>3, <3>2
        <4>2. QED
          BY <1>0, <2>3, <4>1 DEF AsWanted
      <3>3. QED
        BY <3>1, <3>2
    <2>5. AsWanted'
      BY <1>0, <2>1, <2>4, WantedKept
    <2>6. QED
      BY <1>0, <2>1, <2>5
  <1>3. QED
    BY <1>1, <1>2

\* getProgramDerivedAddress, with the seeds of the definition.
LEMMA ExactDerive ==
    ASSUME ShapeInv, AsWanted, Derive
    PROVE  AsWanted'
  <1> DEFINE i == Len(resolved) + 1
  <1>1. /\ HasMeta /\ Meta.by # "address" /\ ~ProgramMissing /\ Len(seeds) = Len(Meta.seeds)
        /\ Push(Derived(Program, seeds))
        /\ UNCHANGED <<pc, hookProgram, metas, chainVars>>
    BY DEF Derive
  <1>2. /\ IsMeta(Meta) /\ DOMAIN Meta.seeds = 1..Len(seeds) /\ Len(resolved) \in Nat
        /\ Len(resolved) >= 5 /\ HookMeta(i) = Meta
    BY <1>1, ShapeFacts, SameList DEF AsWanted
  <1>3. \A j \in DOMAIN Meta.seeds : seeds[j] = SeedFrom(Meta.seeds[j], Addresses)
                                     /\ ~SeedMissing(Meta.seeds[j])
    BY <1>1, <1>2 DEF AsWanted
  <1>4. seeds = [j \in DOMAIN Meta.seeds |-> SeedFrom(Meta.seeds[j], Addresses)]
    <2>1. seeds = [j \in 1..Len(seeds) |-> seeds[j]]
      BY SequenceIs DEF ShapeInv
    <2>2. QED
      BY <1>2, <1>3, <2>1
  <1>5. Program = IF Meta.by = "other" THEN Addresses[Meta.index + 1] ELSE hook
    <2>1. CASE Meta.by = "other"
      <3>1. Meta.index + 1 \in 1..Len(resolved)
        BY <1>1, <1>2, <2>1 DEF ProgramMissing, InList, IsMeta
      <3>2. QED
        BY <2>1, <3>1 DEF Program, Addresses, At
    <2>2. CASE Meta.by # "other"
      BY <1>1, <1>2, <2>2 DEF Program, ProgramMissing, IsMeta, MetaBy, AsWanted
    <2>3. QED
      BY <2>1, <2>2
  <1>6. Derived(Program, seeds) = AddressFrom(i, Addresses)
    <2>1. ~(i <= 5)
      BY <1>2
    <2>2. QED
      BY <1>1, <1>2, <1>4, <1>5, <2>1 DEF AddressFrom
  <1>7. RefersBack(i) /\ KindsKnown(i) /\ DataExist(i, Addresses)
    BY <1>1, <1>3, EntryCanBeResolved
  <1>8. QED
    BY <1>1, <1>6, <1>7, WantedPush

LEMMA ExactResolveAddress ==
    ASSUME ShapeInv, AsWanted, ResolveAddress
    PROVE  AsWanted'
  <1>1. /\ HasMeta /\ Meta.by = "address" /\ Push(Meta.address)
        /\ UNCHANGED <<pc, hookProgram, metas, chainVars>>
    BY DEF ResolveAddress
  <1>2. HookMeta(Len(resolved) + 1) = Meta /\ ~(Len(resolved) + 1 <= 5)
    BY <1>1, ShapeFacts, SameList DEF AsWanted
  <1>3. Meta.address = AddressFrom(Len(resolved) + 1, Addresses)
    BY <1>1, <1>2 DEF AddressFrom
  <1>4. QED
    BY <1>1, <1>3, WantedPush

\* With every entry resolved, the list can be, and what is returned is what it says.
LEMMA ExactReturn ==
    ASSUME ShapeInv, AsWanted, pc = "resolve", ~HasMeta
    PROVE  Returned(ReturnedAccounts) = Wanted
  <1> DEFINE n == Len(metas)
  <1>1. n \in Nat /\ Len(resolved) = 5 + n
    BY ShapeFacts DEF ShapeInv, HasMeta
  <1>2. /\ HasList /\ Size = 5 + n /\ Extra = 6..(5 + n) /\ Counted(lists[hook]) = n
        /\ hookProgram = hook /\ hook \in DOMAIN lists
    <2>1. HasList /\ Size = 5 + n /\ Extra = 6..Size /\ hookProgram = hook /\ hook \in DOMAIN lists
      BY SameList DEF AsWanted
    <2>2. Counted(lists[hook]) = n
      BY <2>1, ParsedIs DEF HasList, AsWanted
    <2>3. QED
      BY <2>1, <2>2
  <1> HIDE DEF n
  <1>3. BackReferences
    BY <1>1, <1>2 DEF BackReferences, AsWanted
  <1>4. \A k \in 1..(5 + n) : HookAddress[k] = Addresses[k]
    BY <1>1, <1>3, SoFarAsDefined
  <1>5. Resolvable
    <2> SUFFICES ASSUME NEW i \in Extra, HookMeta(i).by # "address"
                 PROVE  KindsKnown(i) /\ DataExist(i, HookAddress)
      BY <1>3 DEF Resolvable
    <2>1. i \in 6..Len(resolved) /\ i \in Nat
      BY <1>1, <1>2
    <2>2. RefersBack(i) /\ KindsKnown(i) /\ DataExist(i, Addresses)
      BY <2>1 DEF AsWanted
    <2>3. \A k \in 1..(i - 1) : Addresses[k] = HookAddress[k]
      BY <1>1, <1>4, <2>1
    <2>4. QED
      BY <1>2, <2>2, <2>3, DataDependOnEarlier
  <1> DEFINE last(k) == Account(IF k = n + 1 THEN hook ELSE MetaList(hook), FALSE)
  <1>6. ReturnedAccounts = [k \in 1..(n + 2) |-> IF k <= n THEN resolved[k + 5] ELSE last(k)]
    BY <1>1, <1>2, ReturnedIs DEF ShapeInv
  <1>7. Wanted = Returned([k \in 1..(n + 2) |->
                    IF k <= n THEN Account(HookAddress[k + 5], HookMeta(k + 5).writable) ELSE last(k)])
    BY <1>2, <1>5 DEF Wanted
  <1> HIDE DEF last
  <1>8. \A k \in 1..(n + 2) : k <= n =>
            resolved[k + 5] = Account(HookAddress[k + 5], HookMeta(k + 5).writable)
    <2> TAKE k \in 1..(n + 2)
    <2> HAVE k <= n
    <2>1. k + 5 \in 6..Len(resolved) /\ k + 5 \in 1..(5 + n)
      BY <1>1
    <2>2. resolved[k + 5] = Account(Addresses[k + 5], HookMeta(k + 5).writable)
      BY <2>1 DEF AsWanted
    <2>3. QED
      BY <1>4, <2>1, <2>2
  <1>9. QED
    BY <1>6, <1>7, <1>8

LEMMA ExactInvInit == Init => ExactInv
  BY DEF Init, ExactInv

LEMMA ExactInvStep == ShapeInv /\ ExactInv /\ [Next]_vars => ExactInv'
  <1> SUFFICES ASSUME ShapeInv, ExactInv, [Next]_vars, changes' = 0
               PROVE  /\ pc' = "list" => hookProgram' = hook'
                      /\ pc' = "resolve" => AsWanted'
                      /\ pc' = "done" /\ ~failed' => result' = Wanted'
    BY DEF ExactInv
  <1>0. changes = 0 /\ UNCHANGED chainVars /\ ~Change
    <2>1. ~Change
      BY DEF Change, ShapeInv
    <2>2. QED
      BY <2>1 DEF Next, CallStep, ReadMint, ReadList, ResolveAddress, TakeSeed, Derive,
             ThrowForProgram, ReturnAccounts, RequestFails, vars
  <1>00. Wanted' = Wanted
    BY <1>0, WantedStays
  <1>1. CASE ReadMint
    <2>1. hook = NoHook => Wanted = Returned(<<>>)
      BY ListsThere DEF ShapeInv, Wanted
    <2>2. QED
      BY <1>0, <1>00, <1>1, <2>1 DEF ReadMint, Return, chainVars
  <1>2. CASE ReadList
    <2>1. hookProgram = hook /\ pc = "list" /\ seeds = <<>> /\ UNCHANGED <<hookProgram, seeds, failed>>
      BY <1>0, <1>2 DEF ReadList, ExactInv, ShapeInv
    <2>2. CASE hookProgram \notin DOMAIN lists
      BY <1>00, <1>2, <2>1, <2>2 DEF ReadList, Return, Wanted
    <2>3. CASE hookProgram \in DOMAIN lists
      <3>1. /\ resolved' = BaseAccounts(hook) /\ metas' = Parsed(lists[hook]) /\ pc' = "resolve"
        BY <1>2, <2>1, <2>3 DEF ReadList
      <3>2. Len(resolved') = 5 /\ Len(seeds') = 0
        BY <2>1, <3>1, BaseIs, EmptyIs
      <3>3. \A i \in 1..5 : Addresses'[i] = AddressFrom(i, Addresses)'
        BY <1>0, <3>1, <3>2 DEF Addresses, AddressFrom, chainVars
      <3>4. /\ \A i \in 6..Len(resolved') : FALSE
            /\ \A j \in 1..Len(seeds') : FALSE
        BY <3>2
      <3>5. AsWanted'
        BY <1>0, <2>1, <2>3, <3>1, <3>2, <3>3, <3>4 DEF AsWanted, chainVars
      <3>6. QED
        BY <3>1, <3>5
    <2>4. QED
      BY <2>2, <2>3
  <1>3. CASE ResolveAddress
    <2>1. pc = "resolve" /\ pc' = "resolve"
      BY <1>3 DEF ResolveAddress, HasMeta
    <2>2. QED
      BY <1>0, <1>3, <2>1, ExactResolveAddress DEF ExactInv
  <1>4. CASE TakeSeed
    <2>1. AsWanted
      BY <1>0, <1>4 DEF TakeSeed, HasMeta, ExactInv
    <2>2. QED
      BY <1>00, <1>4, <2>1, ExactTakeSeed
  <1>5. CASE Derive
    <2>1. pc = "resolve" /\ pc' = "resolve"
      BY <1>5 DEF Derive, HasMeta
    <2>2. QED
      BY <1>0, <1>5, <2>1, ExactDerive DEF ExactInv
  <1>6. CASE ThrowForProgram
    <2>1. AsWanted /\ HasMeta /\ Meta.by # "address" /\ ProgramMissing
      BY <1>0, <1>6 DEF ThrowForProgram, HasMeta, ExactInv
    <2>2. Wanted = Threw
      BY <2>1, CannotBeResolved DEF Wanted, AsWanted
    <2>3. QED
      BY <1>00, <1>6, <2>2 DEF ThrowForProgram, Throw, Return
  <1>7. CASE ReturnAccounts
    <2>1. AsWanted /\ pc = "resolve" /\ ~HasMeta /\ pc' = "done" /\ result' = Returned(ReturnedAccounts)
      BY <1>0, <1>7 DEF ReturnAccounts, Return, ExactInv, ReturnedAccounts
    <2>2. QED
      BY <1>00, <2>1, ExactReturn
  <1>8. CASE RequestFails
    BY <1>8 DEF RequestFails, Return
  <1>9. CASE UNCHANGED vars
    <2>1. UNCHANGED <<pc, hookProgram, result, failed>>
      BY <1>9 DEF vars, callVars
    <2>2. pc = "resolve" => AsWanted'
      <3> SUFFICES ASSUME AsWanted PROVE AsWanted'
        BY <1>0 DEF ExactInv
      <3>1. UNCHANGED <<pc, metas, resolved, seeds>> /\ Addresses' = Addresses /\ Meta' = Meta
            /\ HasMeta' = HasMeta
        BY <1>9 DEF vars, callVars, Addresses, Meta, HasMeta
      <3>2. CASE HasMeta
        BY <1>0, <2>1, <3>1, <3>2, WantedKept DEF AsWanted
      <3>3. CASE ~HasMeta
        <4>1. /\ \A i : HookMeta(i)' = HookMeta(i)
              /\ \A i : AddressFrom(i, Addresses)' = AddressFrom(i, Addresses)
              /\ \A i : RefersBack(i)' = RefersBack(i) /\ KindsKnown(i)' = KindsKnown(i)
              /\ \A i : DataExist(i, Addresses)' = DataExist(i, Addresses)
          BY <1>0, <3>1, RulesStay
        <4>2. QED
          BY <1>0, <2>1, <3>1, <3>3, <4>1 DEF AsWanted, chainVars
      <3>4. QED
        BY <3>2, <3>3
    <2>3. QED
      BY <1>0, <1>00, <2>1, <2>2 DEF ExactInv, chainVars
  <1>10. QED
    BY <1>0, <1>1, <1>2, <1>3, <1>4, <1>5, <1>6, <1>7, <1>8, <1>9 DEF Next, CallStep

\* resolveTransferHookAccounts: unless the chain changed under it or a request failed, the
\* call returns what the recursive definition of the hook's accounts says, in that order,
\* and throws only when the list cannot be resolved.
THEOREM ExactUnlessChangedHolds == Spec => []ExactUnlessChanged
  <1>1. ShapeInv /\ ExactInv => ExactUnlessChanged
    BY DEF ShapeInv, ExactInv, ExactUnlessChanged, TypeOK
  <1>2. Spec => []ExactInv
    BY ExactInvInit, ExactInvStep, ShapeInvAlways, PTL DEF Spec
  <1>3. QED
    BY <1>1, <1>2, ShapeInvAlways, PTL
=============================================================================
