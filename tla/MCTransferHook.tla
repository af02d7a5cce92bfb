--------------------------- MODULE MCTransferHook ---------------------------
(* TransferHook with two hook programs and lists of every kind of entry.   *)
EXTENDS TransferHook

MCPrograms == {Known("p"), Known("q")}

SeedOf(kind, value) == [kind |-> kind, value |-> value]
Entry(by, index, writable, ss) ==
    [by |-> by, address |-> Known("config"), index |-> index, writable |-> writable, seeds |-> ss]
List(count, entries) == [count |-> count, entries |-> entries]

\* The accounts of the first entry are at index 5, those before it at 0 to 4.
Literal  == Entry("address", 0, FALSE, <<>>)
PerOwner == Entry("hook", 0, TRUE, << SeedOf("bytes", 1), SeedOf("key", 3), SeedOf("instruction", 8) >>)
OfOther  == Entry("other", 5, FALSE, << SeedOf("data", 0), SeedOf("key", 5) >>)
Stored   == Entry("hook", 0, FALSE, << SeedOf("data", 5) >>)

MCLists ==
    { List(2, << Literal, PerOwner, Literal >>),    \* has more than it counts
      List(3, << PerOwner, OfOther, Literal >>),      \* the program is the first entry's address
      List(3, << Literal, Stored >>),                 \* cut short
      List(1, << Stored >>),                \* refers to itself
      List(1, << Entry("other", 6, FALSE, <<>>) >>),
      List(1, << Entry("unknown", 0, FALSE, <<>>) >>),
      List(1, << Entry("hook", 0, FALSE, << SeedOf("unknown", 0) >>) >>) }

\* The token account that pays, and the literal address.
MCDataAccounts == {Known("source"), Known("config")}
=============================================================================
