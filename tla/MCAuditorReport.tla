-------------------------- MODULE MCAuditorReport --------------------------
(* AuditorReport on a short history, with pages of two.                    *)
EXTENDS AuditorReport

Ix(kind, ofMint, key) == [kind |-> kind, ofMint |-> ofMint, key |-> key, amt |-> 1]

Moves ==
    << Ix("transfer", TRUE, "ours"), Ix("transfer", FALSE, "ours"), Ix("withdraw", TRUE, "other") >>
Unreadable == << Ix("other", TRUE, "other"), Ix("transfer", TRUE, "other") >>

SomeTransactions ==
    [time: {1, 2, None}, err: {FALSE}, ixs: {Moves}] \cup
    [time: {2}, err: {FALSE}, ixs: {Unreadable}] \cup
    [time: {1}, err: {TRUE}, ixs: {<< Ix("deposit", TRUE, "other") >>}]

SomeInputs ==
    [since: {None, 5}, until: {None, 4}, maxTransactions: {None, 2}, concurrency: {0, 2},
     keyMatches: BOOLEAN, skipAuditorKeyCheck: {FALSE}]
=============================================================================
