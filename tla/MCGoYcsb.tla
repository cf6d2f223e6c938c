------------------------------ MODULE MCGoYcsb ------------------------------
(***************************************************************************)
(* Traces small enough for TLC: keys of at most two bytes, and one of three*)
(* that is cut to the bytes of another.                                    *)
(***************************************************************************)
EXTENDS GoYcsbProperties, TLC

Opt(word, text) == [word |-> word, usertable |-> TRUE, text |-> text]

A == <<1>>
B == <<1, 1>>
C == <<1, 2>>
LongC == <<1, 2, 1>>

\* "INSERT - Takes(s): ...", as go-ycsb ends its output, and a word of its head.
Summary(word) == [word |-> word, usertable |-> FALSE, text |-> <<>>]
Other == [word |-> "other", usertable |-> TRUE, text |-> <<>>]

Text(words) == [open |-> TRUE, words |-> words]
Missing == [open |-> FALSE, words |-> <<>>]

Loads == {
    Text(<<Other, Opt("INSERT", A), Opt("INSERT", B), Opt("INSERT", C), Summary("INSERT")>>),
    Text(<<Opt("INSERT", A), Opt("INSERT", LongC)>>)}

Runs == {
    Text(<<Opt("UPDATE", C), Other, Opt("READ", A), Opt("UPDATE", A), Summary("UPDATE"), Summary("READ")>>),
    Text(<<Opt("INSERT", C), Opt("READ", C), Opt("SCAN", A), Opt("READ", B)>>),
    Text(<<Opt("READ", <<2>>), Opt("SCAN", B), Opt("UPDATE", B), Opt("READ", <<2, 1>>), Opt("SCAN", A)>>),
    Missing}

SmallTraces == {<<l, r>> : l \in Loads, r \in Runs} \cup {<<Missing, r>> : r \in Runs}
=============================================================================
