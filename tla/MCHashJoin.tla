----------------------------- MODULE MCHashJoin -----------------------------
(***************************************************************************)
(* Small instances of HashJoin.                                            *)
(***************************************************************************)
EXTENDS EquiJoin

Hows == Supported \cup {"cross"}

SeqsUpTo(S, n) == UNION {[1..m -> S] : m \in 0..n}

\* Calls with n key columns, cells from S, at most lm left and rm right rows.
Calls(n, S, lm, rm, here, types) ==
    LET rows == [1..n -> S] IN
    [how : Hows, on : {n}, left : SeqsUpTo(rows, lm), right : SeqsUpTo(rows, rm),
     present : here, sameType : types]

\* Cells whose texts do not hold the separator.
MCText == [c \in {"a", "b"} |-> <<c>>]
MCNull == "null"
MCSep  == "|"

\* One key column with up to three rows a side, two key columns with one and two,
\* and the calls that are refused.
MCInputs ==
    Calls(1, {"a", "b", MCNull}, 2, 3, {TRUE}, BOOLEAN)
    \cup Calls(2, {"a", "b", MCNull}, 1, 2, {TRUE}, {TRUE})
    \cup Calls(1, {"a"}, 1, 1, {FALSE}, {TRUE})
    \cup Calls(0, {"a"}, 1, 1, BOOLEAN, {TRUE})
=============================================================================
