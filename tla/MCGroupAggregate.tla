-------------------------- MODULE MCGroupAggregate --------------------------
(***************************************************************************)
(* The calls of the run: every small table of keys with NaN and null under *)
(* one or two keys, and every short list of pairs on a fixed table.        *)
(***************************************************************************)
EXTENDS GroupAggregate

MCNaN   == "NaN"
MCNull  == "null"
MCPlace == [one |-> 1, two |-> 2, NaN |-> 3, null |-> 4]
MCLower == [sum |-> "sum", SUM |-> "sum", min |-> "min", median |-> "median"]
MCSupported == {"sum", "mean", "count", "min", "max"}
MCRefused   == {<<"t", "sum">>}

Pair(c, f) == [col |-> c, fn |-> f]
Once == <<Pair("a", "sum")>>

Tables(k, cells, size) == UNION {[1..len -> [1..k -> cells]] : len \in 0..size}
Lists(S, size) == UNION {[1..len -> S] : len \in 0..size}

Call(pairs, k, rows, present) == [pairs |-> pairs, k |-> k, rows |-> rows, present |-> present]

MCInputs ==
    {Call(Once, 1, rows, TRUE) : rows \in Tables(1, DOMAIN MCPlace, 4)}
    \cup {Call(Once, 2, rows, TRUE) : rows \in Tables(2, {"one", "NaN", "null"}, 3)}
    \cup {Call(Once, 0, rows, TRUE) : rows \in Tables(0, {}, 3)}
    \cup {Call(pairs, k, << [c \in 1..k |-> "one"] >>, TRUE) : k \in 0..1,
             pairs \in Lists({Pair("a", "sum"), Pair("a", "SUM"), Pair("b", "min"),
                              Pair("a", "median"), Pair("t", "sum")}, 3)}
    \cup {Call(pairs, 0, <<>>, TRUE) : pairs \in Lists({Pair("a", "sum"), Pair("a", "SUM")}, 4)}
    \cup {Call(Once, 1, rows, FALSE) : rows \in Tables(1, {"one"}, 1)}

\* What test 32 expects of keys "eng", null, "eng": one row.  Rows whose key is null add no
\* group to those of the other keys.  The code cuts between "eng" and null, where
\* Scalar::Equals tells them apart, so a run finds this violated.
NullsAddNoGroup ==
    LET cells == {in.rows[x][1] : x \in Rows} IN
    phase = "done" /\ in.k = 1 /\ MCNaN \notin cells /\ cells # {MCNull} =>
        Len(out) = Cardinality(cells \ {MCNull})
=============================================================================
