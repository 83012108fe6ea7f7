------------------------- MODULE RelationalGrouping -------------------------
(***************************************************************************)
(* What an aggregate promises, without saying how it is computed: the rows *)
(* are partitioned by their keys, and the result has one row for each part *)
(* in the order of the keys.  Without keys all rows are one part, also if  *)
(* there are none.                                                         *)
(***************************************************************************)
EXTENDS Integers, Sequences

CONSTANTS
    GroupInputs,  \* the calls considered, see InputsAssumption in GroupAggregate
    Place,        \* place of each key cell in sort order: numbers, NaN, null
    NaN,          \* the cell that equals no cell
    Supported,    \* the functions a pair may name, in lower case
    Lower,        \* spelling -> function
    Refused       \* the <<column, function>> whose evaluation throws

VARIABLES
    in,     \* the arguments of the call
    out,    \* the result rows so far: [key, rows], the rows of the part a set
    phase   \* "done", "error", anything else while the call is running

vars == <<in, out, phase>>

Rows == 1..Len(in.rows)
Keys == 1..in.k

\* Rows with equal keys are one part; null equals null and no other key, NaN nothing.  That is
\* how keysDiffer has it; test 32 expects no part of the rows without a key (NullsAddNoGroup).
Same(x, y) == \A c \in Keys : in.rows[x][c] = in.rows[y][c] /\ in.rows[x][c] # NaN
Class(x)   == {y \in Rows : y = x \/ Same(x, y)}
Parts      == IF in.k = 0 THEN {Rows} ELSE {Class(x) : x \in Rows}

\* Row x comes before row y: by the first key on which they differ, then by position.
SmallerKey(x, y) ==
    \E c \in Keys : /\ Place[in.rows[x][c]] < Place[in.rows[y][c]]
                    /\ \A d \in 1..c - 1 : in.rows[x][d] = in.rows[y][d]
Precedes(x, y) == SmallerKey(x, y) \/ (in.rows[x] = in.rows[y] /\ x < y)

Emitted == {out[i].rows : i \in 1..Len(out)}
Running == phase \notin {"done", "error"}

Init == in \in GroupInputs /\ out = <<>> /\ Running

\* The next part is the first of those that are left; its key is that of its rows.
Emit ==
    /\ Running /\ phase' \notin {"done", "error"}
    /\ \E P \in Parts \ Emitted :
        /\ \A Q \in Parts \ (Emitted \cup {P}) : \A x \in P, y \in Q : Precedes(x, y)
        /\ \E key \in {in.rows[x] : x \in P} \cup {<<>>} :
            /\ \A x \in P : in.rows[x] = key
            /\ out' = Append(out, [key |-> key, rows |-> P])
    /\ UNCHANGED in

Finish ==
    /\ Running /\ phase' = "done"
    /\ Emitted = Parts
    /\ UNCHANGED <<in, out>>

\* The call throws.  On a table without rows nothing is evaluated for a group; whether
\* such a table can be grouped at all is up to how its columns are chunked.
Fail ==
    /\ Running /\ phase' = "error"
    /\ \/ \E q \in 1..Len(in.pairs) : Lower[in.pairs[q].fn] \notin Supported
       \/ in.k > 0 /\ (~in.present \/ in.rows = <<>>)
       \/ /\ in.k = 0 \/ in.rows # <<>>
          /\ \E q \in 1..Len(in.pairs) : <<in.pairs[q].col, Lower[in.pairs[q].fn]>> \in Refused
    /\ UNCHANGED <<in, out>>

\* Work that produces no row.
Internal ==
    /\ Running /\ phase' \notin {"done", "error"}
    /\ UNCHANGED <<in, out>>

Next == Emit \/ Finish \/ Fail \/ Internal

Spec == Init /\ [][Next]_vars
=============================================================================
