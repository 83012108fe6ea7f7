--------------------------- MODULE RelationalJoin ---------------------------
(***************************************************************************)
(* What EagerDataFrame::join promises, without saying how it is computed:  *)
(* an equi-join of two row sequences in which null keys match nothing, in  *)
(* one of four modes, whose output lists the rows of the left table in     *)
(* their order (each with its matches in the order of the right table) and *)
(* then the unmatched rows of the right table in theirs.                   *)
(*                                                                         *)
(* An output row is a pair <<l, r>> of 1-based row numbers; 0 stands for a *)
(* side filled with nulls.                                                 *)
(***************************************************************************)
EXTENDS Integers, Sequences

CONSTANTS
    JoinInputs,  \* the calls considered, see InputsAssumption in HashJoin
    Null         \* the null cell

VARIABLES
    in,     \* the arguments of the call
    out,    \* the output rows produced so far
    phase   \* "done", "error", anything else while the call is running

vars == <<in, out, phase>>

Supported == {"inner", "left", "right", "outer"}

HasNull(t) == \E i \in 1..Len(t) : t[i] = Null

\* Two rows match when their keys are equal cell by cell and none is null.
Match(l, r) == in.left[l] = in.right[r] /\ ~HasNull(in.left[l])

KeepsLeft  == in.how \in {"left", "outer"}
KeepsRight == in.how \in {"right", "outer"}

LeftRows  == 1..Len(in.left)
RightRows == 1..Len(in.right)

Rows ==
    {p \in LeftRows \X RightRows : Match(p[1], p[2])}
    \cup {p \in LeftRows \X {0} : KeepsLeft /\ \A r \in RightRows : ~Match(p[1], r)}
    \cup {p \in {0} \X RightRows : KeepsRight /\ \A l \in LeftRows : ~Match(l, p[2])}

\* The order of the output: left rows first, in row order, matches in row order;
\* rows of the right table alone come last.
Before(p, q) ==
    \/ p[1] # 0 /\ q[1] = 0
    \/ p[1] = q[1] /\ p[2] < q[2]
    \/ p[1] < q[1] /\ p[1] # 0

Emitted == {out[i] : i \in 1..Len(out)}

Running == phase \notin {"done", "error"}

Init == in \in JoinInputs /\ out = <<>> /\ Running

Emit ==
    /\ Running /\ phase' \notin {"done", "error"}
    /\ \E p \in Rows :
        /\ \A q \in Emitted : Before(q, p)
        /\ out' = Append(out, p)
    /\ UNCHANGED in

Finish ==
    /\ Running /\ phase' = "done"
    /\ Emitted = Rows
    /\ UNCHANGED <<in, out>>

\* The call throws; what it had built is discarded with the builders.
Fail ==
    /\ Running /\ phase' = "error"
    /\ \/ in.how \notin Supported \/ in.on = 0 \/ ~in.present
       \/ ~in.sameType /\ KeepsRight
    /\ UNCHANGED <<in, out>>

\* Work that produces no row.
Internal ==
    /\ Running /\ phase' \notin {"done", "error"}
    /\ UNCHANGED <<in, out>>

Next == Emit \/ Finish \/ Fail \/ Internal

Spec == Init /\ [][Next]_vars
=============================================================================
