------------------------------ MODULE EquiJoin ------------------------------
(***************************************************************************)
(* The hash join as an equi-join.  rowKey joins the texts of the key cells *)
(* with a separator, so equal row keys mean equal keys only on tables whose*)
(* texts keep the encoding unambiguous.                                    *)
(***************************************************************************)
EXTENDS HashJoin

\* Holds for one key column of one type, and for several when no text holds '\x1f'.
ASSUME UnambiguousKeys ==
    \A i \in JoinInputs : \A x \in 1..Len(i.left), y \in 1..Len(i.right) :
        (~HasNull(i.left[x]) /\ ~HasNull(i.right[y]) /\ RowKey(i.left[x]) = RowKey(i.right[y]))
            => i.left[x] = i.right[y]

Promise == INSTANCE RelationalJoin WITH in <- in, out <- out, phase <- phase

\* The three loops of EagerDataFrame::join implement the relational join: they output
\* one owed row at a time, in order, return when all are out, and throw only for a bad
\* mode, an empty key list, or (right and outer) key columns of two different types.
ImplementsRelationalJoin == Promise!Spec
=============================================================================
