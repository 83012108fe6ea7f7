---------------------------- MODULE MCExprPasses ----------------------------
(***************************************************************************)
(* A small instance of ExprPasses: a narrow column with its least value, a *)
(* boolean one, nulls, the literals the identities look for in both widths, *)
(* and an operator of each kind.                                           *)
(***************************************************************************)
EXTENDS ExprPasses

MCaggregated(f, C) == evalAgg(f, C)

MCHalf        == [INT32 |-> 2, INT64 |-> 4]
MCTexts       == {0, 1}
MCStringFuncs == [length |-> [ty |-> "INT32", of |-> [r \in MCTexts |-> r]]]

MCTables ==
    {[x |-> [ty |-> "INT32", v |-> <<-2, Null>>], f |-> [ty |-> "BOOLEAN", v |-> <<1, Null>>]]}

MCLeaves == <<Col("x"), Col("f"), Lit32(0), Lit("INT64", 0), Lit("INT64", 1), Bool(FALSE)>>

MCOperators == {Bin("ADD", 0, 0), Bin("SUB", 0, 0), Bin("MUL", 0, 0), Bin("DIV", 0, 0),
                Bin("AND", 0, 0), Un("NOT", 0), Agg("COUNT", 0)}
=============================================================================
