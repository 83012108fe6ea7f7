-------------------------------- MODULE Expr --------------------------------
(***************************************************************************)
(* Expressions as trees, and their evaluation over a table: the recursion  *)
(* of evalExprOn over what Kernels makes of each node's columns.           *)
(***************************************************************************)
EXTENDS ExprRules

\* evalExprOn over n rows; tab maps each name GetColumnByName finds to its column.
RECURSIVE Eval(_, _, _)
Eval(e, n, tab) ==
    Evaluated(e, [i \in DOMAIN Operands(e) |-> Eval(Operands(e)[i], n, tab)], n, tab, evalAgg)

\* inferName: the column name of the i-th (0-based) expression of a select.
inferName(e, i) ==
    CASE e.k = "alias" -> e.as
      [] e.k = "col"   -> e.name
      [] OTHER         -> <<"expr_0", "expr_1", "expr_2", "expr_3">>[i + 1]
=============================================================================
