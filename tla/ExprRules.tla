----------------------------- MODULE ExprRules -----------------------------
(***************************************************************************)
(* The expression trees users build with col() and lit(), node by node:    *)
(* what a node evaluates to given the columns of its operands, and what    *)
(* foldExpr and simplifyExpr make of it once they have been at these.  An  *)
(* operand is a node itself in Expr, and an address in ExprPasses.         *)
(***************************************************************************)
EXTENDS Kernels

\* The nodes (Expr.hpp) and the builders that make them.
Col(n)        == [k |-> "col", name |-> n]
Lit(t, x)     == [k |-> "lit", ty |-> t, val |-> x]
Alias(e, n)   == [k |-> "alias", child |-> e, as |-> n]
Bin(op, a, b) == [k |-> "bin", op |-> op, left |-> a, right |-> b]
Un(op, e)     == [k |-> "un", op |-> op, child |-> e]
Agg(f, e)     == [k |-> "agg", func |-> f, child |-> e]
Str(f, e)     == [k |-> "str", func |-> f, child |-> e]

Lit32(x) == Lit("INT32", x)
Bool(b)  == Lit("BOOLEAN", IF b THEN 1 ELSE 0)

Operands(e) ==
    CASE e.k \in {"col", "lit"} -> <<>>
      [] e.k = "bin" -> <<e.left, e.right>>
      [] OTHER       -> <<e.child>>

WithOperands(e, new) ==
    CASE e.k \in {"col", "lit"} -> e
      [] e.k = "bin" -> [e EXCEPT !.left = new[1], !.right = new[2]]
      [] OTHER       -> [e EXCEPT !.child = new[1]]

\* evalExprOn at one node, in a table of n rows; tab maps each name GetColumnByName finds
\* to its column, and aggregated is evalAgg.
Evaluated(e, columns, n, tab, aggregated(_, _)) ==
    CASE e.k = "col"   -> IF e.name \in DOMAIN tab THEN tab[e.name] ELSE Throws
      [] e.k = "lit"   -> evalLit(e, n)
      [] e.k = "alias" -> columns[1]
      [] e.k = "bin" /\ e.op = "MOD" -> evalMod(columns[1], columns[2], n)
      [] e.k = "bin" /\ e.op # "MOD" -> evalBinary(e.op, columns[1], columns[2])
      [] e.k = "un"    -> evalUnary(e.op, columns[1])
      [] e.k = "str"   -> evalString(e.func, columns[1])
      [] e.k = "agg"   -> aggregated(e.func, columns[1])

\* The table evalToLit evaluates on has one row, and no column an expression it gets reads.
EvaluatedAlone(e, columns, aggregated(_, _)) ==
    Evaluated(e, columns, 1, [n \in {} |-> Throws], aggregated)

CountsAsConstant(e, operands) == e.k # "col" /\ \A i \in DOMAIN operands : operands[i]  \* mutant

\* isConstant at one node, given which of its operands are constant.
Constant(e, operands) == e.k \notin {"col", "agg"} /\ \A i \in DOMAIN operands : operands[i]

-----------------------------------------------------------------------------
\* The comparison descends node by node and compares every field.
exprEquals(a, b) == a = b

isLit(e)        == e.k = "lit"
litEquals(e, x) == isLit(e) /\ e.val = x /\ IsNumeric(e.ty)
litIs(e, x)     == isLit(e) /\ e.val = x /\ e.ty = "BOOLEAN"
litIsTrue(e)    == litIs(e, 1)
litIsFalse(e)   == litIs(e, 0)

FoldsEveryConstant(e, operands, alone) ==                                  \* mutant
    e.k # "col" /\ (\A i \in DOMAIN operands : operands[i]) /\ alone # Throws

\* foldExpr on a node whose folded operands are all constant evaluates it; where that
\* throws the node stays.
Folds(e, operands, alone) ==
    e.k \in {"bin", "un", "str"} /\ (\A i \in DOMAIN operands : operands[i]) /\ alone # Throws

KeptBesideFalse(op, e) == op \in Logical /\ litIsFalse(e)                   \* mutant

\* The operand that leaves the other one as it is, and the one that is the result.
Neutral(op, e) ==
    \/ op = "MUL" /\ litEquals(e, 1)
    \/ op = "ADD" /\ litEquals(e, 0)
    \/ op = "AND" /\ litIsTrue(e)
    \/ op = "OR"  /\ litIsFalse(e)

Absorbing(op, e) ==
    \/ op = "MUL" /\ litEquals(e, 0)
    \/ op = "AND" /\ litIsFalse(e)
    \/ op = "OR"  /\ litIsTrue(e)

SubtractsFromZero(op, L, R) ==                                             \* mutant
    IF op = "SUB" /\ litEquals(L, 0) THEN "right"
    ELSE IF op \in {"ADD", "SUB"} /\ litEquals(R, 0) THEN "left" ELSE "none"

\* The identities of simplifyExpr on a binary node whose operands are simplified: which
\* operand it becomes, or which literal; "none" if no identity applies.
Identity(op, L, R) ==
    LET equal == isLit(L) /\ isLit(R) /\ exprEquals(L, R) IN
    CASE op \in {"MUL", "ADD", "AND", "OR"} ->
            (IF Neutral(op, R) THEN "left"
             ELSE IF Neutral(op, L) \/ Absorbing(op, R) THEN "right"
             ELSE IF Absorbing(op, L) THEN "left" ELSE "none")
      [] op = "SUB" -> IF litEquals(R, 0) THEN "left" ELSE IF equal THEN "zero" ELSE "none"
      [] op = "DIV" -> IF litEquals(R, 1) THEN "left" ELSE "none"
      [] op = "EQ"  -> IF equal THEN "true" ELSE "none"
      [] OTHER      -> "none"

\* simplifyExpr on a node whose operands are simplified: also a double negation is dropped.
SimplifiedTo(e, operands) ==
    CASE e.k = "bin" -> Identity(e.op, operands[1], operands[2])
      [] e.k = "un"  ->
            IF e.op = "NOT" /\ operands[1].k = "un" /\ operands[1].op = "NOT" THEN "inner" ELSE "none"
      [] OTHER -> "none"
=============================================================================
