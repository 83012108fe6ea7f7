----------------------------- MODULE ExprPasses -----------------------------
(***************************************************************************)
(* foldExpr and simplifyExpr on expressions at addresses, call by call.    *)
(* Users build expressions from others and may share them; the passes of   *)
(* optimize() call the two functions in turn, round after round, on an     *)
(* expression of the plan.  They copy a node only to change it.            *)
(***************************************************************************)
EXTENDS ExprRules

CONSTANTS
    aggregated(_, _),  \* evalAggExpr: function, column -> column
    Tables,            \* the tables expressions are evaluated on: column name -> column
    Rows,              \* the number of their rows
    Texts,             \* the strings, as ranks
    Leaves,            \* the columns and literals that expressions are built from
    Operators,         \* the other nodes, without their operands
    MaxNodes,          \* bound: nodes built on the leaves
    MaxRounds          \* the cap of the rounds

Types == ColTypes \cup {"UINT64"}

\* The cells a column of each type may have, and the columns evalExprOn returns in a table
\* of n rows: one cell for each row, or one of all the rows.
Cells(t) ==
    {Null} \cup
    CASE IsNumeric(t)  -> -Half[t]..Half[t] - 1
      [] t = "BOOLEAN" -> {0, 1}
      [] t = "STRING"  -> Texts
      [] t = "UINT64"  -> 0..2 * Half.INT64 - 1

IsColumn(C, n) ==
    /\ C = [ty |-> C.ty, v |-> C.v] /\ C.ty \in Types
    /\ \E m \in {1, n} : C.v \in [1..m -> Cells(C.ty)]

\* The fields of a node of each kind, and what may be in them.
ExprFields == [col   |-> {"k", "name"},
               lit   |-> {"k", "ty", "val"},
               alias |-> {"k", "child", "as"},
               bin   |-> {"k", "op", "left", "right"},
               un    |-> {"k", "op", "child"},
               agg   |-> {"k", "func", "child"},
               str   |-> {"k", "func", "child"}]

BinaryOps == Arithmetic \cup {"EQ", "NEQ"} \cup Orderings \cup Logical
UnaryOps  == {"NEG", "NOT", "ABS", "IS_NULL", "IS_NOT_NULL"}
AggFuncs  == {"SUM", "COUNT", "MIN", "MAX"}

IsExpr(e) ==
    /\ e.k \in DOMAIN ExprFields /\ e = [x \in ExprFields[e.k] |-> e[x]]
    /\ e.k = "bin" => e.op \in BinaryOps
    /\ e.k = "un"  => e.op \in UnaryOps
    /\ e.k = "agg" => e.func \in AggFuncs
    /\ e.k = "str" => e.func \in DOMAIN StringFuncs
    /\ e.k = "lit" => e.ty \in Types /\ e.val \in Cells(e.ty)

ASSUME RowsAssumption == Rows \in Nat /\ Texts \subseteq Int

ASSUME TablesAssumption == \A t \in Tables : \A n \in DOMAIN t : IsColumn(t[n], Rows)

ASSUME StringFuncsAssumption ==
    \A f \in DOMAIN StringFuncs :
        /\ StringFuncs[f].ty \in Types
        /\ \A x \in Texts : StringFuncs[f].of[x] \in Cells(StringFuncs[f].ty)

ASSUME AggregatedAssumption ==
    \A f \in AggFuncs :
        /\ aggregated(f, Throws) = Throws
        /\ \A t \in Types : \A m \in {1, Rows} : \A v \in [1..m -> Cells(t)] :
              LET result == aggregated(f, [ty |-> t, v |-> v]) IN
              result = Throws \/ IsColumn(result, 1)

ASSUME NodesAssumption ==
    /\ Leaves \in Seq({Leaves[i] : i \in DOMAIN Leaves})
    /\ \A i \in DOMAIN Leaves : IsExpr(Leaves[i]) /\ Leaves[i].k \in {"col", "lit"}
    /\ \A e \in Operators : IsExpr(e) /\ e.k \notin {"col", "lit"}

ASSUME MaxAssumption == MaxNodes \in Nat /\ MaxRounds \in Nat \ {0}

VARIABLES
    tab,       \* the table
    exprs,     \* the nodes by address, an operand below what it is an operand of, each with
               \* what is computed from it: its value in the table, its value in the table
               \* of evalToLit, and whether isConstant holds
    pc,        \* the pass under way; "build" before optimize() is called
    root,      \* the expression the plan was built with
    expr,      \* the one the passes have made of it
    iter,      \* rounds completed
    calls,     \* the calls of the pass under way: [at, kids, lost], kids what the calls on
               \* its first operands returned
    results,   \* history: what calls of each pass were on, and returned
    lost       \* history: what identities that do not keep the value may have lost

vars == <<tab, exprs, pc, root, expr, iter, calls, results, lost>>

-----------------------------------------------------------------------------
\* A node as it is made: what is computed from it never changes.
Noted(h, node) ==
    LET ops == Operands(node) IN
    [node     |-> node,
     value    |-> Evaluated(node, [i \in DOMAIN ops |-> h[ops[i]].value], Rows, tab, aggregated),
     alone    |-> EvaluatedAlone(node, [i \in DOMAIN ops |-> h[ops[i]].alone], aggregated),
     constant |-> Constant(node, [i \in DOMAIN ops |-> h[ops[i]].constant])]

Found(h, a)   == [exprs |-> h, at |-> a]
Made(h, node) == Found(Append(h, Noted(h, node)), Len(h) + 1)

\* The node with these operands: the node itself if they are its own.
Rebuilt(h, a, kids) ==
    IF kids = Operands(h[a].node) THEN Found(h, a) ELSE Made(h, WithOperands(h[a].node, kids))

FoldedAt(h, a, kids) ==
    LET alone == h[a].alone IN
    IF Folds(h[a].node, [i \in DOMAIN kids |-> h[kids[i]].constant], alone)
    THEN Made(h, Lit(alone.ty, alone.v[1]))
    ELSE Rebuilt(h, a, kids)

Rule(h, a, kids) == SimplifiedTo(h[a].node, [i \in DOMAIN kids |-> h[kids[i]].node])

SimplifiedAt(h, a, kids) ==
    LET rule == Rule(h, a, kids) IN
    CASE rule = "left"  -> Found(h, kids[1])
      [] rule = "right" -> Found(h, kids[2])
      [] rule = "inner" -> Found(h, h[kids[1]].node.child)
      [] rule = "zero"  -> Made(h, Lit32(0))
      [] rule = "true"  -> Made(h, Bool(TRUE))
      [] rule = "none"  -> Rebuilt(h, a, kids)

RewrittenAt(pass, h, a, kids) ==
    CASE pass = "fold"     -> FoldedAt(h, a, kids)
      [] pass = "simplify" -> SimplifiedAt(h, a, kids)

-----------------------------------------------------------------------------
\* What may be lost, from bad to worse: the width of the type, so that cells wrap around
\* earlier and are known modulo 2 * Half.INT32 only; the cells.
Losses == {"nothing", "width", "cells"}

Worse(s, t) ==
    IF "cells" \in {s, t} THEN "cells" ELSE IF "width" \in {s, t} THEN "width" ELSE "nothing"

\* A literal is dropped next to a column that is kept: one of the wider type leaves a column
\* of the narrower one; a factor other than 1 leaves a zero where there was null.
LostBy(op, dropped, kept) ==
    IF op = "MUL" /\ ~litEquals(dropped, 1) THEN "cells"
    ELSE IF op \in Arithmetic /\ dropped.ty = "INT64" /\ kept.ty = "INT32" THEN "width"
    ELSE "nothing"

LostAt(h, a, kids) ==
    LET rule == Rule(h, a, kids)
        op   == h[a].node.op
        left == h[kids[1]].node
    IN  CASE rule = "left"  -> LostBy(op, h[kids[2]].node, h[kids[1]].value)
          [] rule = "right" -> LostBy(op, left, h[kids[2]].value)
          [] rule \in {"zero", "true"} ->
                IF left.val = Null THEN "cells"
                ELSE IF rule = "zero" /\ left.ty = "INT64" THEN "width" ELSE "nothing"
          [] rule \in {"inner", "none"} -> "nothing"

\* Sums, products and differences of cells known modulo a width are known modulo it.
KeepsCongruence(e) ==
    \/ e.k = "alias"
    \/ e.k = "bin" /\ e.op \in {"ADD", "SUB", "MUL"}
    \/ e.k = "un" /\ e.op = "NEG"

LostThrough(e, l) ==
    IF l = "nothing" \/ (l = "width" /\ KeepsCongruence(e)) THEN l ELSE "cells"

Loss(pass, h, a, kids, l) ==
    IF pass = "fold" THEN "nothing"
    ELSE Worse(LostThrough(h[a].node, l), LostAt(h, a, kids))

-----------------------------------------------------------------------------
Init ==
    /\ tab \in Tables
    /\ exprs = [i \in DOMAIN Leaves |-> Noted(<<>>, Leaves[i])]
    /\ pc = "build" /\ root = 0 /\ expr = 0 /\ iter = 0
    /\ calls = <<>>
    /\ results = [fold |-> {}, simplify |-> {}] /\ lost = "nothing"

\* An expression is built of others.
Build ==
    /\ pc = "build" /\ Len(exprs) < Len(Leaves) + MaxNodes
    /\ \E e \in Operators : \E new \in [DOMAIN Operands(e) -> DOMAIN exprs] :
            exprs' = Made(exprs, WithOperands(e, new)).exprs
    /\ UNCHANGED <<tab, pc, root, expr, iter, calls, results, lost>>

\* optimize() of a plan with the expression built last.
Optimize ==
    /\ pc = "build" /\ exprs # <<>>
    /\ root' = Len(exprs) /\ expr' = Len(exprs) /\ pc' = "fold"
    /\ UNCHANGED <<tab, exprs, iter, calls, results, lost>>

Started(a) == [at |-> a, kids |-> <<>>, lost |-> "nothing"]

\* A pass: a call on the expression.
StartPass ==
    /\ pc \in {"fold", "simplify"} /\ calls = <<>>
    /\ calls' = <<Started(expr)>>
    /\ UNCHANGED <<tab, exprs, pc, root, expr, iter, results, lost>>

\* The innermost call calls itself on the next operand of its node ...
CallOnOperand ==
    /\ calls # <<>>
    /\ LET top == Last(calls)
           ops == Operands(exprs[top.at].node)
       IN  /\ Len(top.kids) < Len(ops)
           /\ calls' = Append(calls, Started(ops[Len(top.kids) + 1]))
    /\ UNCHANGED <<tab, exprs, pc, root, expr, iter, results, lost>>

\* ... and after the last one returns what the pass makes of the node, to its caller or to
\* the pass.
ReturnFromCall ==
    /\ calls # <<>>
    /\ LET top    == Last(calls)
           below  == Front(calls)
           result == RewrittenAt(pc, exprs, top.at, top.kids)
           loss   == Loss(pc, exprs, top.at, top.kids, top.lost)
       IN  /\ Len(top.kids) = Len(Operands(exprs[top.at].node))
           /\ exprs' = result.exprs
           /\ results' = [results EXCEPT ![pc] = @ \cup {<<top.at, result.at>>}]
           /\ IF below = <<>>
              THEN /\ calls' = <<>> /\ expr' = result.at /\ lost' = Worse(lost, loss)
                   /\ pc' = IF pc = "fold" THEN "simplify" ELSE "compare"
              ELSE /\ calls' = [below EXCEPT ![Len(below)].kids = Append(@, result.at),
                                             ![Len(below)].lost = Worse(@, loss)]
                   /\ UNCHANGED <<pc, expr, lost>>
    /\ UNCHANGED <<tab, root, iter>>

\* The end of a round.  Whether the plan has changed also depends on the other passes.
Compare ==
    /\ pc = "compare"
    /\ iter' = iter + 1
    /\ pc' \in {"done"} \cup (IF iter' = MaxRounds THEN {} ELSE {"fold"})
    /\ UNCHANGED <<tab, exprs, root, expr, calls, results, lost>>

Next == Build \/ Optimize \/ StartPass \/ CallOnOperand \/ ReturnFromCall \/ Compare

Spec == Init /\ [][Next]_vars

-----------------------------------------------------------------------------
\* Columns and literals have the cells of their type however expressions are built and
\* rewritten, every node is above its operands, and calls are on nodes that are there.
TypeOK ==
    /\ \A a \in DOMAIN exprs :
        /\ IsExpr(exprs[a].node)
        /\ \A i \in DOMAIN Operands(exprs[a].node) : Operands(exprs[a].node)[i] \in 1..a - 1
        /\ exprs[a].value = Throws \/ IsColumn(exprs[a].value, Rows)
        /\ exprs[a].alone = Throws \/ IsColumn(exprs[a].alone, 1)
    /\ pc \in {"build", "fold", "simplify", "compare", "done"}
    /\ {root, expr} \subseteq DOMAIN exprs \cup {0}
    /\ iter \in 0..MaxRounds /\ lost \in Losses
    /\ \A x \in DOMAIN calls :
        /\ calls[x].at \in DOMAIN exprs /\ ToSet(calls[x].kids) \subseteq DOMAIN exprs
        /\ Len(calls[x].kids) <= Len(Operands(exprs[calls[x].at].node))

Value(a) == exprs[a].value

\* What the passes make of an expression has the value of the expression: the same type,
\* cells and nulls in every row.  Where evaluating the expression throws, a part that does
\* may have been dropped.
ValueKept ==
    root # 0 /\ lost = "nothing" => Value(root) = Throws \/ Value(expr) = Value(root)

Congruent(C, D) ==
    /\ IsNumeric(C.ty) /\ IsNumeric(D.ty) /\ Len(C.v) = Len(D.v)
    /\ \A i \in DOMAIN C.v :
        IF Null \in {C.v[i], D.v[i]} THEN C.v[i] = D.v[i]
        ELSE (C.v[i] - D.v[i]) % (2 * Half.INT32) = 0

\* Where simplification narrows a type, the cells agree modulo the narrower width, and nulls
\* are where they were.
NarrowedValueCongruent ==
    root # 0 /\ lost = "width" =>
        \/ Value(root) = Throws
        \/ Value(expr) = Value(root)
        \/ Congruent(Value(root), Value(expr))

PassReturns == pc \in {"fold", "simplify"} /\ pc' # pc

\* Folding keeps everything, also that an expression throws: a division by zero is left for
\* the rows to meet, if there are any.
FoldingExact == [][pc = "fold" /\ PassReturns => Value(expr)' = Value(expr)]_vars

\* A call on what a call of the same pass has returned returns it, the pointer: that is how
\* rewriteNodeExprs sees that the node of the plan need not change, and the rounds can end.
Idempotent ==
    \A pass \in DOMAIN results : \A c, d \in results[pass] : d[1] = c[2] => d[2] = d[1]
=============================================================================
