----------------------------- MODULE PlanRules -----------------------------
(***************************************************************************)
(* What the five passes of QueryOptimizer make of one node whose children  *)
(* they have been at, on plans as trees.  What they ask of an expression,  *)
(* a file or a whole plan is a parameter: QueryOptimizer defines it.  A    *)
(* value that may be std::nullopt is a set with one element or none.       *)
(***************************************************************************)
EXTENDS LogicalPlan, SequencesExt

CONSTANTS
    foldedExpr(_), simplifiedExpr(_),  \* what foldExpr and simplifyExpr make of an expression
    refsOf(_),                         \* colRefs: the columns an expression reads
    headerOf(_),                       \* the columns of a file, none if it cannot be read
    columnsOf(_),                      \* outputColumns: the columns of a plan, if known
    inOrder(_)                         \* names, sorted

EqualsAtRoot(a, b) == a.op = b.op /\ mapChildren(a, Children(b)) = b         \* mutant

\* Compares node by node, every field.
planEquals(a, b) == a = b

-----------------------------------------------------------------------------
\* The expressions of a node, by position or name, and the node with new ones.
Exprs(node) ==
    CASE node.op = "filter"  -> <<node.predicate>>
      [] node.op = "select"  -> node.exprs
      [] node.op = "withcol" -> <<node.expr>>
      [] node.op = "agg"     -> node.aggs
      [] OTHER -> <<>>

rewriteNodeExprs(node, new) ==
    CASE node.op = "filter"  -> [node EXCEPT !.predicate = new[1]]
      [] node.op = "select"  -> [node EXCEPT !.exprs = new]
      [] node.op = "withcol" -> [node EXCEPT !.expr = new[1]]
      [] node.op = "agg"     -> [node EXCEPT !.aggs = new]
      [] OTHER -> node

Folded(node)     == [i \in DOMAIN Exprs(node) |-> foldedExpr(Exprs(node)[i])]
Simplified(node) == [i \in DOMAIN Exprs(node) |-> simplifiedExpr(Exprs(node)[i])]

-----------------------------------------------------------------------------
\* Predicate pushdown: a filter right above a join moves to the side that has all the
\* columns it reads (the left one if both do), one right above a grouping moves below it
\* when it reads keys only.  The join's mode is not looked at.
SideOfSome(jn, refs) ==                                                    \* mutant
    IF \E cols \in columnsOf(jn.child) : refs \cap cols # {} THEN "left" ELSE "right"

SideOf(jn, refs) ==
    LET L == columnsOf(jn.child)
        R == columnsOf(jn.right)
    IN  CASE refs = {} \/ L = {} \/ R = {}        -> "none"
          [] \A cols \in L : refs \subseteq cols -> "left"
          [] \A cols \in R : refs \subseteq cols -> "right"
          [] OTHER -> "none"

\* Below which side of the child, a join or a grouping, the filter goes.
FilterGoes(child, predicate) ==
    LET refs == refsOf(predicate) IN
    CASE child.op = "join" -> SideOf(child, refs)
      [] child.op = "groupby" /\ refs # {} /\ refs \subseteq ToSet(child.keys) -> "left"
      [] OTHER -> "none"

PushFilter(node) ==
    LET child == node.child
        side  == FilterGoes(child, node.predicate)
    IN  CASE side = "left"  -> [child EXCEPT !.child = Filter(child.child, node.predicate)]
          [] side = "right" -> [child EXCEPT !.right = Filter(child.right, node.predicate)]
          [] OTHER -> node

-----------------------------------------------------------------------------
\* Projection pushdown: required is {} for "everything", else {the set of names}.
Augment(required, extra) == {R \cup extra : R \in required}

ProjectScan(node, required) ==
    LET wanted == (UNION required) \cap headerOf(node.path) IN
    IF required = {} \/ wanted = {} THEN node
    ELSE [node EXCEPT !.projected = inOrder(wanted)]

ExprRefs(node) == UNION {refsOf(Exprs(node)[i]) : i \in DOMAIN Exprs(node)}

\* What a side of a join must deliver: the required columns it has, and its keys.
SideRequired(required, side, on) ==
    {(R \cap cols) \cup ToSet(on) : R \in required, cols \in columnsOf(side)}

\* What the k-th child must deliver of a node that must deliver required.
ChildRequired(node, k, required) ==
    CASE node.op = "join"    -> SideRequired(required, Children(node)[k], node.on)
      [] node.op = "select"  -> {ExprRefs(node)}
      [] node.op = "agg"     -> {ExprRefs(node)}
      [] node.op = "filter"  -> Augment(required, ExprRefs(node))
      [] node.op = "withcol" -> {(R \ {node.column}) \cup ExprRefs(node) : R \in required}
      [] node.op = "sort"    -> Augment(required, ToSet(node.by))
      [] node.op = "groupby" -> Augment(required, ToSet(node.keys))
      [] node.op = "limit"   -> required

-----------------------------------------------------------------------------
\* Limit pushdown: a limit right above a select or with_column changes places with it,
\* one right above a scan is absorbed by the scan's row limit.
LatestLimit(scan, n) == n                                                  \* mutant

TighterLimit(scan, n) == IF scan.row_limit >= 0 /\ scan.row_limit < n THEN scan.row_limit ELSE n

PushLimit(node) ==
    LET child == node.child IN
    CASE child.op \in {"select", "withcol"} -> [child EXCEPT !.child = Limit(child.child, node.n)]
      [] child.op = "scan" -> [child EXCEPT !.row_limit = TighterLimit(child, node.n)]
      [] OTHER -> node

-----------------------------------------------------------------------------
\* The passes of a round, in order, and what each makes of a node once it has been at the
\* children.
Following == [fold |-> "simplify", simplify |-> "predicates", predicates |-> "projections",
              projections |-> "limits", limits |-> "compare"]

Rewritten(pass, node, required) ==
    CASE pass = "fold"     -> rewriteNodeExprs(node, Folded(node))
      [] pass = "simplify" -> rewriteNodeExprs(node, Simplified(node))
      [] pass = "predicates" /\ node.op = "filter" -> PushFilter(node)
      [] pass = "projections" /\ node.op = "scan"  -> ProjectScan(node, required)
      [] pass = "limits" /\ node.op = "limit"      -> PushLimit(node)
      [] OTHER -> node

AskedOfAll(pass, node, k, required) == required                            \* mutant

\* What the pass asks of the k-th child.
Asked(pass, node, k, required) ==
    IF pass = "projections" THEN ChildRequired(node, k, required) ELSE {}
=============================================================================
