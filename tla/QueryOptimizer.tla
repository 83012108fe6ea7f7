--------------------------- MODULE QueryOptimizer ---------------------------
(***************************************************************************)
(* The five rewriting passes of QueryOptimizer, on plans as trees: the     *)
(* child of a node is a node.  What a pass does at one node is in          *)
(* PlanRules; here are the functions on expressions it calls, and the      *)
(* recursion over the plan.  (PlanFrames runs the passes on addresses.)    *)
(***************************************************************************)
EXTENDS EagerDataFrame

CONSTANT Files  \* path -> columns of the file; the files do not change (see SchemaCache)

-----------------------------------------------------------------------------
\* Expressions.

RECURSIVE colRefs(_)
colRefs(e) ==
    IF e.k = "col" THEN {e.name}
    ELSE UNION {colRefs(Operands(e)[i]) : i \in DOMAIN Operands(e)}

RECURSIVE isConstant(_)
isConstant(e) == Constant(e, [i \in DOMAIN Operands(e) |-> isConstant(Operands(e)[i])])

\* The constant expression's value in a table of one row.
evalAlone(e) == Eval(e, 1, [n \in {} |-> Throws])

RECURSIVE foldExpr(_)
foldExpr(e) ==
    LET new   == [i \in DOMAIN Operands(e) |-> foldExpr(Operands(e)[i])]
        alone == evalAlone(e)
    IN  IF Folds(e, [i \in DOMAIN new |-> isConstant(new[i])], alone)
        THEN Lit(alone.ty, alone.v[1])
        ELSE WithOperands(e, new)

SwapsSum(e, new) ==                                                        \* mutant
    IF e.k = "bin" /\ e.op = "ADD" THEN Bin(e.op, new[2], new[1]) ELSE WithOperands(e, new)

simplifiedNode(e, new) ==
    LET found == SimplifiedTo(e, new) IN
    CASE found = "left"  -> new[1]
      [] found = "right" -> new[2]
      [] found = "inner" -> new[1].child
      [] found = "zero"  -> Lit32(0)
      [] found = "true"  -> Bool(TRUE)
      [] found = "none"  -> WithOperands(e, new)

RECURSIVE simplifyExpr(_)
simplifyExpr(e) == simplifiedNode(e, [i \in DOMAIN Operands(e) |-> simplifyExpr(Operands(e)[i])])

-----------------------------------------------------------------------------
\* Plans.

\* scanOutputColumns: the header of the file, empty when it cannot be read.
header(path) == IF path \in DOMAIN Files
                THEN {Files[path][i].name : i \in DOMAIN Files[path]} ELSE {}

RECURSIVE outputColumns(_)
outputColumns(node) ==
    CASE node.op = "scan" ->
            IF header(node.path) = {} THEN {}
            ELSE IF node.projected = <<>> THEN {header(node.path)}
            ELSE {header(node.path) \cap ToSet(node.projected)}
      [] node.op = "select" ->
            {{inferName(node.exprs[i], i - 1) : i \in DOMAIN node.exprs}}
      [] node.op = "withcol" ->
            {cols \cup {node.column} : cols \in outputColumns(node.child)}
      [] node.op = "agg" ->
            {DOMAIN node.aggs \cup
                (IF node.child.op = "groupby" THEN ToSet(node.child.keys) ELSE {})}
      [] node.op = "join" ->
            {L \cup (R \ ToSet(node.on)) :
                L \in outputColumns(node.child), R \in outputColumns(node.right)}
      [] OTHER -> outputColumns(node.child)

\* std::sort of names.
sorted(names) == InOrder(names, LAMBDA x, y : Rank[x] < Rank[y])

INSTANCE PlanRules WITH foldedExpr <- foldExpr, simplifiedExpr <- simplifyExpr, refsOf <- colRefs,
                        headerOf <- header, columnsOf <- outputColumns, inOrder <- sorted

RECURSIVE constantFolding(_)
constantFolding(node) ==
    LET kids    == [i \in DOMAIN Children(node) |-> constantFolding(Children(node)[i])]
        rebuilt == mapChildren(node, kids)
    IN  rewriteNodeExprs(rebuilt, Folded(rebuilt))

RECURSIVE expressionSimplification(_)
expressionSimplification(node) ==
    LET kids    == [i \in DOMAIN Children(node) |-> expressionSimplification(Children(node)[i])]
        rebuilt == mapChildren(node, kids)
    IN  rewriteNodeExprs(rebuilt, Simplified(rebuilt))

RECURSIVE predicatePushdown(_)
predicatePushdown(node) ==
    LET kids == [i \in DOMAIN Children(node) |-> predicatePushdown(Children(node)[i])]
        rewritten == mapChildren(node, kids)
    IN  IF rewritten.op = "filter" THEN PushFilter(rewritten) ELSE rewritten

RECURSIVE projectionPushdown(_, _)
projectionPushdown(node, required) ==
    IF node.op = "scan" THEN ProjectScan(node, required)
    ELSE mapChildren(node, [i \in DOMAIN Children(node) |->
            projectionPushdown(Children(node)[i], ChildRequired(node, i, required))])

RECURSIVE limitPushdown(_)
limitPushdown(node) ==
    LET kids == [i \in DOMAIN Children(node) |-> limitPushdown(Children(node)[i])]
        rewritten == mapChildren(node, kids)
    IN  IF rewritten.op = "limit" THEN PushLimit(rewritten) ELSE rewritten

runPass(pass, node) ==
    CASE pass = "fold"        -> constantFolding(node)
      [] pass = "simplify"    -> expressionSimplification(node)
      [] pass = "predicates"  -> predicatePushdown(node)
      [] pass = "projections" -> projectionPushdown(node, {})
      [] pass = "limits"      -> limitPushdown(node)
=============================================================================
