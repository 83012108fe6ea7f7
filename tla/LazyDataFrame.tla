---------------------------- MODULE LazyDataFrame ----------------------------
(***************************************************************************)
(* A lazy data frame: each call of the API wraps the plan in one more node *)
(* and runs nothing; collect() optimizes the plan in rounds of five passes *)
(* until a round changes nothing (or for MaxRounds rounds), then executes  *)
(* it.  collect_raw() executes the plan as it was built.                   *)
(***************************************************************************)
EXTENDS QueryOptimizer

CONSTANTS
    Menus,     \* path of a scan -> the arguments of the calls on the frame it begins, and
               \* the bound on their number, maxOps
    MaxRounds  \* the cap of the rounds, 10 in the code

VARIABLES
    plan,     \* plan_
    pc,       \* where collect() is; "build" before it is called
    current,  \* optimize(): the plan the round began with
    next,     \* optimize(): the plan the passes of the round have made of it
    iter,     \* optimize(): rounds completed
    raw,      \* what collect_raw() returns on the same plan: only the properties read it
    result    \* what collect() returns

vars == <<plan, pc, current, next, iter, raw, result>>

-----------------------------------------------------------------------------
\* Execution.

runScan(node) ==
    LET file == Frame(Files[node.path])
        present == SelectSeq(node.projected, LAMBDA n : GetFieldIndex(file, n) # 0)
        df == IF present = <<>> THEN file ELSE selectNames(file, present)
    IN  CASE node.path \notin DOMAIN Files -> Failed
          [] node.row_limit >= 0           -> head(df, node.row_limit)
          [] OTHER                         -> df

\* What a node with one child makes of the child's frame.
runNode(node, df) ==
    CASE node.op = "filter"  -> filter(df, node.predicate)
      [] node.op = "select"  -> select(df, node.exprs)
      [] node.op = "withcol" -> with_column(df, node.column, node.expr)
      [] node.op = "groupby" -> group_by(df, node.keys)
      [] node.op = "agg"     -> aggregate(df, node.aggs)
      [] node.op = "sort"    -> sort(df, node.by, node.ascending)
      [] node.op = "limit"   -> head(df, node.n)

\* An exception below a node leaves the node too.
RECURSIVE executePlan(_)
executePlan(node) ==
    IF node.op = "scan" THEN runScan(node)
    ELSE LET df == executePlan(node.child)
             right == executePlan(node.right)
         IN  CASE ~df.ok -> Failed
               [] df.ok /\ node.op = "join" ->
                     IF right.ok THEN join(df, right, node.on, node.how) ELSE Failed
               [] df.ok /\ node.op # "join" -> runNode(node, df)

-----------------------------------------------------------------------------
\* The nodes of a plan, and the number of calls that built its left spine.
RECURSIVE Nodes(_)
Nodes(node) ==
    {node} \cup (IF node.op = "scan" THEN {} ELSE Nodes(node.child))
           \cup (IF node.op = "join" THEN Nodes(node.right) ELSE {})

RECURSIVE Ops(_)
Ops(node) == IF node.op = "scan" THEN 0 ELSE 1 + Ops(node.child)

RECURSIVE Source(_)
Source(node) == IF node.op = "scan" THEN node.path ELSE Source(node.child)

Menu == Menus[Source(plan)]

Init ==
    /\ plan \in {Scan(p) : p \in DOMAIN Menus}
    /\ pc = "build"
    /\ current = plan /\ next = plan /\ iter = 0
    /\ raw = Failed /\ result = Failed

extend(node) ==
    /\ pc = "build" /\ Ops(plan) < Menu.maxOps
    /\ plan' = node /\ current' = node /\ next' = node
    /\ UNCHANGED <<pc, iter, raw, result>>

CallSelect     == \E es \in Menu.selects : extend(Select(plan, es))
CallFilter     == \E e \in Menu.predicates : extend(Filter(plan, e))
CallWithColumn == \E w \in Menu.withColumns : extend(WithCol(plan, w.name, w.expr))
CallGroupBy    == \E ks \in Menu.keys : extend(GroupBy(plan, ks))
CallAggregate  == \E as \in Menu.aggs : extend(Aggregate(plan, as))
CallJoin       == \E r \in Menu.rights : extend(Join(plan, r.plan, r.on, r.how))
CallSort       == \E s \in Menu.sorts : extend(Sort(plan, s.by, s.ascending))
CallHead       == \E n \in Menu.heads : extend(Limit(plan, n))

Collect ==
    /\ pc = "build"
    /\ pc' = "fold" /\ raw' = executePlan(plan)
    /\ UNCHANGED <<plan, current, next, iter, result>>

\* One pass of the round, and where the round goes on.
Pass(from, to, rewritten) ==
    /\ pc = from
    /\ pc' = to /\ next' = rewritten
    /\ UNCHANGED <<plan, current, iter, raw, result>>

Fold           == Pass("fold", "simplify", constantFolding(next))
Simplify       == Pass("simplify", "predicates", expressionSimplification(next))
PushPredicates == Pass("predicates", "projections", predicatePushdown(next))
PushProjection == Pass("projections", "limits", projectionPushdown(next, {}))
PushLimits     == Pass("limits", "compare", limitPushdown(next))

\* The end of a round: leave the loop at a fixpoint or at the cap.
Compare ==
    /\ pc = "compare"
    /\ current' = next /\ iter' = iter + 1
    /\ pc' = IF planEquals(next, current) \/ iter' = MaxRounds THEN "execute" ELSE "fold"
    /\ UNCHANGED <<plan, next, raw, result>>

Execute ==
    /\ pc = "execute"
    /\ pc' = "done" /\ result' = executePlan(current)
    /\ UNCHANGED <<plan, current, next, iter, raw>>

Next ==
    \/ CallSelect \/ CallFilter \/ CallWithColumn \/ CallGroupBy
    \/ CallAggregate \/ CallJoin \/ CallSort \/ CallHead
    \/ Collect
    \/ Fold \/ Simplify \/ PushPredicates \/ PushProjection \/ PushLimits \/ Compare
    \/ Execute

Spec == Init /\ [][Next]_vars

-----------------------------------------------------------------------------
\* Plans on which the passes are known to change the result.  PassesPreserveMeaning
\* leaves them out; a run of its own shows each of the first four.

Of(node, op) == {m \in Nodes(node) : m.op = op}

RECURSIVE Subexprs(_)
Subexprs(e) ==
    {e} \cup CASE e.k \in {"col", "lit"} -> {}
               [] e.k = "bin" -> Subexprs(e.left) \cup Subexprs(e.right)
               [] OTHER       -> Subexprs(e.child)

NodeExprs(node) == {Exprs(node)[i] : i \in DOMAIN Exprs(node)}

\* A filter goes below a join, on a side whose unmatched rows the join does not keep.
UnpreservedSide(node) ==
    \E f \in Of(node, "filter") : \E j \in Of(f, "join") :
        LET side == SideOf(j, colRefs(f.predicate)) IN
        side # "none" /\ j.how \notin {"inner", side}

\* A filter is applied to a frame that has group keys, which the frame loses.
FilteredGroups(node) ==
    \E f \in Of(node, "filter") : \E g \in Of(f, "groupby") :
        \A a \in Of(f, "agg") : g \notin Nodes(a)

\* A limit goes below a column computed from all the rows.
LimitedAggregate(node) ==
    \E m \in Of(node, "limit") : \E c \in Of(m, "select") \cup Of(m, "withcol") :
        \E e \in NodeExprs(c) : \E s \in Subexprs(e) : s.k = "agg"

\* A product with zero, null where the other factor is.
ZeroProduct(node) ==
    \E m \in Nodes(node) : \E e \in NodeExprs(m) : \E s \in Subexprs(foldExpr(e)) :
        s.k = "bin" /\ s.op = "MUL" /\ (litEquals(s.left, 0) \/ litEquals(s.right, 0))

\* A selected expression that is not aliased and is named after what it simplifies to.
Renamed(node) ==
    \E m \in Of(node, "select") : \E i \in DOMAIN m.exprs :
        inferName(simplifyExpr(foldExpr(m.exprs[i])), i - 1) # inferName(m.exprs[i], i - 1)

\* A literal that an identity drops is wider than what is left of the expression may be.
Narrowed(node) ==
    \E m \in Nodes(node) : \E e \in NodeExprs(m) : \E s \in Subexprs(foldExpr(e)) :
        /\ s.k = "bin" /\ s.op \in Arithmetic
        /\ \E x \in {s.left, s.right} : isLit(x) /\ x.ty = "INT64" /\ x.val \in {0, 1}

Sound(node) ==
    /\ ~UnpreservedSide(node) /\ ~FilteredGroups(node) /\ ~LimitedAggregate(node)
    /\ ~ZeroProduct(node) /\ ~Renamed(node) /\ ~Narrowed(node)

\* A filter above a join that throws on rows the join may drop.
DividingFilter(node) ==
    \E f \in Of(node, "filter") : Of(f, "join") # {} /\
        \E s \in Subexprs(f.predicate) : s.k = "bin" /\ s.op = "DIV"

-----------------------------------------------------------------------------
RECURSIVE Scans(_)
Scans(node) ==
    CASE node.op = "scan" -> <<node>>
      [] node.op = "join" -> Scans(node.child) \o Scans(node.right)
      [] OTHER            -> Scans(node.child)

Rectangular(df) == \A i \in DOMAIN df.cols : Len(df.cols[i].v) = NumRows(df)

\* A select, or an aggregate without keys, that computes some columns from all the rows
\* and others row by row: Table::Make takes columns of any lengths.
Mixed(node) ==
    \E m \in Of(node, "select") \cup Of(node, "agg") :
        \E e, f \in NodeExprs(m) :
            (\E s \in Subexprs(e) : s.k = "agg") # (\E s \in Subexprs(f) : s.k = "agg")

\* The control state is as declared, rounds stay under the cap, and without such a mix no
\* sequence of calls builds a table whose columns differ in length.
TypeOK ==
    /\ pc \in {"build", "fold", "simplify", "predicates", "projections", "limits",
               "compare", "execute", "done"}
    /\ iter \in 0..MaxRounds
    /\ Ops(plan) <= Menu.maxOps
    /\ (Rectangular(raw) /\ Rectangular(result)) \/ Mixed(plan)

\* collect() returns what collect_raw() does, and no single pass of any round makes of
\* the plan one with another result: rows, their order, columns, types and nulls.  A
\* filter moved to rows it divides by zero on throws; it never gives another result.
Preserved(df) == df = raw \/ (DividingFilter(plan) /\ ~df.ok)

PassesPreserveMeaning ==
    raw.ok /\ Sound(plan) =>
        Preserved(executePlan(next)) /\ (pc = "done" => Preserved(result))

\* Where simplification narrows a type, sums and products keep what the narrower type can
\* hold of their cells: both results agree modulo its width, and have the same nulls.
SumsAndProducts(node) ==
    \A m \in Nodes(node) : \A e \in NodeExprs(m) : \A s \in Subexprs(e) :
        s.k \in {"bin", "un", "str", "agg"} => s.k = "bin" /\ s.op \in {"ADD", "SUB", "MUL"}

NarrowedCellsCongruent ==
    pc = "done" /\ raw.ok /\ Narrowed(plan) /\ ~ZeroProduct(plan) /\ SumsAndProducts(plan) =>
        /\ ColumnNames(result) = ColumnNames(raw)
        /\ \A c \in DOMAIN raw.cols : \A i \in 1..NumRows(raw) :
              LET wide == raw.cols[c].v[i]
                  cell == result.cols[c].v[i]
              IN  IF Null \in {wide, cell} THEN cell = wide
                  ELSE (wide - cell) % (2 * Half.INT32) = 0

\* When collect() executes the plan, every pass by itself leaves it as it is: the loop
\* stopped because all are done, not at the cap, and not because two undo each other.
\* (Optimizer Termination and Idempotence in the report.)
EachPassSettled ==
    pc = "execute" =>
        /\ constantFolding(current) = current
        /\ expressionSimplification(current) = current
        /\ predicatePushdown(current) = current
        /\ projectionPushdown(current, {}) = current
        /\ limitPushdown(current) = current

\* Optimizing never makes a scan read more: its row limit is never raised, a projection
\* never gets a column back, and the scans stay where they are in the plan.
Narrower(s, t) ==
    /\ t.path = s.path
    /\ s.row_limit < 0 \/ t.row_limit \in 0..s.row_limit
    /\ s.projected = <<>> \/ (t.projected # <<>> /\ ToSet(t.projected) \subseteq ToSet(s.projected))

ScansOnlyNarrow ==
    [][pc # "build" =>
        /\ Len(Scans(next')) = Len(Scans(next))
        /\ \A i \in DOMAIN Scans(next) : Narrower(Scans(next)[i], Scans(next')[i])]_vars

\* A plan settles in no more rounds than it has nodes, or than the deepest of its
\* expressions and one more: what reaches the cap is depth.
Operations(e) == {s \in Subexprs(e) : s.k \notin {"col", "lit"}}

RoundsBounded ==
    \/ iter <= Cardinality(Nodes(plan))
    \/ \E m \in Nodes(plan) : \E e \in NodeExprs(m) : iter <= 1 + Cardinality(Operations(e))

-----------------------------------------------------------------------------
\* What the report says of single rules, of plans that Sound leaves out.  The code does
\* otherwise, so a run finds each of these violated.

Agrees == pc = "done" /\ raw.ok => result = raw

\* "Outer joins only allow pushdown on the preserved side", which changes no result.
OuterJoinsAgree == UnpreservedSide(plan) => Agrees

\* Moving a filter on keys below the grouping is equivalent.
FilteredGroupsAgree == FilteredGroups(plan) => Agrees

\* Select and with_column are per-row, so that head may go below them.
LimitedAggregatesAgree == LimitedAggregate(plan) => Agrees

\* Null-unsafe rewrites are not made: no null cell gets a value.
NullsSurvive ==
    pc = "done" /\ raw.ok =>
        \A c \in DOMAIN raw.cols : \A i \in 1..NumRows(raw) :
            raw.cols[c].v[i] = Null => result.cols[c].v[i] = Null
=============================================================================
