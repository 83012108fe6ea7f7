# dataframelib in TLA+

A specification of the data frame library under `src/project`: its expressions and
eager operations, the lazy API with its query optimizer, the hash join, the grouping, the
nodes plans share, and the schema cache that concurrent `collect()` calls share. TLC checks it on small instances; TLAPS
proves the join, the grouping, the rewriting of expressions, the sharing of nodes, the drawing and the cache for every input.

## The system

| Part | Code (`src/project/`) | State it keeps | Operations |
|---|---|---|---|
| Expressions | `include/Expr.hpp`, `src/Expr.cpp`, `src/TypeUtils.cpp`; evaluation in `src/EagerDataFrame.cpp:75-302` | none; trees are immutable and shared | builders, `evalExprOn` |
| Eager frames | `src/EagerDataFrame.cpp` | an immutable Arrow table; the keys of a `group_by` | select, filter, with_column, group_by, aggregate, sort, head, join |
| Hash join | `src/EagerDataFrame.cpp:670-837` | `rhs_index`, `right_matched`, the builders | one call, three loops |
| Grouping | `src/EagerDataFrame.cpp:495-637`, `src/LazyDataFrame.cpp:87-117` | the names, the sorted rows, `groups`, the columns under way | `aggregate` of a map and of pairs |
| Lazy frames | `src/LazyDataFrame.cpp` | `plan_`, a tree of nodes that is shared and never written | the same calls, each wrapping the plan in a node; `collect`, `collect_raw`, sinks |
| Optimizer | `src/QueryOptimizer.cpp` | the plan of the round and of the pass | five passes, `optimize` |
| Schema cache | `src/QueryOptimizer.cpp:205-221` | a static map and its mutex | `scanOutputColumns` |
| Rendering | `src/LogicalPlan.cpp:181-245`, `src/LazyDataFrame.cpp:283-308` | `emitted`, the numbers given, the lines | `renderDotGraph`, `explain` |
| Input and output, printing | `src/IO.cpp`, `src/EagerDataFrame.cpp:370-420` | none | not modelled |
| `src/internal/*` | an evaluator nothing in the library calls | | not modelled |

A lazy call only builds a node. `collect()` makes an optimizer, which rewrites the plan
in rounds of five passes (fold, simplify, push predicates, push projections, push
limits) until a round changes nothing or ten are done, and then walks the plan, calling
one eager operation per node. `collect_raw()` walks the plan as it was built. The passes
ask `scanOutputColumns` for the header of each scanned file; that answer comes from a
cache shared by all threads of the process, which read and rewrite files meanwhile.

What is hard here, and what makes each part correct:

* **Optimizer.** Every pass by itself is plausible; what is hard is that each works on
  what the others left, for rounds, and that a rule is right only under a condition on
  the nodes around it (the mode of a join, whether a column aggregates, nulls).
  It is correct when the optimized plan returns what the plan returns, when the rounds
  end because every pass is done, and when it never makes a scan read more.
* **Expressions.** Two rewriters, constant folding and simplification, work in turn on what the other left, and each
  of their rules must hold for the null cell, under wrap-around, and for a part that throws. They are correct when
  an expression keeps its value (or loses only what a rule is known to lose), when a part that throws is left to throw, and
  when a rewriter returns the pointer of what it has rewritten before, since the optimizer's loop ends on that.
* **Join.** The right rows without a partner are output by a loop that relies on marks
  an earlier loop made, and the order of the output on the order of the buckets of a hash
  table. It is correct when it outputs exactly the rows a relational join owes, once
  each, in the order of the left table and then the right one.
* **Grouping.** Groups are runs of equal neighbours in sorted rows, so the sort and the
  comparison of keys, two different notions of equality, must fit together (NaN, null, which the code takes for a key of its own, several keys), and
  the last run is cut after the loop. It is correct when each distinct key has one row, made
  of exactly its rows in their order, and when each pair asked for has a column of its own.
* **Shared nodes.** Frames, the plan being optimized and the optimized plan share nodes,
  and several threads may read them. It is correct when that cannot be noticed: no node
  is written after it is made, and each pass makes of a plan what it makes of the tree.
* **Schema cache.** The mutex is released while the file is read, entries are never
  removed, and files change. It is correct when a header is one that file has had, when no
  column is lost that a file always had, and when no thread waits for good.
* **Eager operations.** Short and sequential; what can go wrong is in how they compose:
  group keys that a call in between drops, columns of different lengths, nulls, the
  types an operator refuses.

`PROJECT.json` lists the hazards one by one, at their lines, with the properties aimed
at them.

## Modules

| Module | Models | Extends |
|---|---|---|
| `Kernels` | columns, operand types, what each kind of expression makes of its operands' columns | |
| `ExprRules` | expression nodes, and what `foldExpr` and `simplifyExpr` make of one whose operands they have been at | `Kernels` |
| `Expr` | the recursion of `evalExprOn` over a tree, `inferName` | `ExprRules` |
| `ExprPasses` | `foldExpr` and `simplifyExpr` over nodes at addresses, call by call and round by round | `ExprRules` |
| `MCExprPasses` | the table, leaves and operators of its run | `ExprPasses` |
| `ExprPassesProofs` | the theorems about the two rewriters | `ExprPasses` |
| `EagerDataFrame` | the eager operations as operators on frames | `Expr` |
| `LogicalPlan` | plan nodes, their children, `mapChildren` | |
| `PlanRules` | what each pass makes of one node, and asks of its children; what it asks of an expression or a file is a parameter | `LogicalPlan` |
| `QueryOptimizer` | output schemas, the rewriters of expressions, the five passes as operators on plans | `EagerDataFrame`, an instance of `PlanRules` |
| `LazyDataFrame` | the API's calls, the round loop and execution as a state machine; the properties of optimizing | `QueryOptimizer` |
| `MCLazyDataFrame` | four files and the menus of arguments of each run | `LazyDataFrame` |
| `PlanGraph` | the walk of `renderDotGraph`, one action per entry, descent and return of a call | `LogicalPlan` |
| `PlanFrames` | frames and the optimizer over nodes at addresses, pass by pass and call by call, and `explain` | `PlanRules`, `PlanGraph` |
| `PlanTrees` | what `PlanFrames` implements: frames are trees of their own, and a pass a walk over a tree | `PlanRules` |
| `MCPlanFrames` | files and calls of its run, and the parameters: those of `QueryOptimizer` | `PlanFrames` |
| `PlanFramesProofs` | the theorems about frames and passes | `PlanFrames`, `PlanGraphProofs` |
| `GroupAggregate` | `aggregate` of pairs and of a map, one action per turn of a loop | |
| `RelationalGrouping` | what the grouping promises | |
| `MCGroupAggregate` | the calls of its run | `GroupAggregate` |
| `GroupAggregateProofs`, `GroupingProofs` | the theorems about the grouping | `GroupAggregate` |
| `PlanGraphProofs` | the theorems about the drawing | `PlanGraph` |
| `HashJoin` | `EagerDataFrame::join`, one action per turn of a loop | |
| `RelationalJoin` | what the join promises | |
| `EquiJoin` | the refinement from `HashJoin` to `RelationalJoin`, and its condition | `HashJoin` |
| `MCHashJoin` | the inputs of the join's run | `EquiJoin` |
| `HashJoinProofs`, `EquiJoinProofs` | the theorems about the join | `HashJoin`, `EquiJoin` |
| `SchemaCache` | `scanOutputColumns` called by several threads, from `optimize()` to the scan's execution | |
| `SchemaCacheProofs` | the theorems about the cache | `SchemaCache` |

A definition marked `\* mutant` is a faulty variant of the one below it, as a plausible
mistake in the code would make it. No specification uses it; `PROJECT.json` says which
property fails when it takes the other's place, which shows that the property can fail.

### How state and actions correspond to the code

**`LazyDataFrame`.** `plan` is `plan_`. Each `Call*` action is one method of
`LazyDataFrame` (lines 44-139), its argument drawn from the menu of the file the frame begins with; the right side of a join
is a plan of its own. `Collect` begins `optimize()` and also evaluates `collect_raw()` on the same
plan into `raw`, which no action reads. `Fold`, `Simplify`, `PushPredicates`,
`PushProjection`, `PushLimits` are the five assignments to `next` in the loop
(`QueryOptimizer.cpp:945-949`), `Compare` its end, with `planEquals`, `break` and the cap; `Execute` is
`executePlan`. A frame with `ok = FALSE` stands for an exception.

**`QueryOptimizer`, `PlanRules`.** One operator per function, with its name. What a pass does to
one node below its recursion is in `PlanRules`, which `PlanFrames` and `PlanTrees` share. Plans are trees of
records here (that sharing nodes makes no difference is what `PlanFrames` shows), and `planEquals` and `exprEquals` compare field by field, as `=` does.
A `std::nullopt` is the empty set, a value the set with that one element.

**`EagerDataFrame`, `Kernels`, `ExprRules`, `Expr`.** A frame is a sequence of named columns, a column a type
and cells. An integer type goes from `-Half[t]` to `Half[t] - 1`; `Half` is a constant, 2^31 and 2^63 in the code, and
2^5 and 2^7 in the run of whole plans; a sum of booleans is unsigned (`UINT64`) and wraps at twice the wide one. What does not recur is in `Kernels` (one helper of `evalExprOn` for each kind of
expression) and `ExprRules` (one operator for each condition of `foldExpr` and `simplifyExpr`: `Constant`,
`Folds`, `Neutral`, `Absorbing`, `Identity`); the recursion is in `Expr` and `QueryOptimizer` over trees and in
`ExprPasses` over addresses, so that one text of the rules is checked with plans and proved about. Strings are ranks in a sorted dictionary, which keeps comparison, MIN and MAX; what a
string function returns is a table. Arrow's kernels (`take`,
`sort_indices`, Kleene logic, aggregates that skip nulls) are modelled from how they are
called and marked external. Lookups by name find nothing when two columns bear the
name, as Arrow's do. The modulo goes by the rows of the table (`evalMod`): an operand with fewer, an aggregate beside a
column, makes the code end the program, and `Throws` stands for that too. Whether grouping a table without rows fails
depends on its chunks, which calls leave differently: the constant `GroupsNoRows`, TRUE in the runs, since such a plan
is then compared and not merely one that throws. `JoinRows` is the row set `HashJoin` is proved to compute.

**`ExprPasses`.** A node is a record whose operands are addresses, since users build expressions of others and may
share them. With each node goes what is computed from it and never changes (`Noted`): its value in the table, its value in the
one-row table of `evalToLit` (`alone`), and `isConstant`. `Build` is one call of the builders of `Expr.cpp`; `Optimize`
takes the last expression as the one of the plan. A pass is a call on it and a stack of `calls`: `StartPass`,
`CallOnOperand` (the next `foldExpr(...)` or `simplifyExpr(...)` of a branch) and `ReturnFromCall`, which is all a branch does
after these: fold to a literal, apply an identity, or copy the node if an operand changed
(`Rebuilt`). `Compare` ends the round; whether the loop goes on also depends on the other passes, so it may or may
not. What an aggregate computes is a parameter. Two variables are history that no action reads: `results`, what calls of each pass
were on and returned, and `lost`, the worst that the identities applied so far are known to lose: `width`,
where a literal of the wider type is dropped, and `cells`, where a factor other than 1 is.

**`HashJoin`.** `in` holds the arguments, reduced to their key columns, since the other
columns only travel with their row. `rhs_index`, `right_matched`, `l`, `r` are the
variables of those names (rows counted from 1), `j` the position in `it->second`; `out`
is the builders, as pairs of row numbers with 0 where nulls are appended. `Check` is lines 721-742,
`IndexRow` one turn of 746-750, `ProbeMiss` and `ProbeHit` of 783-805, `RightOnly` of 808-820.
A right row alone appends its key cells to builders of the left
key's types, and Arrow refuses a scalar of another type: `sameType` decides that case.

**`GroupAggregate`.** `Name` is one turn of the loop over the pairs
(`EagerDataFrame.cpp:612-634`, and the same code in `LazyDataFrame.cpp:91-114`), `TrySuffix` one of its `do` loop. A name
is the triple of what it is put together from: no two triples make one text, since a function's name has no
underscore and no digit. `Whole` is 526-536, `Sort` 538-543, `Cut` a turn of 548-553, `CutLast` 554, `Fill` a turn of 566-575, `Build`
577-605. Key cells are kept, and `Place` says where a cell sorts; a column aggregated from a slice is
represented by the rows of the slice, which is all `evalExprOn` is given. Equality is that of `Scalar::Equals`, in the promise
too: null equals null and no other key. Test 32 expects otherwise (below), and no other text says what a null key means.
Concatenating the chunks of a key column may fail on a table without rows.

**`PlanGraph`.** The C++ stack is `stack`, one record for each call of `walk` and the child
it has reached; `Enter`, `Descend` and `Return` are lines 198-208, 210-218 and the return with the edge the caller then writes.
The text of a line is left out.

**`PlanFrames`.** A node is a record whose children are addresses; `heap` has a node after
its children. A pass is a recursive function of the code and a stack of `calls` here, each with its node,
the columns required of it (`projectionPushdownRec`) and the results of the calls on its first children:
`StartPass` is the call on the plan, `CallOnChild` the next turn of the loop in `mapChildren`
(or the one call of each branch of `projectionPushdownRec`), `ReturnFromCall` all that comes after
it, the copy of the node if a child has changed (`WithKids`) and what the pass makes of the
result (`RewrittenAt`). Each helper returns the heap with the nodes it made; `Alloc` is every `make_shared`. `WithKids`,
`WithExprs`, `ProjectScanAt` make the copy only if something has changed. `Compare` is `planEquals` with its test
of the pointers first. `Explain` draws what `optimize` returned, `Drop` ends the call, and `Keep` is a caller that
uses the optimizer itself and makes a frame of its result. Nodes only the call held are then
freed: those above the highest address a frame has, so that addresses are used again.

**`PlanTrees`.** The same calls with trees for addresses: a frame is a value, a node has no identity and nothing is copied
or freed. `Build` is every call that makes a frame, `Deliver` the end of `collect`, `explain` or a caller's own use of the optimizer.

**`SchemaCache`.** A thread is one `collect()` of a plan that reads the columns
`required` from one scan: `Lock`, `Find` (211-213), `Read` (215), `Lock`, `Store`
(217-218), after which the scan is projected (727-742) and, after `Asks` rounds, the file is read
(`Run`). `Rewrite` is any other program or a `sink_csv`. The empty header is what an
unreadable file yields, and it is cached as any other. Opening may fail although the file is there. A header is
read in one step: a file torn by a concurrent write is not considered.

## Runs

| Run | Checks | Bounds |
|---|---|---|
| `hash_join` | the join's invariants, that it implements `RelationalJoin`, that it ends | all tables of up to 2 x 3 rows with one key over two values and null; 1 x 2 with two keys; every mode and one that is refused; keys missing, empty, of two types |
| `group_aggregate` | names, cuts and the order in groups are exact; that it implements `RelationalGrouping`; that it ends | every table of up to 4 rows of one key over two values, NaN and null, of 3 rows of two keys; every list of up to 3 pairs of five kinds (a repeated one, another spelling, an unknown function, a column that throws), of 4 of two kinds |
| `plan_frames` | nodes are final; sharing is not observable (it implements `PlanTrees`); the calls of a pass make of a plan what the pass of `QueryOptimizer` makes of it (`PassesAsDefined`); passes and settled rounds that change nothing copy nothing; drawings are exact and end | up to 4 frames besides an empty one, over 2 files, from a filter that folds and can be pushed, a select that simplifies, a group_by, a head, and joins of any two frames; each optimized, kept or drawn |
| `collect` | no pass changes a result, or where it narrows a type only the high bits; the rounds settle; a plan needs no more rounds than it has nodes, or its deepest expression operators and one; scans only narrow | on one file, every plan of up to 4 calls from menus of two or three expressions each (one divides by zero on a row the join drops), joins inner (with a filter on its right side) and left; on another, one filter or with_column of well-typed expressions of up to two operators (every one with a computed operand on the right, or with one on the left of a column) over a column, 0, 1, TRUE, FALSE, with every pair of an integer cell (2, null, -1) and a boolean one, and sums and products of a narrow column with wide literals, on cells that overflow; on a third, of one row, up to 3 calls with the modulo of aggregates, the negated sum of a boolean column, and a grouping of no rows |
| `expr_passes` | both rewriters keep values, up to the loss noted; folding keeps all; each is idempotent on what it returned; values are typed | every expression of up to two operators (of `+ - * / AND NOT COUNT`) over a narrow and a boolean column, the zeros of both widths, a wide 1 and FALSE, with shared operands; two rows, with the least narrow integer and nulls; integers of 2 and 3 bits; 2 rounds |
| `schema_cache` | the cache's invariants; every call ends | 2 threads, 2 files, 2 columns, 2 rounds, 1 rewrite |
| `outer_join`, `filtered_groups`, `limited_aggregate`, `zero_product`, `deep_plan` | one statement of the repository's report each, which the code does not keep | the few calls that show it |
| `null_group_key` | what test 32 expects of rows with a null key, which the code does not do | the tables of `group_aggregate` |

Why the bounds are enough. The join looks at one left row and one bucket at a
time; three right rows give a bucket with two rows, a row of another key and a null, and
two left rows give a partner that is taken twice. A plan of four calls holds every pair
and triple of neighbouring nodes the passes look at, with one more around them; the passes look at a node and
its child only. In `expr_passes` two operators are what an identity looks at (NOT of NOT; an operand that just became a
literal), with the least integer one sum overflows, and the second round is the one that finds what the first one's
simplification made constant; what more operators, rounds, rows and bits could change is what the theorems are for. The rounds a plan needs grow with its depth, which is why `deep_plan`
goes to eleven calls, past the cap of ten. Cutting compares neighbours only; four rows give two runs of two, a NaN
between equal keys, and nulls after both; four equal pairs try suffixes up to 4. Four frames give two scans, their join and a filter
above it, a join of a frame with itself, and a frame optimized, kept and built upon while the
one it came from still holds the shared nodes. Two threads are the most a store can race
with, since what a thread does depends on others through one cell of the cache only; one rewrite is enough to
make a cached header stale, and two files to confuse their entries.

`CHECK_DEADLOCK FALSE` stands in each configuration but that of `plan_frames` because each of the other
systems stops: a call returns.

### What the passing runs leave out

`PassesPreserveMeaning` speaks of plans for which `Sound` holds, and only when
`collect_raw()` returns. `Sound` excludes six shapes on which the passes do change the
result. Each is a condition on the plan as built, which names the rule at fault and may hold where that rule does no harm
(a factor of zero beside a column without nulls, a filter above a `group_by` that nothing aggregates by):

| Excluded | The rule | Shown by |
|---|---|---|
| `UnpreservedSide` | a filter goes below a join that keeps the unmatched rows of that side's opposite | `outer_join` |
| `FilteredGroups` | a filter between `group_by` and `aggregate` changes places with the `group_by` | `filtered_groups` |
| `LimitedAggregate` | a limit goes below a select or with_column that aggregates | `limited_aggregate` |
| `ZeroProduct` | `x * 0` becomes `0`, nulls and all | `zero_product` |
| `Narrowed` | a literal of 64 bits is dropped from an expression of 32 bits, whose type and overflow change | no run: `report.tex:104` says INT32 and INT64 give INT64, and `collect()` then has INT32; `NarrowedCellsCongruent`, and for any expression `NarrowedValueCongruent`, say what is kept |
| `Renamed` | a selected expression without alias takes the name of what it simplifies to | no run: `report.tex:577-580` says that the tests of the optimizer assert `collect() == collect_raw()`, which such a plan fails by a name; test 18 has one and compares the number of rows |

A filter that divides is not excluded: moved below a join it may throw on rows the join drops (in `collect` it
does), and `Preserved` allows that and no other difference. A join may leave two columns of one name that is no key: a raw plan
that reads the name throws, and is not compared.

In `ExprPasses` the same two losses are not excluded but tracked. `ValueKept` speaks of expressions that lost nothing,
`NarrowedValueCongruent` of those that lost the width; nothing is said of cells once a factor of zero has
been dropped (`zero_product` shows why). Both let an expression that throws lose the part that does
(`FALSE AND` a division by zero becomes FALSE); `FoldingExact` says that folding never does that.

### Where code and report differ

The six runs that end in a violation each check a sentence of `report.tex` or an assertion of
a test (quoted in `PROJECT.json` under `findings`): predicates are pushed to any side of any join
(381-382); filter and `group_by` are exchanged although filter drops the keys
(397-400); limits pass columns that are not per-row (250-251); `x * 0` is simplified
although null-unsafe rewrites are said to be excluded (229-231); a deep plan does not reach the fixpoint
(261, and test 29). And test 32 (`tests/test_main.cpp:791-806`) groups the keys `eng`, null, `eng` and asserts
one row, where the code, which cuts between `eng` and null, has two: the default build is a Release build, whose
assertions are compiled out, so the test prints OK. `CutExact`, `ImplementsGrouping` and the theorems about them
say what the code does, a group for null; `NullsAddNoGroup` is what the test expects.

Three more were met and have no run: `report.tex:417-420` says a projection is cut to the file's real schema, and the code
cuts it to the cached header, so a column the file has gained since is not read (`LastingDelivered` says which columns
are); and the two of `Narrowed` and `Renamed` above.

## Fairness

`HashJoin!FairSpec` has weak fairness of the whole next-state relation: the call runs in
its caller's thread and waits for nothing. `SchemaCache!FairSpec` has weak fairness of each
thread: the system's scheduler runs a thread that can go on. That is weaker than a fair mutex, and
enough, because each thread takes the mutex at most twice a round. `GroupAggregate!FairSpec` is like the join's.
`PlanFrames!FairSpec` has weak fairness of the walk and the end of a call, for the same reason: `explain` draws in its
caller's thread. That the rounds before it end is bounded by the cap and shown without fairness. `LazyDataFrame` has
no liveness property (its loop is bounded by the cap; `RoundsBounded` and `EachPassSettled` say how it
ends) and no fairness.

## Theorems

All are proved with no assumption but the named ones on constants, which TLC evaluates on
the constants of the runs.

**The join** (`HashJoinProofs`), from `InputsAssumption` (key tables are sequences of rows
whose cells are null or have a text). `IInv` is the conjunction of `TypeOK`, `IndexExact`, `OutputProgress`,
`OutputOrdered` and `MatchedExact`. `OutputExact`, which speaks of the end only, is
not inductive: one must know at every step which owed rows are out, and that is
`OutputProgress` (an owed row is out just when its turn is over). That one needs
`IndexExact` to know that a bucket holds all partners (lemma `BucketIsMatches`), and
`MatchedExact` for the last loop. There is one lemma per action; the appended pair is
handled by `HasAppend` and `OrderedAppend`, steps that output nothing by `QuietProgress`.

**The refinement** (`EquiJoinProofs`, `JoinRefinement`): from `IInv` in both states, an
action that appends maps to `Emit`, the last to `Finish`, a throw to `Fail`, the others to
`Internal` or a stutter. It rests on `UnambiguousKeys`: equal row keys mean equal keys. That is so for
one key column of one type, and for several when no text holds the
separator `\x1f` (cells of two types may have one text, `1` and `"1"`); the code checks neither, and without it the join joins by row key, which is what
`OutputExact` says.

**The grouping** (`GroupAggregateProofs`), from `InputsAssumption` (rows have a cell for each
key, functions a spelling) and `PlaceAssumption` (where a cell sorts is a number, another one for
another cell). Checked invariants that speak of the end of a loop are not inductive, so `IInv` says what holds
in the middle of it:

* `Typed`, `RunsInside`: the cursors, and the runs, are inside the rows (`TypeOK` follows);
* `CutInv`: each run but the open one is complete, that is its rows are alike (`Joined`) and no other row is
  alike to them (`Apart`), which gives `CutExact`. That a new key closes its run for good needs the sort: between
  two rows with the same key every row has it (`Between`, `Gap`); NaN, which equals
  nothing, is alike to no row, and a run of its own;
* `RowsInOrder`, `Ascending`: rows within a run, and runs, are in sorted order;
* `NamesInv`: with each column and function the suffixes taken are 1 up to the number of pairs
  that asked for them (`TakenNames`), so the `do` loop finds a free name in as many tries;
  this gives `NamesExact`;
* `FillInv`: the result rows are the slices of the runs before `g`.

**The refinement of the grouping** (`GroupingProofs`, `AggregateImplementsGrouping`): the sorted rows are all rows,
each once (an injection of a finite set is onto it), so a run is the class of each of its rows
(`RunIsClass`) and the rows output are those of the runs filled (`EmittedRuns`). Then `Fill` and `Whole` map to `Emit`, `Build` to
`Finish`, a throw to `Fail`, the rest to `Internal`.

**The drawing** (`PlanGraphProofs`), for one drawing of any heap in which children come before
their parents, as `DrawInit` says; in the run `plan_frames` the same actions draw heaps that passes made. `Path` says that the calls
under way go from the root down, one child at a time, so addresses get
smaller and no node is entered inside itself. That gives `LinesExact`. `DrawingExact` speaks of the finished
drawing; in the middle, a child is drawn (`Done`) when its parent is written and no call for the parent has it left to do, and
`Edges` says that the edge lines are those of the children drawn, each once. A second visit of a shared
node changes nothing `Done` speaks of, since the first one is over (`ReturnEdges`, by the order in `Path`).

**Frames and passes over shared nodes** (`PlanFramesProofs`), for any files, calls and joins (`CallsAssumption`: a call makes
a node of a type the API has), any bounds on frames and rounds (`MaxAssumption`), an empty plan that is no node (`NothingAssumption`), and
*any* rewriters of expressions, headers and output schemas: these are parameters of `PlanRules`, so what is proved of the
passes does not rest on what they do with an expression. `IInv` says of each state:

* `WellFormed`: every node is one of the nine types with its fields, above its children. Induction over
  plans is then induction over addresses, by the least counterexample (`LeastNumber`);
* `FramesFit`, `OptimizeFits`: frames and the optimizer hold addresses of nodes, and rounds are left while one is under way;
* `CallsFit`: the calls under way go down from the plan, each on the child its caller has reached, and (`Fit`) a result with
  the tree of the child it stands for is that child. The last part is what makes
  "changes nothing" travel up the calls;
* `Drawing`: nothing is drawn but by `explain`, and then the invariant of `PlanGraphProofs` holds.

The lemmas are about helpers on heaps. `UnfoldRule` gives the recursion equation of `Unfold` (a
recursive function, so that the prover can use it), `UnfoldExtends` says that new nodes change no tree. `Makes(h, r, tree)` says that a
helper's result has a heap that extends `h` and the given tree at its address; there is one such lemma for
each helper (`WithKidsMakes`, `WithExprsMakes`, `PushFilterMakes`, `ProjectScanMakes`, `PushLimitMakes`, `RewrittenMakes`), and
`UnchangedAt`, `ChildrenStay` for the calls that change nothing. From them:

* `FramesTyped`: `TypeOK`, which has that plans are acyclic; `FramesLinesExact` and `FramesDrawingExact`:
  drawings are exact when passes have made the plan and other frames share its nodes;
* `NodesAreFinal`: no step writes to a node or frees one a frame holds (`HeapStep`: a heap is extended, or cut above the frames);
* `PassesCopyOnlyChanges`: a pass whose result is the same tree returns the same pointer;
* `FramesAreTrees`: the refinement of `PlanTrees`. Addresses map to their trees (`Unfolded`, and `Treed` for the calls). A call that makes
  a frame maps to `Build` (`ExtendBuilds`), each step of the optimizer to its namesake (`CallReturns` for `ReturnFromCall`, since
  what is returned has the tree the rule makes), `Drop` and `Keep` to `Deliver` (`FinishDelivers`), the drawing to stutters.

**Expressions and their rewriters** (`ExprPassesProofs`), for tables of any size with any columns of their types
(`RowsAssumption`, `TablesAssumption`), integers of any width of which the wide is a multiple of the narrow (`HalfAssumption`), any string
functions and aggregates that return cells of their type (`StringFuncsAssumption`, `AggregatedAssumption`; an aggregate passes an
exception on), a null that is no integer (`NullAssumption`), leaves and operators of the API's kinds (`NodesAssumption`), and
any number of operators and rounds (`MaxAssumption`). The checked invariants speak of the expression between passes, and a pass is
many calls, so `IInv` says what holds in the middle of one:

* `Heap`: each node is above its operands and what is noted of it is computed from theirs; a value is an exception or a
  column of cells of its type (`TypeOK` follows); and a constant node's value is its lone cell in every row (`Uniform`). The
  last part is why one row stands for all when `evalToLit` folds (`SpreadValued`), and it fails for
  columns and aggregates, which is what `isConstant` must exclude;
* `Called`: each call waits for the next operand, and what calls on the first ones returned is kept (`Kept`) up to the loss
  recorded with the call;
* `Recorded`: what calls of a pass have returned is `Settled` (no rule of the pass applies to it) with all that is
  under it, and a call returned another node only where a rule applied or an operand changed. So a call on what
  was returned before finds nothing to change, by the order of addresses: `Idempotent`. For folding it adds that node and result have
  the same value, alone and in every row (`Alike`): `FoldingExact`;
* `Progress`: the plan's expression is kept up to `lost`, which gives `ValueKept` and
  `NarrowedValueCongruent`.

What carries it is one lemma per kind of loss. `TruthKept` has the four identities of Kleene logic with every null, `NumberDropped` those of
arithmetic: `x + 0` is `x` because a cell of its type does not wrap, and up to the width if the literal was wider.
`SameOperated` says that sums, differences, products and negations keep congruence modulo the narrow range, `SumsCongruent` that they do so
when one side wraps around at the narrow width and the other at the wide one: that is where `HalfAssumption` is needed. `KeptThrough` carries
a loss through a node, `KeptTransitive` through rounds, and `SimplifiedKept` puts them together for what `simplifyExpr` returns. Each action has one step lemma.

**The cache** (`SchemaCacheProofs`), for any number of threads, files, columns, rounds
and rewrites, from `NobodyAssumption`, `NeedsAssumption` and `BoundsAssumption`. `IInv` adds to the
checked invariants `Recorded` (the file as it is has been recorded), `RoundsLeft` (bounds the
count of rounds) and `LastingWanted`: a projection, once set, holds every lasting column
that is read. It carries `LastingDelivered` over the steps between planning and reading; the lemmas
`ProjectKeepsLasting` and `PresentKeepsLasting` say why neither an honest
but stale header nor the file of the moment loses one.

**Only model-checked.** `Terminates`, `Finishes` and `DrawingEnds` are liveness, which this prover
does not handle. `PassesAsDefined` compares the calls of a pass with its recursive definition in `QueryOptimizer`, and everything in
`LazyDataFrame` is about recursive operators over trees and expressions: what such an operator computes for
all of them needs an induction over data that is out of the prover's reach, and a module that reaches one has no
theorems. (`PlanFramesProofs` and `ExprPassesProofs` need none: their trees are at addresses, and the induction is over
addresses or over steps.) So that no pass changes what a *plan* returns (`PassesPreserveMeaning`) is model-checked; of its
parts, that expressions keep their values is proved, and that passes over shared nodes do what they do over trees. That the calls of `ExprPasses` return what
the recursive `foldExpr` and `simplifyExpr` do is by their common text in `ExprRules`.
`SettledRoundCopiesNothing` is not true of any `foldExpr` and `simplifyExpr`, one of which might
undo the other; that theirs do not is checked on the run's plans, and `PassesCopyOnlyChanges` is what holds for all.

## Not modelled

Floating point and MEAN; the modulo's detour over double, exact for the integers of the runs; head of a negative number (eager it slices with a
negative length, lazy it may become a scan's `row_limit`, where a negative number means none); frames without a table;
chunks of a column (a choice in `GroupAggregate`, and a constant in `EagerDataFrame`, where they matter: in grouping a table without rows); group keys named like an
aggregate; reading and writing CSV and Parquet, which are calls of Arrow, and the text of headers; the labels of a drawing, the temporary file and the `dot` program; printing; `src/internal`, which the
build does not compile. `SinkNode` is handled by the passes but never made: `sink_csv` collects and writes.

## Plan

1. Done: the optimizer's state machine, the join with its abstract specification, the
   schema cache, and the theorems about the last two.
2. Done: the grouping with its abstract specification, the nodes plans share with theirs, the drawing,
   filters that throw and types that narrow.
3. Done: the theorems about the grouping, its refinement, and the drawing's exactness for plans of any
   shape.
4. Done: passes call by call over shared nodes with their abstract specification, and the theorems about them.
5. Done: the kernels and the rules for expressions without recursion, the two rewriters call by call, and the theorems
   that they keep values.
6. Left: a theorem that execution over shared plan nodes keeps its result under a pass, for which the frames of
   `EagerDataFrame` would have to be noted with each node as values are in `ExprPasses`.
7. If the library grows: a model of `src/internal` once the build compiles it, and of
   reading and writing beyond the header.
