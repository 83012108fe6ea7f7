---------------------------- MODULE MCPlanFrames ----------------------------
(***************************************************************************)
(* Small instances of PlanFrames: two files, one call for each way a pass  *)
(* moves or changes a node, and joins of any two frames (also of one frame *)
(* with itself).                                                           *)
(***************************************************************************)
EXTENDS PlanFrames

CONSTANTS Null, Half, StringFuncs, Rank, GroupsNoRows, Files

Opt == INSTANCE QueryOptimizer

MCfoldedExpr(e)     == Opt!foldExpr(e)
MCsimplifiedExpr(e) == Opt!simplifyExpr(e)
MCrefsOf(e)         == Opt!colRefs(e)
MCheaderOf(path)    == Opt!header(path)
MCcolumnsOf(t)      == Opt!outputColumns(t)
MCinOrder(names)    == Opt!sorted(names)

\* The calls of a pass, one by one, make of a plan what the pass is defined to make of it.
PassesAsDefined ==
    [][PassReturns => Unfold(heap', next') = Opt!runPass(pc, Unfold(heap, next))]_vars

MCHalf == [INT32 |-> 32, INT64 |-> 128]
MCRank == [a |-> 1, b |-> 2, k |-> 3]
MCStringFuncs == <<>>
MCNothing == [op |-> "nothing"]

MCFiles ==
    [l |-> << [name |-> "a", ty |-> "INT64", v |-> <<2>>], [name |-> "k", ty |-> "INT64", v |-> <<1>>] >>,
     r |-> << [name |-> "b", ty |-> "INT64", v |-> <<5>>], [name |-> "k", ty |-> "INT64", v |-> <<1>>] >>]
MCPaths == {"l", "r"}

\* A filter that folds and can be pushed to the side with a; a select that simplifies and
\* narrows the scan; a grouping by the column the filter reads; a limit.
MCCalls ==
    { Filter(0, Opt!Bin("GT", Opt!Col("a"), Opt!Bin("SUB", Opt!Lit32(3), Opt!Lit32(2)))),
      Select(0, <<Opt!Alias(Opt!Bin("ADD", Opt!Col("k"), Opt!Lit32(0)), "k")>>),
      GroupBy(0, <<"a">>), Limit(0, 1) }
MCJoins == { Join(0, 0, <<"k">>, "inner") }
=============================================================================
