---------------------------- MODULE LogicalPlan ----------------------------
(***************************************************************************)
(* The nodes of a plan, one shape per node type of LogicalPlan.hpp.  A     *)
(* child is whatever stands for a node: a node where plans are trees, an   *)
(* address where they share nodes.                                         *)
(***************************************************************************)
EXTENDS Integers, Sequences

Scan(p)           == [op |-> "scan", path |-> p, projected |-> <<>>, row_limit |-> -1]
Filter(c, e)      == [op |-> "filter", child |-> c, predicate |-> e]
Select(c, es)     == [op |-> "select", child |-> c, exprs |-> es]
WithCol(c, n, e)  == [op |-> "withcol", child |-> c, column |-> n, expr |-> e]
GroupBy(c, ks)    == [op |-> "groupby", child |-> c, keys |-> ks]
Aggregate(c, as)  == [op |-> "agg", child |-> c, aggs |-> as]
Join(c, r, on, h) == [op |-> "join", child |-> c, right |-> r, on |-> on, how |-> h]
Sort(c, by, asc)  == [op |-> "sort", child |-> c, by |-> by, ascending |-> asc]
Limit(c, n)       == [op |-> "limit", child |-> c, n |-> n]

\* The children of a node, and mapChildren: the node with new ones in their place.
Children(node) ==
    CASE node.op = "scan" -> <<>>
      [] node.op = "join" -> <<node.child, node.right>>
      [] OTHER            -> <<node.child>>

mapChildren(node, new) ==
    CASE node.op = "scan" -> node
      [] node.op = "join" -> [node EXCEPT !.child = new[1], !.right = new[2]]
      [] OTHER            -> [node EXCEPT !.child = new[1]]
=============================================================================
