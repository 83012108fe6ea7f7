----------------------------- MODULE PlanGraph -----------------------------
(***************************************************************************)
(* renderDotGraph: the depth-first walk that writes one line for each node *)
(* of a plan and one for each edge.  Plans share nodes, so the walk meets a*)
(* node several times.  The text of a line is left out.                    *)
(***************************************************************************)
EXTENDS LogicalPlan

VARIABLES
    heap,       \* the nodes, by address; children are addresses
    root,       \* the address of the plan that is drawn, 0 for an empty one
    stack,      \* the calls of walk under way: [node, kid], kid = 0 on entry
    emitted,    \* addresses of the nodes written
    ids,        \* IdAssigner: address -> number
    nodes_out,  \* the node lines: [id, node]
    edges_out,  \* the edge lines: [from, to, right], numbers of nodes
    drawing     \* "idle", "walking" or "drawn"

drawn     == <<root, stack, emitted, ids, nodes_out, edges_out, drawing>>
drawVars  == <<heap, drawn>>

Addresses  == 1..Len(heap)
Kids(a)    == Children(heap[a])

\* A node is made after its children, and they are not changed later.
IsHeap ==
    /\ heap \in Seq({heap[a] : a \in DOMAIN heap})
    /\ \A a \in Addresses : \A k \in 1..Len(Kids(a)) : Kids(a)[k] \in 1..a - 1

Blank ==
    /\ root = 0 /\ stack = <<>> /\ emitted = {} /\ ids = <<>>
    /\ nodes_out = <<>> /\ edges_out = <<>> /\ drawing = "idle"

DrawInit == IsHeap /\ Blank

\* renderDotGraph(r); the drawing of an empty plan is a line of its own.
Draw(r) ==
    /\ drawing = "idle"
    /\ root' = r
    /\ IF r = 0 THEN drawing' = "drawn" /\ UNCHANGED stack
       ELSE drawing' = "walking" /\ stack' = <<[node |-> r, kid |-> 0]>>
    /\ UNCHANGED <<heap, emitted, ids, nodes_out, edges_out>>

Top   == stack[Len(stack)]
Below == SubSeq(stack, 1, Len(stack) - 1)

idOf(a) == [x \in DOMAIN ids \cup {a} |-> IF x \in DOMAIN ids THEN ids[x] ELSE Len(nodes_out)]

EnterAgain ==                                                              \* mutant
    /\ drawing = "walking" /\ Top.kid = 0
    /\ emitted' = emitted \cup {Top.node}
    /\ ids' = idOf(Top.node)
    /\ nodes_out' = Append(nodes_out, [id |-> ids'[Top.node], node |-> Top.node])
    /\ stack' = Append(Below, [Top EXCEPT !.kid = 1])
    /\ UNCHANGED <<heap, root, edges_out, drawing>>

\* A call that finds its node unwritten numbers it, writes it, and turns to its children.
Enter ==
    /\ drawing = "walking" /\ Top.kid = 0 /\ Top.node \notin emitted
    /\ emitted' = emitted \cup {Top.node}
    /\ ids' = idOf(Top.node)
    /\ nodes_out' = Append(nodes_out, [id |-> ids'[Top.node], node |-> Top.node])
    /\ stack' = Append(Below, [Top EXCEPT !.kid = 1])
    /\ UNCHANGED <<heap, root, edges_out, drawing>>

SkipWritten ==                                                             \* mutant
    /\ drawing = "walking" /\ Top.kid \in 1..Len(Kids(Top.node))
    /\ stack' = IF Kids(Top.node)[Top.kid] \in emitted
                THEN Append(Below, [Top EXCEPT !.kid = @ + 1])
                ELSE Append(stack, [node |-> Kids(Top.node)[Top.kid], kid |-> 0])
    /\ UNCHANGED <<heap, root, emitted, ids, nodes_out, edges_out, drawing>>

Descend ==
    /\ drawing = "walking" /\ Top.kid \in 1..Len(Kids(Top.node))
    /\ stack' = Append(stack, [node |-> Kids(Top.node)[Top.kid], kid |-> 0])
    /\ UNCHANGED <<heap, root, emitted, ids, nodes_out, edges_out, drawing>>

\* A call returns at once from a node that is written, else after its children.
Returns ==
    \/ Top.kid = 0 /\ Top.node \in emitted
    \/ Top.kid > Len(Kids(Top.node))

ReturnToSameChild ==                                                       \* mutant
    /\ drawing = "walking" /\ Returns
    /\ stack' = Below
    /\ IF Below = <<>> THEN drawing' = "drawn" ELSE UNCHANGED drawing
    /\ UNCHANGED <<heap, root, emitted, ids, nodes_out, edges_out>>

\* Its caller then writes the edge and turns to its next child.
Return ==
    /\ drawing = "walking" /\ Returns
    /\ IF Below = <<>>
       THEN drawing' = "drawn" /\ stack' = <<>> /\ UNCHANGED edges_out
       ELSE LET caller == Below[Len(Below)] IN
            /\ edges_out' = Append(edges_out, [from  |-> ids[Top.node], to |-> ids[caller.node],
                                               right |-> caller.kid = 2])
            /\ stack' = [Below EXCEPT ![Len(Below)].kid = @ + 1]
            /\ UNCHANGED drawing
    /\ UNCHANGED <<heap, root, emitted, ids, nodes_out>>

Walk == Enter \/ Descend \/ Return

DrawNext == (\E r \in Addresses \cup {0} : Draw(r)) \/ Walk

DrawSpec == DrawInit /\ [][DrawNext]_drawVars

-----------------------------------------------------------------------------
\* The lines are numbered from 0 in their order, one for each node written, and each but
\* the first is of a child of a node above it: no unreachable node is drawn.
LinesExact ==
    /\ \A x \in 1..Len(nodes_out) : nodes_out[x].id = x - 1 /\ ids[nodes_out[x].node] = x - 1
    /\ emitted = {nodes_out[x].node : x \in 1..Len(nodes_out)}
    /\ nodes_out # <<>> => nodes_out[1].node = root
    /\ \A x \in 2..Len(nodes_out) : \E y \in 1..x - 1 :
          \E k \in 1..Len(Kids(nodes_out[y].node)) : Kids(nodes_out[y].node)[k] = nodes_out[x].node

\* The edge that the k-th child of a written node gives.
EdgeOf(a, k) == [from |-> ids[Kids(a)[k]], to |-> ids[a], right |-> k = 2]

\* The finished drawing is the plan: it has the root, with every node all its children, and
\* the edges of the nodes it has, each once; also where both sides of a join are one node.
DrawingExact ==
    drawing = "drawn" =>
        /\ emitted = {} <=> root = 0
        /\ \A a \in emitted : \A k \in 1..Len(Kids(a)) : Kids(a)[k] \in emitted
        /\ {edges_out[x] : x \in 1..Len(edges_out)} =
               UNION {{EdgeOf(a, k) : k \in 1..Len(Kids(a))} : a \in emitted}
        /\ \A x, y \in 1..Len(edges_out) : x # y => edges_out[x] # edges_out[y]
=============================================================================
