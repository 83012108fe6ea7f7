----------------------------- MODULE PlanFrames -----------------------------
(***************************************************************************)
(* Lazy frames and the optimizer over nodes at addresses: a frame is the   *)
(* address of its root, calls make nodes that point to the plans of other  *)
(* frames, and passes copy the nodes they change and share all others.     *)
(* explain() draws the optimized plan.                                     *)
(***************************************************************************)
EXTENDS PlanRules, PlanGraph

CONSTANTS
    Nothing,     \* the plan of a default-constructed frame
    Paths,       \* the files frames are made of
    Calls,       \* the calls on one frame, as the nodes they make (without the child)
    Joins,       \* the joins of two frames, likewise
    MaxFrames,   \* bound: frames
    MaxRounds    \* the cap of the rounds

\* The fields of a node of each type.
Fields == [scan    |-> {"op", "path", "projected", "row_limit"},
           filter  |-> {"op", "child", "predicate"},
           select  |-> {"op", "child", "exprs"},
           withcol |-> {"op", "child", "column", "expr"},
           groupby |-> {"op", "child", "keys"},
           agg     |-> {"op", "child", "aggs"},
           join    |-> {"op", "child", "right", "on", "how"},
           sort    |-> {"op", "child", "by", "ascending"},
           limit   |-> {"op", "child", "n"}]

IsNode(n) == n.op \in DOMAIN Fields /\ n = [x \in Fields[n.op] |-> n[x]]

ASSUME CallsAssumption ==
    /\ \A c \in Calls : IsNode(c) /\ c.op \notin {"scan", "join"}
    /\ \A j \in Joins : IsNode(j) /\ j.op = "join"

ASSUME NothingAssumption == ~IsNode(Nothing)

ASSUME MaxAssumption == MaxFrames \in Nat \ {0} /\ MaxRounds \in Nat \ {0}

VARIABLES
    frames,         \* plan_ of each frame made so far: an address, 0 for nullptr
    pc,             \* where the call under way is
    current, next,  \* optimize(): addresses, 0 when none is under way
    iter,           \* optimize(): rounds completed
    calls           \* the calls of the pass under way: [at, required, kids], kids the
                    \* addresses that the calls on its first children returned

vars == <<heap, drawn, frames, pc, current, next, iter, calls>>

-----------------------------------------------------------------------------
\* What is at an address: the tree that the plan is when sharing is forgotten.
Unfold(h, a) ==
    LET tree[x \in 0..Len(h)] ==
            IF x = 0 THEN Nothing
            ELSE mapChildren(h[x], [k \in DOMAIN Children(h[x]) |-> tree[Children(h[x])[k]]])
    IN  tree[a]

\* make_shared: a new node.  Each helper returns the heap and the address of its result.
At(h, a)       == [heap |-> h, at |-> a]
Alloc(h, node) == At(Append(h, node), Len(h) + 1)

WithKidsInPlace(h, a, kids) == At([h EXCEPT ![a] = mapChildren(h[a], kids)], a)  \* mutant

\* A node with these children: the node itself if they are its own.
WithKids(h, a, kids) ==
    IF kids = Children(h[a]) THEN At(h, a) ELSE Alloc(h, mapChildren(h[a], kids))

CopyWithExprs(h, a, new) == Alloc(h, rewriteNodeExprs(h[a], new))               \* mutant

WithExprs(h, a, new) ==
    IF new = Exprs(h[a]) THEN At(h, a) ELSE Alloc(h, rewriteNodeExprs(h[a], new))

\* predicatePushdownRec below its mapChildren: a new filter under a copy of the child.
PushFilterAt(h, a) ==
    LET node  == h[a]
        child == h[node.child]
        side  == FilterGoes(Unfold(h, node.child), node.predicate)
        Under(below) == Alloc(h, Filter(below, node.predicate))
    IN  CASE side = "left"  -> LET f == Under(child.child) IN
                               Alloc(f.heap, [child EXCEPT !.child = f.at])
          [] side = "right" -> LET f == Under(child.right) IN
                               Alloc(f.heap, [child EXCEPT !.right = f.at])
          [] OTHER -> At(h, a)

ProjectScanAt(h, a, required) ==
    LET scan == ProjectScan(h[a], required) IN
    IF scan = h[a] THEN At(h, a) ELSE Alloc(h, scan)

\* limitPushdownRec, likewise; a scan with as low a limit is returned as it is.
PushLimitAt(h, a) ==
    LET node  == h[a]
        child == h[node.child]
    IN  CASE child.op \in {"select", "withcol"} ->
                LET l == Alloc(h, Limit(child.child, node.n))
                IN  Alloc(l.heap, [child EXCEPT !.child = l.at])
          [] child.op = "scan" ->
                IF child.row_limit = TighterLimit(child, node.n) THEN At(h, node.child)
                ELSE Alloc(h, [child EXCEPT !.row_limit = TighterLimit(child, node.n)])
          [] OTHER -> At(h, a)

RewrittenAt(pass, h, a, required) ==
    CASE pass = "fold"     -> WithExprs(h, a, Folded(h[a]))
      [] pass = "simplify" -> WithExprs(h, a, Simplified(h[a]))
      [] pass = "predicates" /\ h[a].op = "filter" -> PushFilterAt(h, a)
      [] pass = "projections" /\ h[a].op = "scan"  -> ProjectScanAt(h, a, required)
      [] pass = "limits" /\ h[a].op = "limit"      -> PushLimitAt(h, a)
      [] OTHER -> At(h, a)

-----------------------------------------------------------------------------
Init ==
    /\ heap = <<>> /\ Blank
    /\ frames = <<0>>
    /\ pc = "idle" /\ current = 0 /\ next = 0 /\ iter = 0
    /\ calls = <<>>

\* A call that makes a node, and a frame whose plan it is.
extend(node) ==
    /\ pc = "idle" /\ Len(frames) < MaxFrames
    /\ heap' = Append(heap, node) /\ frames' = Append(frames, Len(heap) + 1)
    /\ UNCHANGED <<drawn, pc, current, next, iter, calls>>

ScanCall == \E p \in Paths : extend(Scan(p))

\* A frame without a plan throws in extend and in join.
NodeCall == \E c \in Calls : \E f \in DOMAIN frames :
                frames[f] # 0 /\ extend([c EXCEPT !.child = frames[f]])

JoinCall == \E j \in Joins : \E f, other \in DOMAIN frames :
                /\ frames[f] # 0 /\ frames[other] # 0
                /\ extend([j EXCEPT !.child = frames[f], !.right = frames[other]])

Optimize ==
    /\ pc = "idle"
    /\ \E f \in DOMAIN frames :
        /\ current' = frames[f] /\ next' = frames[f]
        /\ pc' = IF frames[f] = 0 THEN "optimized" ELSE "fold"
    /\ iter' = 0
    /\ UNCHANGED <<heap, drawn, frames, calls>>

\* A pass: a call on the plan.
Started(a, required) == [at |-> a, required |-> required, kids |-> <<>>]

StartPass ==
    /\ pc \in DOMAIN Following /\ calls = <<>>
    /\ calls' = <<Started(next, {})>>
    /\ UNCHANGED <<heap, drawn, frames, pc, current, next, iter>>

\* The innermost call calls itself on the next child of its node ...
CallOnChild ==
    /\ calls # <<>>
    /\ LET top == Last(calls)
           k   == Len(top.kids) + 1
       IN  /\ k \in DOMAIN Kids(top.at)
           /\ calls' = Append(calls, Started(Kids(top.at)[k],
                                   Asked(pc, Unfold(heap, top.at), k, top.required)))
    /\ UNCHANGED <<heap, drawn, frames, pc, current, next, iter>>

\* ... and after the last child returns the node, a copy with other children, or what the
\* pass makes of either; to its caller or, in the end, to optimize().
ReturnFromCall ==
    /\ calls # <<>>
    /\ LET top    == Last(calls)
           below  == Front(calls)
           here   == WithKids(heap, top.at, top.kids)
           result == RewrittenAt(pc, here.heap, here.at, top.required)
       IN  /\ Len(top.kids) = Len(Kids(top.at))
           /\ heap' = result.heap
           /\ IF below = <<>>
              THEN calls' = <<>> /\ next' = result.at /\ pc' = Following[pc]
              ELSE /\ calls' = [below EXCEPT ![Len(below)].kids = Append(@, result.at)]
                   /\ UNCHANGED <<next, pc>>
    /\ UNCHANGED <<drawn, frames, current, iter>>

\* planEquals: the same address, or equal node by node.
Compare ==
    /\ pc = "compare"
    /\ current' = next /\ iter' = iter + 1
    /\ pc' = IF next = current \/ planEquals(Unfold(heap, next), Unfold(heap, current))
                \/ iter' = MaxRounds
             THEN "optimized" ELSE "fold"
    /\ UNCHANGED <<heap, drawn, frames, next, calls>>

\* explain(): the optimized plan is drawn before it is dropped.
Explain ==
    /\ pc = "optimized" /\ Draw(current) /\ pc' = "drawing"
    /\ UNCHANGED <<frames, current, next, iter, calls>>

WalkStep ==
    /\ pc = "drawing" /\ Walk
    /\ UNCHANGED <<frames, pc, current, next, iter, calls>>

\* The call returns: frames are the frames then, and the nodes only optimize() held are
\* freed, those above the highest address a frame has.
Finish(kept) ==
    /\ pc' = "idle" /\ frames' = kept
    /\ heap' = SubSeq(heap, 1, Max(ToSet(kept)))
    /\ root' = 0 /\ stack' = <<>> /\ emitted' = {} /\ ids' = <<>>
    /\ nodes_out' = <<>> /\ edges_out' = <<>> /\ drawing' = "idle"
    /\ current' = 0 /\ next' = 0 /\ iter' = 0
    /\ UNCHANGED calls

\* The end of collect() and explain(), which execute or draw the plan and drop it.
Drop == (pc = "optimized" \/ drawing = "drawn") /\ Finish(frames)

\* LazyDataFrame(optimize(plan)): a frame is made of the optimized plan.
Keep == pc = "optimized" /\ Len(frames) < MaxFrames /\ Finish(Append(frames, current))

Next == \/ ScanCall \/ NodeCall \/ JoinCall
        \/ Optimize \/ StartPass \/ CallOnChild \/ ReturnFromCall \/ Compare
        \/ Explain \/ WalkStep \/ Drop \/ Keep

Spec == Init /\ [][Next]_vars

\* explain() draws in its caller's thread and waits for nothing.
FairSpec == Spec /\ WF_vars(WalkStep \/ Drop)

-----------------------------------------------------------------------------
\* Every node is above its children (so that plans have no cycle, which their counted
\* pointers would never free), and frames and the optimizer hold addresses of nodes.
TypeOK ==
    /\ \A a \in Addresses : \A k \in DOMAIN Kids(a) : Kids(a)[k] \in 1..a - 1
    /\ {current, next} \cup ToSet(frames) \subseteq Addresses \cup {0}
    /\ pc \in DOMAIN Following \cup {"idle", "compare", "optimized", "drawing"}
    /\ iter \in 0..MaxRounds /\ Len(frames) <= MaxFrames
    /\ calls # <<>> => pc \in DOMAIN Following
    /\ \A x \in DOMAIN calls : /\ calls[x].at \in Addresses
                               /\ ToSet(calls[x].kids) \subseteq Addresses
                               /\ Len(calls[x].kids) <= Len(Kids(calls[x].at))

\* No step writes to a node after it is made, and no node a frame holds is freed: that is
\* why collect() calls of several threads may share nodes without a lock.
NodesFinal ==
    [][/\ \A a \in DOMAIN heap \cap DOMAIN heap' : heap'[a] = heap[a]
       /\ ToSet(frames) \subseteq DOMAIN heap' \cup {0}]_vars

PassReturns == pc \in DOMAIN Following /\ pc' # pc

\* A pass that makes the tree it was given returns the pointer it was given: what it leaves
\* alone it does not copy.
PassCopiesOnlyChanges ==
    [][PassReturns /\ Unfold(heap', next') = Unfold(heap, next) => next' = next]_vars

\* A round that changes nothing copies nothing: it ends with the pointer it began with, so
\* that the comparison of the plans need not look inside.
SettledRoundCopiesNothing ==
    pc = "compare" /\ Unfold(heap, next) = Unfold(heap, current) => next = current

Trees == INSTANCE PlanTrees WITH
    plans   <- [f \in DOMAIN frames |-> Unfold(heap, frames[f])],
    pc      <- IF pc = "drawing" THEN "optimized" ELSE pc,
    current <- Unfold(heap, current),
    next    <- Unfold(heap, next),
    iter    <- iter,
    calls   <- [x \in DOMAIN calls |->
                   [tree |-> Unfold(heap, calls[x].at), required |-> calls[x].required,
                    kids |-> [k \in DOMAIN calls[x].kids |-> Unfold(heap, calls[x].kids[k])]]]

\* Sharing is not observable: with nodes shared, copied and freed, frames are the values that
\* PlanTrees says they are, and each call of a pass returns what it makes of the tree.
ImplementsPlanTrees == Trees!Spec

\* explain() returns: the walk over the plan ends, however its nodes are shared.
DrawingEnds == pc = "drawing" ~> pc = "idle"
=============================================================================
