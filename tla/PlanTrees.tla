----------------------------- MODULE PlanTrees -----------------------------
(***************************************************************************)
(* What lazy frames promise of their plans: each frame is a value, a tree  *)
(* of its own that no call on another frame and no optimization changes,   *)
(* and a pass of the optimizer goes over a tree and makes another.         *)
(***************************************************************************)
EXTENDS PlanRules

CONSTANTS
    Nothing,     \* the plan of a default-constructed frame
    Paths,       \* the files frames are made of
    Calls,       \* the calls on one frame, as the nodes they make (without the child)
    Joins,       \* the joins of two frames, likewise
    MaxFrames,   \* bound: frames
    MaxRounds    \* the cap of the rounds

VARIABLES
    plans,          \* the trees of the frames made so far
    pc,             \* where optimize() is: "idle", a pass, "compare", "optimized"
    current, next,  \* optimize(): the tree the round began with, and what it has become
    iter,           \* optimize(): rounds completed
    calls           \* the calls of the pass under way: [tree, required, kids], kids the
                    \* trees that the calls on its first children returned

vars == <<plans, pc, current, next, iter, calls>>

Init ==
    /\ plans = <<Nothing>>
    /\ pc = "idle" /\ current = Nothing /\ next = Nothing /\ iter = 0
    /\ calls = <<>>

\* The trees a call can make; a call on a frame without a plan throws.
Given == ToSet(plans) \ {Nothing}

Build(tree) ==
    /\ pc = "idle" /\ Len(plans) < MaxFrames
    /\ plans' = Append(plans, tree)
    /\ UNCHANGED <<pc, current, next, iter, calls>>

Optimize ==
    /\ pc = "idle"
    /\ \E f \in DOMAIN plans :
        /\ current' = plans[f] /\ next' = plans[f]
        /\ pc' = IF plans[f] = Nothing THEN "optimized" ELSE "fold"
    /\ iter' = 0
    /\ UNCHANGED <<plans, calls>>

\* The calls on a tree, on the next child of the innermost call's tree, and its return.
Started(tree, required) == [tree |-> tree, required |-> required, kids |-> <<>>]

StartPass ==
    /\ pc \in DOMAIN Following /\ calls = <<>>
    /\ calls' = <<Started(next, {})>>
    /\ UNCHANGED <<plans, pc, current, next, iter>>

CallOnChild ==
    /\ calls # <<>>
    /\ LET top == Last(calls)
           k   == Len(top.kids) + 1
       IN  /\ k \in DOMAIN Children(top.tree)
           /\ calls' = Append(calls, Started(Children(top.tree)[k],
                                             Asked(pc, top.tree, k, top.required)))
    /\ UNCHANGED <<plans, pc, current, next, iter>>

ReturnFromCall ==
    /\ calls # <<>>
    /\ LET top    == Last(calls)
           below  == Front(calls)
           result == Rewritten(pc, mapChildren(top.tree, top.kids), top.required)
       IN  /\ Len(top.kids) = Len(Children(top.tree))
           /\ IF below = <<>>
              THEN calls' = <<>> /\ next' = result /\ pc' = Following[pc]
              ELSE /\ calls' = [below EXCEPT ![Len(below)].kids = Append(@, result)]
                   /\ UNCHANGED <<next, pc>>
    /\ UNCHANGED <<plans, current, iter>>

Compare ==
    /\ pc = "compare"
    /\ current' = next /\ iter' = iter + 1
    /\ pc' = IF planEquals(next, current) \/ iter' = MaxRounds THEN "optimized" ELSE "fold"
    /\ UNCHANGED <<plans, next, calls>>

\* The optimized plan is executed or drawn and dropped, or a caller that used the
\* optimizer itself makes a frame of it.
Deliver ==
    /\ pc = "optimized" /\ pc' = "idle"
    /\ plans' \in {plans, Append(plans, current)}
    /\ current' = Nothing /\ next' = Nothing /\ iter' = 0
    /\ UNCHANGED calls

Next == \/ \E p \in Paths : Build(Scan(p))
        \/ \E c \in Calls, t \in Given : Build([c EXCEPT !.child = t])
        \/ \E j \in Joins, t, u \in Given : Build([j EXCEPT !.child = t, !.right = u])
        \/ Optimize \/ StartPass \/ CallOnChild \/ ReturnFromCall \/ Compare \/ Deliver

Spec == Init /\ [][Next]_vars
=============================================================================
