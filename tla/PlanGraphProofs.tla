--------------------------- MODULE PlanGraphProofs ---------------------------
(***************************************************************************)
(* Theorems about PlanGraph, for plans of every shape.                     *)
(***************************************************************************)
EXTENDS PlanGraph, SequenceTheorems, TLAPS

Call == [node : Addresses, kid : Nat]
Line == [id : Nat, node : Addresses]
Edge == [from : Nat, to : Nat, right : BOOLEAN]

Typed ==
    /\ IsHeap
    /\ root \in Addresses \cup {0}
    /\ drawing \in {"idle", "walking", "drawn"}
    /\ stack \in Seq(Call) /\ emitted \subseteq Addresses
    /\ ids \in [emitted -> Nat]
    /\ nodes_out \in Seq(Line) /\ edges_out \in Seq(Edge)
    /\ drawing = "walking" <=> stack # <<>>
    /\ drawing = "idle" => root = 0
    /\ root = 0 => emitted = {} /\ stack = <<>>
    /\ drawing = "drawn" /\ root # 0 => emitted # {}

\* Each call under way but the last is at the child that the next one walks; a call that has
\* begun with the children has written its node; so the nodes get smaller.
Path ==
    /\ stack # <<>> => stack[1].node = root
    /\ \A x \in 1..Len(stack) - 1 : /\ stack[x].kid \in 1..Len(Kids(stack[x].node))
                                    /\ Kids(stack[x].node)[stack[x].kid] = stack[x + 1].node
    /\ \A x \in 1..Len(stack) : stack[x].kid > 0 => stack[x].node \in emitted
    /\ \A x, y \in 1..Len(stack) : x < y => stack[y].node < stack[x].node

\* The k-th child of a is drawn: a is written, and no call for it still has that child to do.
Done(a, k) ==
    /\ a \in emitted /\ k \in 1..Len(Kids(a))
    /\ \A x \in 1..Len(stack) : stack[x].node = a /\ stack[x].kid > 0 => k < stack[x].kid

\* The edges are those of the children that are drawn, each once.
Edges ==
    /\ \A a \in Addresses, k \in 1..2 : Done(a, k) => Kids(a)[k] \in emitted
    /\ \A a \in Addresses, k \in 1..2 :
          Done(a, k) => \E x \in 1..Len(edges_out) : edges_out[x] = EdgeOf(a, k)
    /\ \A x \in 1..Len(edges_out) : \E a \in Addresses, k \in 1..2 :
          Done(a, k) /\ edges_out[x] = EdgeOf(a, k)
    /\ \A x, y \in 1..Len(edges_out) : x # y => edges_out[x] # edges_out[y]

-----------------------------------------------------------------------------
LEMMA OneOrMore == ASSUME NEW m \in Nat, m >= 1 PROVE m = 1 \/ m > 1
  OBVIOUS

LEMMA AppendFacts ==
    ASSUME NEW S, NEW s \in Seq(S), NEW e \in S
    PROVE  /\ Append(s, e) \in Seq(S) /\ Append(s, e) # <<>>
           /\ Len(s) \in Nat
           /\ Len(Append(s, e)) = Len(s) + 1
           /\ \A x \in 1..Len(s) : Append(s, e)[x] = s[x]
           /\ Append(s, e)[Len(s) + 1] = e
  OBVIOUS

\* A node has at most two children.
LEMMA KidsFacts ==
    ASSUME IsHeap, NEW a \in Addresses
    PROVE  /\ Len(Kids(a)) \in 0..2
           /\ \A k \in 1..Len(Kids(a)) : k \in 1..2 /\ Kids(a)[k] \in Addresses /\ Kids(a)[k] < a
<1>1. Kids(a) = <<>> \/ (\E x : Kids(a) = <<x>>) \/ \E x, y : Kids(a) = <<x, y>>
  BY DEF Kids, Children
<1>2. Len(Kids(a)) \in 0..2
  BY <1>1
<1>3. Len(heap) \in Nat
  BY DEF IsHeap
<1>4. \A k \in 1..Len(Kids(a)) : Kids(a)[k] \in 1..a - 1
  BY DEF IsHeap
<1> QED
  BY <1>2, <1>3, <1>4 DEF Addresses

\* The call that is under way and those below it.
LEMMA StackFacts ==
    ASSUME Typed, stack # <<>>
    PROVE  /\ Len(stack) \in Nat /\ Len(stack) >= 1
           /\ Top \in Call /\ Top = stack[Len(stack)]
           /\ \A x \in 1..Len(stack) : stack[x] \in Call
           /\ Below \in Seq(Call) /\ Len(Below) = Len(stack) - 1
           /\ \A x \in 1..Len(stack) - 1 : Below[x] = stack[x]
<1>1. stack \in Seq(Call) /\ Len(stack) \in Nat
  BY DEF Typed
<1>2. Len(stack) >= 1
  BY <1>1
<1>3. \A x \in 1..Len(stack) : stack[x] \in Call
  BY <1>1
<1>4. Below \in Seq(Call) /\ Len(Below) = Len(stack) - 1
      /\ \A x \in 1..Len(stack) - 1 : Below[x] = stack[x]
  <2>1. \A x \in 1..Len(stack) - 1 : stack[x] \in Call
    BY <1>1, <1>3
  <2> DEFINE m == Len(stack) - 1
  <2>2. m \in Nat
    BY <1>1, <1>2
  <2>3. \A x \in 1..m : stack[x] \in Call
    BY <2>1
  <2> HIDE DEF m
  <2>4. /\ SubSeq(stack, 1, m) \in Seq(Call)
        /\ Len(SubSeq(stack, 1, m)) = IF 1 <= m THEN m - 1 + 1 ELSE 0
        /\ \A x \in 1..m - 1 + 1 : SubSeq(stack, 1, m)[x] = stack[1 + x - 1]
    BY <2>2, <2>3, SubSeqProperties
  <2>5. /\ Len(SubSeq(stack, 1, m)) = m
        /\ \A x \in 1..m : SubSeq(stack, 1, m)[x] = stack[x]
    BY <2>2, <2>4
  <2> QED
    BY <2>4, <2>5 DEF Below, m
<1> QED
  BY <1>1, <1>2, <1>3, <1>4 DEF Top

-----------------------------------------------------------------------------
\* What each step of the walk does to the calls under way.
LEMMA EnterFacts ==
    ASSUME Typed, Enter
    PROVE  /\ stack # <<>> /\ stack' \in Seq(Call) /\ stack' # <<>> /\ Len(stack') = Len(stack)
           /\ \A x \in 1..Len(stack) - 1 : stack'[x] = stack[x]
           /\ stack'[Len(stack)].node = Top.node /\ stack'[Len(stack)].kid = 1
<1>1. stack # <<>>
  BY DEF Typed, Enter
<1> DEFINE c == [Top EXCEPT !.kid = 1]
<1>2. /\ Len(stack) \in Nat /\ Len(stack) >= 1 /\ Top \in Call
      /\ Below \in Seq(Call) /\ Len(Below) = Len(stack) - 1
      /\ \A x \in 1..Len(stack) - 1 : Below[x] = stack[x]
  BY <1>1, StackFacts
<1>3. c \in Call /\ c.node = Top.node /\ c.kid = 1
  BY <1>2 DEF Call
<1>4. stack' = Append(Below, c)
  BY DEF Enter
<1> HIDE DEF c
<1>5. /\ stack' \in Seq(Call) /\ stack' # <<>> /\ Len(stack') = Len(Below) + 1
      /\ \A x \in 1..Len(Below) : stack'[x] = Below[x]
      /\ stack'[Len(Below) + 1] = c
  BY <1>2, <1>3, <1>4, AppendFacts
<1>6. Len(Below) + 1 = Len(stack)
  BY <1>2
<1> QED
  BY <1>1, <1>2, <1>3, <1>5, <1>6

LEMMA DescendFacts ==
    ASSUME Typed, Descend
    PROVE  /\ stack # <<>> /\ stack' \in Seq(Call) /\ stack' # <<>> /\ Len(stack') = Len(stack) + 1
           /\ \A x \in 1..Len(stack) : stack'[x] = stack[x]
           /\ stack'[Len(stack) + 1].node = Kids(Top.node)[Top.kid]
           /\ stack'[Len(stack) + 1].kid = 0
           /\ Top.kid \in 1..Len(Kids(Top.node))
           /\ Kids(Top.node)[Top.kid] \in Addresses /\ Kids(Top.node)[Top.kid] < Top.node
<1>1. stack # <<>> /\ stack \in Seq(Call) /\ IsHeap
  BY DEF Typed, Descend
<1> DEFINE c == [node |-> Kids(Top.node)[Top.kid], kid |-> 0]
<1>2. Top \in Call /\ Top.kid \in 1..Len(Kids(Top.node))
  BY <1>1, StackFacts DEF Descend
<1>3. Top.node \in Addresses
  BY <1>2 DEF Call
<1>4. Kids(Top.node)[Top.kid] \in Addresses /\ Kids(Top.node)[Top.kid] < Top.node
  BY <1>1, <1>2, <1>3, KidsFacts
<1>5. c \in Call /\ c.node = Kids(Top.node)[Top.kid] /\ c.kid = 0
  BY <1>4 DEF Call
<1>6. stack' = Append(stack, c)
  BY DEF Descend
<1> HIDE DEF c
<1> QED
  BY <1>1, <1>2, <1>4, <1>5, <1>6, AppendFacts

LEMMA ReturnFacts ==
    ASSUME Typed, Return
    PROVE  /\ stack # <<>> /\ stack' \in Seq(Call)
           /\ Len(stack) = 1 => stack' = <<>>
           /\ Len(stack) > 1 =>
                 /\ Len(stack') = Len(stack) - 1 /\ Below # <<>>
                 /\ Below[Len(Below)] = stack[Len(stack) - 1]
                 /\ \A x \in 1..Len(stack) - 2 : stack'[x] = stack[x]
                 /\ stack'[Len(stack) - 1].node = stack[Len(stack) - 1].node
                 /\ stack'[Len(stack) - 1].kid = stack[Len(stack) - 1].kid + 1
           /\ Len(stack) = 1 <=> Below = <<>>
<1>1. stack # <<>>
  BY DEF Typed, Return
<1>2. /\ Len(stack) \in Nat /\ Len(stack) >= 1
      /\ \A x \in 1..Len(stack) : stack[x] \in Call
      /\ Below \in Seq(Call) /\ Len(Below) = Len(stack) - 1
      /\ \A x \in 1..Len(stack) - 1 : Below[x] = stack[x]
  BY <1>1, StackFacts
<1>3. Len(stack) = 1 <=> Below = <<>>
  BY <1>2
<1>4. CASE Len(stack) = 1
  BY <1>1, <1>2, <1>3, <1>4 DEF Return
<1>5. CASE Len(stack) > 1
  <2> DEFINE m == Len(stack) - 1
             c == [stack[m] EXCEPT !.kid = @ + 1]
  <2>1. m \in Nat /\ m >= 1 /\ m \in 1..Len(stack) /\ Below[m] = stack[m] /\ Len(Below) = m
    BY <1>2, <1>5
  <2>2. stack[m] \in Call
    BY <1>2, <2>1
  <2>3. c \in Call /\ c.node = stack[m].node /\ c.kid = stack[m].kid + 1
    BY <2>2 DEF Call
  <2>4. stack' = [Below EXCEPT ![Len(Below)].kid = @ + 1]
    <3>1. Below # <<>>
      BY <1>2, <1>3, <1>5
    <3> QED
      BY <3>1 DEF Return
  <2>5. stack' = [Below EXCEPT ![m] = c]
    <3>1. stack' = [Below EXCEPT ![m] = [Below[m] EXCEPT !.kid = Below[m].kid + 1]]
      BY <2>1, <2>4
    <3>2. c = [Below[m] EXCEPT !.kid = Below[m].kid + 1]
      BY <2>1
    <3> HIDE DEF c, m
    <3> QED
      BY <3>1, <3>2
  <2> HIDE DEF m, c
  <2>6. stack' \in Seq(Call) /\ Len(stack') = m /\ stack'[m] = c
        /\ \A x \in 1..m : x # m => stack'[x] = Below[x]
    <3>1. Below \in [1..m -> Call]
      BY <1>2, <2>1
    <3>2. stack' \in [1..m -> Call] /\ stack'[m] = c
          /\ \A x \in 1..m : x # m => stack'[x] = Below[x]
      BY <3>1, <2>1, <2>3, <2>5
    <3> QED
      BY <3>2, <2>1
  <2>7. \A x \in 1..m - 1 : stack'[x] = stack[x]
    BY <1>2, <2>1, <2>6 DEF m
  <2>8. m - 1 = Len(stack) - 2
    BY <1>2 DEF m
  <2> QED
    BY <1>1, <1>2, <1>3, <1>5, <2>1, <2>3, <2>6, <2>7, <2>8 DEF m
<1> QED
  BY <1>2, <1>4, <1>5

-----------------------------------------------------------------------------
\* Types.

LEMMA TypedInit == DrawInit => Typed /\ Path /\ LinesExact /\ Edges
<1> SUFFICES ASSUME DrawInit PROVE Typed /\ Path /\ LinesExact /\ Edges
  OBVIOUS
<1>1. Len(<<>>) = 0 /\ DOMAIN <<>> = {} /\ <<>> \in [{} -> Nat]
  OBVIOUS
<1>2. Typed
  BY <1>1 DEF DrawInit, Blank, Typed
<1>3. Path /\ LinesExact
  BY <1>1 DEF DrawInit, Blank, Path, LinesExact
<1>4. Edges
  BY <1>1 DEF DrawInit, Blank, Edges, Done
<1> QED
  BY <1>2, <1>3, <1>4

\* A step does not touch the nodes.
LEMMA Fixed ==
    ASSUME UNCHANGED heap
    PROVE  /\ Addresses' = Addresses /\ (IsHeap' <=> IsHeap)
           /\ \A a : Kids(a)' = Kids(a)
           /\ Call' = Call /\ Line' = Line /\ Edge' = Edge
  BY DEF Addresses, IsHeap, Kids, Call, Line, Edge

\* A call that returns has its node written; its caller, if it has one, writes the edge.
LEMMA Returning ==
    ASSUME Typed, Path, Return
    PROVE  /\ Top.node \in emitted
           /\ Len(stack) > 1 =>
                LET c == stack[Len(stack) - 1]
                IN  /\ c \in Call /\ c.node \in emitted
                    /\ c.kid \in 1..Len(Kids(c.node)) /\ Kids(c.node)[c.kid] = Top.node
                    /\ edges_out' = Append(edges_out, EdgeOf(c.node, c.kid))
                    /\ EdgeOf(c.node, c.kid) \in Edge /\ UNCHANGED drawing
           /\ Len(stack) = 1 => drawing' = "drawn" /\ stack' = <<>> /\ UNCHANGED edges_out
           /\ UNCHANGED <<heap, root, emitted, ids, nodes_out>>
<1>1. /\ stack # <<>> /\ stack' \in Seq(Call) /\ Len(stack) \in Nat /\ Len(stack) >= 1
      /\ Top \in Call /\ Top = stack[Len(stack)] /\ \A x \in 1..Len(stack) : stack[x] \in Call
  BY ReturnFacts, StackFacts
<1>2. Top.node \in emitted
  <2>1. Top.kid = 0 \/ Top.kid > 0
    BY <1>1 DEF Call
  <2>2. Top.kid > 0 => Top.node \in emitted
    BY <1>1 DEF Path
  <2>3. Len(Kids(Top.node)) \in 0..2
    BY <1>1, KidsFacts DEF Typed, Call
  <2> QED
    BY <1>1, <2>1, <2>2, <2>3 DEF Return, Returns, Call
<1>3. CASE Len(stack) = 1
  BY <1>1, <1>2, <1>3, ReturnFacts DEF Return
<1>4. CASE Len(stack) > 1
  <2> DEFINE c == stack[Len(stack) - 1]
  <2>1. Below # <<>> /\ Below[Len(Below)] = c
    BY <1>4, ReturnFacts
  <2>2. c \in Call /\ Len(stack) - 1 \in 1..Len(stack) - 1 /\ Len(stack) - 1 \in 1..Len(stack)
        /\ stack[(Len(stack) - 1) + 1] = Top
    BY <1>1, <1>4
  <2>3. c.kid \in 1..Len(Kids(c.node)) /\ Kids(c.node)[c.kid] = Top.node
    BY <2>2 DEF Path
  <2>4. c.kid > 0
    BY <2>2, <2>3 DEF Call
  <2>5. c.node \in emitted
    BY <2>2, <2>4 DEF Path
  <2> HIDE DEF c
  <2>6. /\ edges_out' = Append(edges_out, [from |-> ids[Top.node], to |-> ids[c.node], right |-> c.kid = 2])
        /\ UNCHANGED drawing
    BY <2>1 DEF Return
  <2>7. EdgeOf(c.node, c.kid) = [from |-> ids[Top.node], to |-> ids[c.node], right |-> c.kid = 2]
    BY <2>3 DEF EdgeOf
  <2>8. EdgeOf(c.node, c.kid) \in Edge
    BY <2>7, <1>2, <2>5 DEF Edge, Typed
  <2> QED
    BY <1>2, <1>4, <2>2, <2>3, <2>5, <2>6, <2>7, <2>8 DEF Return, c
<1>5. Len(stack) = 1 \/ Len(stack) > 1
  BY <1>1, OneOrMore
<1> QED
  BY <1>3, <1>4, <1>5

LEMMA TypedStep == Typed /\ Path /\ [DrawNext]_drawVars => Typed'
<1> SUFFICES ASSUME Typed, Path, [DrawNext]_drawVars PROVE Typed'
  OBVIOUS
<1>0. UNCHANGED heap
  BY DEF DrawNext, Draw, Walk, Enter, Descend, Return, drawVars
<1>1. ASSUME NEW r \in Addresses \cup {0}, Draw(r) PROVE Typed'
  <2>1. r # 0 => <<[node |-> r, kid |-> 0]>> \in Seq(Call) /\ <<[node |-> r, kid |-> 0]>> # <<>>
    BY DEF Call
  <2>2. stack = <<>> /\ emitted = {}
    BY <1>1 DEF Draw, Typed
  <2>3. UNCHANGED <<emitted, ids, nodes_out, edges_out>>
    BY <1>1 DEF Draw
  <2>4. CASE r = 0
    <3>1. root' = 0 /\ drawing' = "drawn" /\ stack' = <<>>
      BY <1>1, <2>2, <2>4 DEF Draw
    <3> QED
      BY <1>0, <2>2, <2>3, <3>1, Fixed DEF Typed
  <2>5. CASE r # 0
    <3>1. root' = r /\ drawing' = "walking" /\ stack' \in Seq(Call) /\ stack' # <<>>
      BY <1>1, <2>1, <2>5 DEF Draw
    <3> QED
      BY <1>0, <1>1, <2>3, <2>5, <3>1, Fixed DEF Typed
  <2> QED
    BY <2>4, <2>5
<1>2. CASE Enter
  <2>1. stack' \in Seq(Call) /\ stack' # <<>> /\ stack # <<>>
    BY <1>2, EnterFacts
  <2>2. Top.node \in Addresses
    BY <2>1, StackFacts DEF Call
  <2>3. Len(nodes_out) \in Nat /\ emitted' = emitted \cup {Top.node}
    BY <1>2 DEF Typed, Enter
  <2>4. ids' = [x \in emitted \cup {Top.node} |-> IF x \in emitted THEN ids[x] ELSE Len(nodes_out)]
    BY <1>2 DEF Enter, idOf, Typed
  <2>5. ids' \in [emitted' -> Nat] /\ ids'[Top.node] \in Nat
    BY <2>3, <2>4 DEF Typed
  <2>6. nodes_out' \in Seq(Line)
    <3>1. [id |-> ids'[Top.node], node |-> Top.node] \in Line
      BY <2>2, <2>5 DEF Line
    <3> QED
      BY <3>1, <1>2, AppendFacts DEF Enter, Typed
  <2> QED
    BY <1>0, <1>2, <2>1, <2>2, <2>3, <2>5, <2>6, Fixed DEF Enter, Typed
<1>3. CASE Descend
  <2>1. stack' \in Seq(Call) /\ stack' # <<>> /\ stack # <<>>
    BY <1>3, DescendFacts
  <2> QED
    BY <1>0, <1>3, <2>1, Fixed DEF Descend, Typed
<1>4. CASE Return
  <2>1. /\ stack # <<>> /\ stack' \in Seq(Call) /\ Len(stack) \in Nat /\ Len(stack) >= 1
    BY <1>4, ReturnFacts, StackFacts
  <2>2. Top.node \in emitted /\ UNCHANGED <<heap, root, emitted, ids, nodes_out>>
    BY <1>4, Returning
  <2>3. CASE Len(stack) = 1
    <3>1. stack' = <<>> /\ drawing' = "drawn" /\ UNCHANGED edges_out
      BY <2>3, <1>4, Returning
    <3> QED
      BY <1>0, <2>1, <2>2, <3>1, Fixed DEF Typed
  <2>4. CASE Len(stack) > 1
    <3> DEFINE e == EdgeOf(stack[Len(stack) - 1].node, stack[Len(stack) - 1].kid)
    <3>1. edges_out' = Append(edges_out, e) /\ e \in Edge /\ UNCHANGED drawing
      BY <2>4, <1>4, Returning
    <3>2. stack' # <<>>
      <4>1. Len(stack') = Len(stack) - 1
        BY <2>4, <1>4, ReturnFacts
      <4> QED
        BY <2>1, <2>4, <4>1
    <3> HIDE DEF e
    <3>3. edges_out' \in Seq(Edge)
      BY <3>1, AppendFacts DEF Typed
    <3>4. drawing = "walking"
      BY <1>4 DEF Return
    <3> QED
      BY <1>0, <2>1, <2>2, <3>1, <3>2, <3>3, <3>4, Fixed DEF Typed
  <2>5. Len(stack) = 1 \/ Len(stack) > 1
    BY <2>1, OneOrMore
  <2> QED
    BY <2>3, <2>4, <2>5
<1>5. CASE UNCHANGED drawVars
  BY <1>0, <1>5, Fixed DEF drawVars, drawn, Typed
<1> QED
  BY <1>1, <1>2, <1>3, <1>4, <1>5 DEF DrawNext, Walk

-----------------------------------------------------------------------------
\* The calls under way.

LEMMA PathStep == Typed /\ Path /\ [DrawNext]_drawVars => Path'
<1> SUFFICES ASSUME Typed, Path, [DrawNext]_drawVars PROVE Path'
  OBVIOUS
<1>0. UNCHANGED heap
  BY DEF DrawNext, Draw, Walk, Enter, Descend, Return, drawVars
<1>K. \A a : Kids(a)' = Kids(a)
  BY <1>0, Fixed
<1>1. ASSUME NEW r \in Addresses \cup {0}, Draw(r) PROVE Path'
  <2>1. stack = <<>>
    BY <1>1 DEF Draw, Typed
  <2>2. CASE r = 0
    <3>1. stack' = <<>> /\ Len(<<>>) = 0
      BY <1>1, <2>1, <2>2 DEF Draw
    <3> QED
      BY <3>1 DEF Path
  <2>3. CASE r # 0
    <3> DEFINE c == [node |-> r, kid |-> 0]
    <3>1. root' = r /\ stack' = <<c>> /\ c.node = r /\ c.kid = 0
      BY <1>1, <2>3 DEF Draw
    <3> HIDE DEF c
    <3>2. Len(stack') = 1 /\ stack'[1] = c
      BY <3>1
    <3> QED
      BY <3>1, <3>2 DEF Path
  <2> QED
    BY <2>2, <2>3
<1>2. CASE Enter
  <2>1. /\ stack # <<>> /\ Len(stack') = Len(stack)
        /\ \A x \in 1..Len(stack) - 1 : stack'[x] = stack[x]
        /\ stack'[Len(stack)].node = Top.node /\ stack'[Len(stack)].kid = 1
    BY <1>2, EnterFacts
  <2>2. Len(stack) \in Nat /\ Len(stack) >= 1 /\ Top = stack[Len(stack)]
    BY <2>1, StackFacts
  <2>3. \A x \in 1..Len(stack) : stack'[x].node = stack[x].node
    BY <2>1, <2>2
  <2>4. emitted' = emitted \cup {Top.node} /\ UNCHANGED root
    BY <1>2 DEF Enter
  <2>5. stack'[1].node = root'
    BY <2>1, <2>2, <2>3, <2>4 DEF Path
  <2>6. \A x \in 1..Len(stack) - 1 : /\ stack'[x].kid \in 1..Len(Kids(stack'[x].node))
                                     /\ Kids(stack'[x].node)[stack'[x].kid] = stack'[x + 1].node
    BY <2>1, <2>2, <2>3 DEF Path
  <2>7. \A x \in 1..Len(stack) : stack'[x].kid > 0 => stack'[x].node \in emitted'
    BY <2>1, <2>2, <2>3, <2>4 DEF Path
  <2>8. \A x, y \in 1..Len(stack) : x < y => stack'[y].node < stack'[x].node
    BY <2>3 DEF Path
  <2> QED
    BY <1>0, <2>1, <2>5, <2>6, <2>7, <2>8 DEF Path, Kids
<1>3. CASE Descend
  <2>1. /\ stack # <<>> /\ Len(stack') = Len(stack) + 1
        /\ \A x \in 1..Len(stack) : stack'[x] = stack[x]
        /\ stack'[Len(stack) + 1].node = Kids(Top.node)[Top.kid]
        /\ stack'[Len(stack) + 1].kid = 0
        /\ Top.kid \in 1..Len(Kids(Top.node))
        /\ Kids(Top.node)[Top.kid] \in Addresses /\ Kids(Top.node)[Top.kid] < Top.node
    BY <1>3, DescendFacts
  <2>2. /\ Len(stack) \in Nat /\ Len(stack) >= 1 /\ Top = stack[Len(stack)]
        /\ \A x \in 1..Len(stack) : stack[x] \in Call
    BY <2>1, StackFacts
  <2>3. UNCHANGED <<emitted, root>>
    BY <1>3 DEF Descend
  <2>4. stack'[1].node = root'
    BY <2>1, <2>2, <2>3 DEF Path
  <2>5. ASSUME NEW x \in 1..Len(stack)
        PROVE  /\ stack'[x].kid \in 1..Len(Kids(stack'[x].node))
               /\ Kids(stack'[x].node)[stack'[x].kid] = stack'[x + 1].node
    <3>1. CASE x = Len(stack)
      BY <3>1, <2>1, <2>2
    <3>2. CASE x \in 1..Len(stack) - 1
      <4>1. x + 1 \in 1..Len(stack)
        BY <3>2, <2>2
      <4> QED
        BY <3>2, <4>1, <2>1 DEF Path
    <3> QED
      BY <3>1, <3>2, <2>2
  <2>6. \A x \in 1..Len(stack) + 1 : stack'[x].kid > 0 => stack'[x].node \in emitted
    BY <2>1, <2>2 DEF Path
  <2>7. ASSUME NEW x \in 1..Len(stack) + 1, NEW y \in 1..Len(stack) + 1, x < y
        PROVE  stack'[y].node < stack'[x].node
    <3>1. CASE y \in 1..Len(stack)
      BY <3>1, <2>1, <2>2, <2>7 DEF Path
    <3>2. CASE y = Len(stack) + 1
      <4>1. x \in 1..Len(stack) /\ stack'[x] = stack[x]
        BY <2>1, <2>2, <2>7, <3>2
      <4>2. stack[x].node = Top.node \/ Top.node < stack[x].node
        BY <2>2, <4>1 DEF Path
      <4>3. stack[x].node \in Int /\ Top.node \in Int /\ Kids(Top.node)[Top.kid] \in Int
        BY <2>1, <2>2, <4>1 DEF Call, Addresses
      <4> QED
        BY <2>1, <3>2, <4>1, <4>2, <4>3
    <3> QED
      BY <2>2, <3>1, <3>2
  <2> QED
    BY <1>0, <2>1, <2>2, <2>3, <2>4, <2>5, <2>6, <2>7 DEF Path, Kids
<1>4. CASE Return
  <2>1. stack # <<>> /\ Len(stack) \in Nat /\ Len(stack) >= 1
    BY <1>4, ReturnFacts, StackFacts
  <2>2. CASE Len(stack) = 1
    <3>1. stack' = <<>> /\ Len(<<>>) = 0
      BY <2>2, <1>4, ReturnFacts
    <3> QED
      BY <3>1 DEF Path
  <2>3. CASE Len(stack) > 1
    <3> DEFINE m == Len(stack) - 1
    <3>1. /\ Len(stack') = m
          /\ \A x \in 1..m - 1 : stack'[x] = stack[x]
          /\ stack'[m].node = stack[m].node
      <4>1. m - 1 = Len(stack) - 2
        BY <2>1
      <4> QED
        BY <2>3, <1>4, <4>1, ReturnFacts
    <3>2. m \in Nat /\ m >= 1 /\ m \in 1..Len(stack) /\ m \in 1..Len(stack) - 1
      BY <2>1, <2>3
    <3>3. stack[m].node \in emitted /\ UNCHANGED <<emitted, root>>
      BY <2>3, <1>4, Returning
    <3> HIDE DEF m
    <3>4. \A x \in 1..m : x \in 1..Len(stack) /\ stack'[x].node = stack[x].node
      BY <2>1, <3>1, <3>2 DEF m
    <3>5. stack'[1].node = root'
      BY <2>1, <3>2, <3>3, <3>4 DEF Path
    <3>6. \A x \in 1..m - 1 : /\ stack'[x].kid \in 1..Len(Kids(stack'[x].node))
                              /\ Kids(stack'[x].node)[stack'[x].kid] = stack'[x + 1].node
      <4> TAKE x \in 1..m - 1
      <4>1. x \in 1..Len(stack) - 1 /\ x + 1 \in 1..m
        BY <2>1, <3>2 DEF m
      <4> QED
        BY <4>1, <3>1, <3>4 DEF Path
    <3>7. \A x \in 1..m : stack'[x].kid > 0 => stack'[x].node \in emitted
      <4> TAKE x \in 1..m
      <4>1. CASE x = m
        BY <4>1, <3>3, <3>4
      <4>2. CASE x \in 1..m - 1
        BY <4>2, <3>1, <3>4 DEF Path
      <4> QED
        BY <3>2, <4>1, <4>2
    <3>8. \A x, y \in 1..m : x < y => stack'[y].node < stack'[x].node
      BY <3>4 DEF Path
    <3> QED
      BY <1>0, <3>1, <3>3, <3>5, <3>6, <3>7, <3>8 DEF Path, Kids
  <2>4. Len(stack) = 1 \/ Len(stack) > 1
    BY <2>1, OneOrMore
  <2> QED
    BY <2>2, <2>3, <2>4
<1>5. CASE UNCHANGED drawVars
  BY <1>5 DEF drawVars, drawn, Path, Kids
<1> QED
  BY <1>1, <1>2, <1>3, <1>4, <1>5 DEF DrawNext, Walk

-----------------------------------------------------------------------------
\* The lines.

\* Every written node has its line, at its number.
LEMMA LineOf ==
    ASSUME Typed, LinesExact, NEW a \in emitted
    PROVE  ids[a] + 1 \in 1..Len(nodes_out) /\ nodes_out[ids[a] + 1].node = a
<1>1. PICK x \in 1..Len(nodes_out) : nodes_out[x].node = a
  BY DEF LinesExact
<1>2. ids[a] = x - 1
  BY <1>1 DEF LinesExact
<1> QED
  BY <1>1, <1>2

LEMMA LinesStep == Typed /\ Path /\ LinesExact /\ [DrawNext]_drawVars => LinesExact'
<1> SUFFICES ASSUME Typed, Path, LinesExact, [DrawNext]_drawVars PROVE LinesExact'
  OBVIOUS
<1>0. UNCHANGED heap /\ Len(nodes_out) \in Nat
  BY DEF DrawNext, Draw, Walk, Enter, Descend, Return, drawVars, Typed
<1>1. ASSUME NEW r \in Addresses \cup {0}, Draw(r) PROVE LinesExact'
  <2>1. UNCHANGED <<emitted, ids, nodes_out>> /\ emitted = {}
    BY <1>1 DEF Draw, Typed
  <2>2. nodes_out = <<>> /\ Len(<<>>) = 0
    <3>1. nodes_out \in Seq(Line) /\ \A x \in 1..Len(nodes_out) : nodes_out[x].node \in emitted
      BY DEF Typed, LinesExact
    <3> QED
      BY <2>1, <3>1
  <2> QED
    BY <2>1, <2>2 DEF LinesExact
<1>2. CASE Enter
  <2> DEFINE L == Len(nodes_out)
             a == Top.node
  <2>1. stack # <<>> /\ Top.node \notin emitted
    BY <1>2, EnterFacts DEF Enter
  <2>2. /\ Len(stack) \in Nat /\ Len(stack) >= 1 /\ Top = stack[Len(stack)] /\ Top \in Call
    BY <2>1, StackFacts
  <2>3. emitted' = emitted \cup {a} /\ UNCHANGED root
    BY <1>2 DEF Enter
  <2>4. ids' = [x \in emitted \cup {a} |-> IF x \in emitted THEN ids[x] ELSE L]
    BY <1>2 DEF Enter, idOf, Typed
  <2>5. ids'[a] = L /\ \A x \in emitted : ids'[x] = ids[x]
    BY <2>1, <2>4
  <2>6. /\ Len(nodes_out') = L + 1 /\ \A x \in 1..L : nodes_out'[x] = nodes_out[x]
        /\ nodes_out'[L + 1] = [id |-> L, node |-> a]
    <3>1. nodes_out' = Append(nodes_out, [id |-> L, node |-> a])
      BY <1>2, <2>5 DEF Enter
    <3>2. [id |-> L, node |-> a] \in Line
      BY <1>0, <2>2 DEF Line, Call
    <3> QED
      BY <3>1, <3>2, AppendFacts DEF Typed
  <2>7. \A x \in 1..L : nodes_out[x].node \in emitted
    BY DEF LinesExact
  <2>8. \A x \in 1..L + 1 : nodes_out'[x].id = x - 1 /\ ids'[nodes_out'[x].node] = x - 1
    <3> TAKE x \in 1..L + 1
    <3>1. CASE x \in 1..L
      <4>1. /\ nodes_out[x].id = x - 1 /\ ids[nodes_out[x].node] = x - 1
            /\ nodes_out[x].node \in emitted
        BY <3>1, <2>7 DEF LinesExact
      <4>2. nodes_out'[x] = nodes_out[x] /\ ids'[nodes_out[x].node] = ids[nodes_out[x].node]
        BY <3>1, <4>1, <2>5, <2>6
      <4> QED
        BY <4>1, <4>2
    <3>2. CASE x = L + 1
      BY <3>2, <1>0, <2>5, <2>6
    <3> QED
      BY <1>0, <3>1, <3>2
  <2>9. emitted' = {nodes_out'[x].node : x \in 1..L + 1}
    <3>1. \A b \in emitted : \E x \in 1..L + 1 : nodes_out'[x].node = b
      BY <1>0, <2>6 DEF LinesExact
    <3>2. L + 1 \in 1..L + 1 /\ nodes_out'[L + 1].node = a
      BY <1>0, <2>6
    <3>3. \A x \in 1..L + 1 : x \in 1..L \/ x = L + 1
      BY <1>0
    <3> HIDE DEF L
    <3>4. \A x \in 1..L + 1 : nodes_out'[x].node \in emitted \cup {a}
      BY <2>6, <2>7, <3>2, <3>3 DEF L
    <3> QED
      BY <2>3, <3>1, <3>2, <3>4
  <2>10. ASSUME L = 0 PROVE a = root
    <3>1. emitted = {}
      BY <2>10 DEF LinesExact
    <3>2. Len(stack) = 1
      <4>1. SUFFICES ASSUME Len(stack) > 1 PROVE FALSE
        BY <2>2, OneOrMore
      <4>2. 1 \in 1..Len(stack) - 1 /\ 1 \in 1..Len(stack)
        BY <2>2, <4>1
      <4>3. stack[1].kid > 0
        BY <4>2 DEF Path
      <4> QED
        BY <3>1, <4>2, <4>3 DEF Path
    <3> QED
      BY <2>1, <2>2, <3>2 DEF Path
  <2>11. nodes_out'[1].node = root
    BY <1>0, <2>6, <2>10 DEF LinesExact
  <2>12. ASSUME L > 0
         PROVE  \E y \in 1..L : \E k \in 1..Len(Kids(nodes_out[y].node)) :
                   Kids(nodes_out[y].node)[k] = a
    <3>1. root \in emitted
      BY <1>0, <2>7, <2>12 DEF LinesExact
    <3>2. Len(stack) > 1
      BY <2>1, <2>2, <3>1 DEF Path
    <3> DEFINE c == stack[Len(stack) - 1]
    <3>3. Len(stack) - 1 \in 1..Len(stack) - 1 /\ Len(stack) - 1 \in 1..Len(stack)
          /\ stack[(Len(stack) - 1) + 1] = Top
      BY <2>2, <3>2
    <3>4. c.kid \in 1..Len(Kids(c.node)) /\ Kids(c.node)[c.kid] = a
      BY <3>3 DEF Path
    <3>5. c.kid > 0
      BY <3>4
    <3>6. c.node \in emitted
      BY <3>3, <3>5 DEF Path
    <3> HIDE DEF c
    <3>7. PICK y \in 1..L : nodes_out[y].node = c.node
      BY <3>6 DEF LinesExact
    <3> QED
      BY <3>4, <3>7
  <2>13. \A x \in 2..L + 1 : \E y \in 1..x - 1 :
            \E k \in 1..Len(Kids(nodes_out'[y].node)) :
               Kids(nodes_out'[y].node)[k] = nodes_out'[x].node
    <3> TAKE x \in 2..L + 1
    <3>1. CASE x \in 2..L
      <4>1. PICK y \in 1..x - 1 : \E k \in 1..Len(Kids(nodes_out[y].node)) :
               Kids(nodes_out[y].node)[k] = nodes_out[x].node
        BY <3>1 DEF LinesExact
      <4>2. nodes_out'[y] = nodes_out[y] /\ nodes_out'[x] = nodes_out[x]
        BY <1>0, <2>6, <3>1
      <4> QED
        BY <4>1, <4>2
    <3>2. CASE x = L + 1
      <4>1. PICK y \in 1..L : \E k \in 1..Len(Kids(nodes_out[y].node)) :
               Kids(nodes_out[y].node)[k] = a
        BY <1>0, <2>12, <3>2
      <4>2. nodes_out'[y] = nodes_out[y] /\ nodes_out'[x].node = a /\ y \in 1..x - 1
        BY <1>0, <2>6, <3>2
      <4> QED
        BY <4>1, <4>2
    <3> QED
      BY <1>0, <3>1, <3>2
  <2> HIDE DEF L, a
  <2> QED
    BY <1>0, <2>3, <2>6, <2>8, <2>9, <2>11, <2>13 DEF LinesExact, Kids
<1>3. CASE UNCHANGED <<root, emitted, ids, nodes_out>>
  BY <1>0, <1>3 DEF LinesExact, Kids
<1> QED
  BY <1>1, <1>2, <1>3 DEF DrawNext, Walk, Descend, Return, drawVars, drawn

-----------------------------------------------------------------------------
\* The edges.

\* An edge line tells which node and which of its children it is of.
LEMMA EdgeTells ==
    ASSUME Typed, LinesExact, NEW a \in emitted, NEW b \in emitted, NEW k \in 1..2, NEW j \in 1..2,
           EdgeOf(a, k) = EdgeOf(b, j)
    PROVE  a = b /\ k = j
<1>1. ids[a] = ids[b] /\ (k = 2 <=> j = 2)
  BY DEF EdgeOf
<1>2. a = b
  BY <1>1, LineOf
<1> QED
  BY <1>1, <1>2

\* A step that draws no child keeps the edges.
LEMMA EdgesKept ==
    ASSUME Edges, UNCHANGED <<heap, edges_out>>,
           emitted \subseteq emitted', \A b \in emitted : ids'[b] = ids[b],
           \A a \in Addresses, k \in 1..2 : Done(a, k)' <=> Done(a, k)
    PROVE  Edges'
<1>1. \A a : Kids(a)' = Kids(a)
  BY Fixed
<1>2. Addresses' = Addresses
  BY DEF Addresses
<1>3. \A a \in Addresses, k \in 1..2 : Done(a, k) => EdgeOf(a, k)' = EdgeOf(a, k)
  <2> TAKE a \in Addresses, k \in 1..2
  <2> HAVE Done(a, k)
  <2>1. a \in emitted /\ Kids(a)[k] \in emitted
    BY DEF Edges, Done
  <2> QED
    BY <1>1, <2>1 DEF EdgeOf
<1>4. \A a \in Addresses, k \in 1..2 : Done(a, k)' => Kids(a)'[k] \in emitted'
  BY <1>1 DEF Edges
<1>5. \A a \in Addresses, k \in 1..2 :
         Done(a, k)' => \E x \in 1..Len(edges_out) : edges_out[x] = EdgeOf(a, k)'
  BY <1>3 DEF Edges
<1>6. \A x \in 1..Len(edges_out) : \E a \in Addresses, k \in 1..2 :
         Done(a, k)' /\ edges_out[x] = EdgeOf(a, k)'
  BY <1>3 DEF Edges
<1>7. \A x, y \in 1..Len(edges_out) : x # y => edges_out[x] # edges_out[y]
  BY DEF Edges
<1> QED
  BY <1>2, <1>4, <1>5, <1>6, <1>7 DEF Edges

\* The call that returns has no child left to do.
LEMMA TopDone ==
    ASSUME Typed, Return, NEW k \in 1..Len(Kids(Top.node)), Top.kid > 0
    PROVE  k < Top.kid
<1>1. stack # <<>> /\ Top \in Call
  BY StackFacts DEF Return, Typed
<1>2. Len(Kids(Top.node)) \in 0..2
  BY <1>1, KidsFacts DEF Typed, Call
<1>3. Top.kid > Len(Kids(Top.node))
  BY <1>1 DEF Return, Returns, Call
<1> QED
  BY <1>1, <1>2, <1>3 DEF Call

LEMMA EnterEdges == ASSUME Typed, Path, Edges, Enter PROVE Edges'
<1>1. /\ stack # <<>> /\ Len(stack') = Len(stack)
      /\ \A x \in 1..Len(stack) - 1 : stack'[x] = stack[x]
      /\ stack'[Len(stack)].node = Top.node /\ stack'[Len(stack)].kid = 1
  BY EnterFacts
<1>2. Len(stack) \in Nat /\ Len(stack) >= 1 /\ Top = stack[Len(stack)]
  BY <1>1, StackFacts
<1>3. /\ Top.node \notin emitted /\ emitted' = emitted \cup {Top.node}
      /\ UNCHANGED <<heap, edges_out>>
  BY DEF Enter
<1>4. \A b \in emitted : ids'[b] = ids[b]
  BY DEF Enter, idOf, Typed
<1>5. \A a : Kids(a)' = Kids(a)
  BY <1>3, Fixed
<1>6. ASSUME NEW a \in Addresses, NEW k \in 1..2 PROVE Done(a, k)' <=> Done(a, k)
  <2>1. CASE a = Top.node
    <3>1. ~Done(a, k)
      BY <1>3, <2>1 DEF Done
    <3>2. ~Done(a, k)'
      <4>1. Len(stack) \in 1..Len(stack')
        BY <1>1, <1>2
      <4>2. ~(k < stack'[Len(stack)].kid)
        BY <1>1
      <4> QED
        BY <1>1, <2>1, <4>1, <4>2 DEF Done
    <3> QED
      BY <3>1, <3>2
  <2>2. CASE a # Top.node
    <3>1. a \in emitted' <=> a \in emitted
      BY <1>3, <2>2
    <3>2. \A x \in 1..Len(stack) : x = Len(stack) \/ x \in 1..Len(stack) - 1
      BY <1>2
    <3>3. \A x \in 1..Len(stack) : stack'[x] = stack[x] \/ (stack'[x].node # a /\ stack[x].node # a)
      BY <1>1, <1>2, <2>2, <3>2
    <3> QED
      BY <1>1, <1>5, <3>1, <3>3 DEF Done
  <2> QED
    BY <2>1, <2>2
<1> QED
  BY <1>3, <1>4, <1>6, EdgesKept

LEMMA DescendEdges == ASSUME Typed, Path, Edges, Descend PROVE Edges'
<1>1. /\ stack # <<>> /\ Len(stack') = Len(stack) + 1
      /\ \A x \in 1..Len(stack) : stack'[x] = stack[x]
      /\ stack'[Len(stack) + 1].kid = 0
  BY DescendFacts
<1>2. Len(stack) \in Nat
  BY <1>1, StackFacts
<1>3. UNCHANGED <<heap, emitted, ids, edges_out>>
  BY DEF Descend
<1>4. \A a : Kids(a)' = Kids(a)
  BY <1>3, Fixed
<1>5. ASSUME NEW a \in Addresses, NEW k \in 1..2 PROVE Done(a, k)' <=> Done(a, k)
  <2>1. \A x \in 1..Len(stack) : x \in 1..Len(stack')
    BY <1>1, <1>2
  <2>2. \A x \in 1..Len(stack') : x \in 1..Len(stack) \/ x = Len(stack) + 1
    BY <1>1, <1>2
  <2>3. \A x \in 1..Len(stack') : stack'[x].kid > 0 => x \in 1..Len(stack)
    BY <1>1, <2>2
  <2> QED
    BY <1>1, <1>3, <1>4, <2>1, <2>3 DEF Done
<1> QED
  BY <1>3, <1>5, EdgesKept

LEMMA ReturnEdges == ASSUME Typed, Path, LinesExact, Edges, Return PROVE Edges'
<1>1. /\ stack # <<>> /\ Len(stack) \in Nat /\ Len(stack) >= 1
      /\ Top \in Call /\ Top = stack[Len(stack)] /\ \A x \in 1..Len(stack) : stack[x] \in Call
  BY ReturnFacts, StackFacts
<1>2. UNCHANGED <<heap, emitted, ids, nodes_out>> /\ Top.node \in emitted
  BY Returning
<1>3. \A a : Kids(a)' = Kids(a)
  BY <1>2, Fixed
<1>4. \A a : Len(Kids(a)') = Len(Kids(a))
  BY <1>3
<1>5. \A k \in 1..Len(Kids(Top.node)) : Top.kid > 0 => k < Top.kid
  BY TopDone
<1>6. CASE Len(stack) = 1
  <2>1. stack' = <<>> /\ UNCHANGED edges_out
    BY <1>6, Returning
  <2>2. ASSUME NEW a \in Addresses, NEW k \in 1..2 PROVE Done(a, k)' <=> Done(a, k)
    <3>1. Done(a, k)' <=> a \in emitted /\ k \in 1..Len(Kids(a))
      <4>1. Len(stack') = 0
        BY <2>1
      <4> QED
        BY <1>2, <1>3, <4>1 DEF Done
    <3>2. Done(a, k) <=> a \in emitted /\ k \in 1..Len(Kids(a))
      <4>1. \A x \in 1..Len(stack) : stack[x] = Top
        BY <1>1, <1>6
      <4> QED
        BY <1>5, <4>1 DEF Done
    <3> QED
      BY <3>1, <3>2
  <2> QED
    BY <1>2, <2>1, <2>2, EdgesKept
<1>7. CASE Len(stack) > 1
  <2> DEFINE m == Len(stack) - 1
             b == stack[m].node
             j == stack[m].kid
             e == EdgeOf(b, j)
  <2>1. /\ m \in Nat /\ m >= 1 /\ m \in 1..m /\ m \in 1..Len(stack) /\ Len(stack) = m + 1
        /\ \A x \in 1..m : x \in 1..Len(stack)
        /\ \A x \in 1..Len(stack) : x \in 1..m \/ x = m + 1
        /\ \A x \in 1..m : x = m \/ (x \in 1..m - 1 /\ x < m)
        /\ m < m + 1 /\ m + 1 \in 1..Len(stack) /\ Top = stack[m + 1]
    BY <1>1, <1>7
  <2>2. /\ Len(stack') = m
        /\ \A x \in 1..m - 1 : stack'[x] = stack[x]
        /\ stack'[m].node = b /\ stack'[m].kid = j + 1
    <3>1. m - 1 = Len(stack) - 2
      BY <1>1
    <3> QED
      BY <1>7, <3>1, ReturnFacts
  <2>3. /\ b \in emitted /\ b \in Addresses /\ j \in 1..Len(Kids(b)) /\ Kids(b)[j] = Top.node
        /\ edges_out' = Append(edges_out, e) /\ e \in Edge
    BY <1>7, Returning DEF Call
  <2>4. j \in 1..2
    BY <2>3, KidsFacts DEF Typed
  <2>5. \A x \in 1..m : x # m => stack[x].node # b
    <3> TAKE x \in 1..m
    <3> HAVE x # m
    <3>1. x < m
      BY <2>1
    <3>2. b < stack[x].node
      BY <2>1, <3>1 DEF Path
    <3>3. b \in Int
      BY <2>3 DEF Addresses
    <3> QED
      BY <3>2, <3>3
  <2>6. Top.node # b
    <3>1. Top.node < b
      BY <2>1 DEF Path
    <3>2. b \in Int
      BY <2>3 DEF Addresses
    <3> QED
      BY <3>1, <3>2
  <2> HIDE DEF m
  <2>7. ASSUME NEW a \in Addresses, NEW k \in 1..2
        PROVE  Done(a, k)' <=> Done(a, k) \/ (a = b /\ k = j)
    <3>1. Done(a, k)' <=> /\ a \in emitted /\ k \in 1..Len(Kids(a))
                          /\ \A x \in 1..m : stack'[x].node = a /\ stack'[x].kid > 0 => k < stack'[x].kid
      BY <1>2, <1>3, <2>2 DEF Done
    <3>2. Done(a, k) <=> /\ a \in emitted /\ k \in 1..Len(Kids(a))
                         /\ \A x \in 1..m : stack[x].node = a /\ stack[x].kid > 0 => k < stack[x].kid
      <4>1. k \in 1..Len(Kids(a)) /\ Top.node = a /\ Top.kid > 0 => k < Top.kid
        BY <1>5
      <4>2. \A x \in 1..Len(stack) : x \in 1..m \/ stack[x] = Top
        BY <1>1, <2>1
      <4> QED
        BY <2>1, <4>1, <4>2 DEF Done
    <3>3. CASE a # b
      <4>1. \A x \in 1..m : stack'[x] = stack[x] \/ (stack'[x].node # a /\ stack[x].node # a)
        BY <2>1, <2>2, <3>3
      <4> QED
        BY <3>1, <3>2, <3>3, <4>1
    <3>4. CASE a = b
      <4>1. \A x \in 1..m : stack[x].node = a <=> x = m
        BY <2>5, <3>4
      <4>2. \A x \in 1..m : stack'[x].node = a <=> x = m
        BY <2>1, <2>2, <3>4, <4>1
      <4>3. j > 0 /\ j + 1 > 0
        BY <2>4
      <4>4. Done(a, k)' <=> k \in 1..Len(Kids(b)) /\ k < j + 1
        BY <2>1, <2>2, <2>3, <3>1, <3>4, <4>2, <4>3
      <4>5. Done(a, k) <=> k \in 1..Len(Kids(b)) /\ k < j
        BY <2>1, <2>3, <3>2, <3>4, <4>1, <4>3
      <4>6. k < j + 1 <=> k < j \/ k = j
        BY <2>4
      <4> QED
        BY <2>3, <3>4, <4>4, <4>5, <4>6
    <3> QED
      BY <3>3, <3>4
  <2>8. ~Done(b, j)
    <3>1. j > 0 /\ ~(j < j)
      BY <2>4
    <3> QED
      BY <2>1, <3>1 DEF Done
  <2> HIDE DEF b, j, e
  <2>9. /\ Len(edges_out) \in Nat /\ Len(edges_out') = Len(edges_out) + 1
        /\ \A x \in 1..Len(edges_out) : edges_out'[x] = edges_out[x]
        /\ edges_out'[Len(edges_out) + 1] = e
    BY <2>3, AppendFacts DEF Typed
  <2>10. \A a, k : EdgeOf(a, k)' = EdgeOf(a, k)
    BY <1>2, <1>3 DEF EdgeOf
  <2> QED
    <3> DEFINE n == Len(edges_out)
    <3>1. /\ Len(edges_out') = n + 1 /\ n + 1 \in 1..n + 1
          /\ \A x \in 1..n : x \in 1..n + 1
          /\ \A x \in 1..n + 1 : x \in 1..n \/ x = n + 1
          /\ \A x \in 1..n : edges_out'[x] = edges_out[x]
          /\ edges_out'[n + 1] = e
      BY <2>9
    <3> HIDE DEF n
    <3>2. \A a \in Addresses, k \in 1..2 : Done(a, k)' => Kids(a)[k] \in emitted
      BY <1>2, <2>3, <2>7 DEF Edges
    <3>3. \A a \in Addresses, k \in 1..2 :
             Done(a, k)' => \E x \in 1..n + 1 : edges_out'[x] = EdgeOf(a, k)
      <4> TAKE a \in Addresses, k \in 1..2
      <4> HAVE Done(a, k)'
      <4>1. CASE Done(a, k)
        <5>1. PICK x \in 1..n : edges_out[x] = EdgeOf(a, k)
          BY <4>1 DEF Edges, n
        <5> QED
          BY <3>1, <5>1
      <4>2. CASE a = b /\ k = j
        BY <3>1, <4>2 DEF e
      <4> QED
        BY <2>7, <4>1, <4>2
    <3>4. \A x \in 1..n + 1 : \E a \in Addresses, k \in 1..2 :
             Done(a, k)' /\ edges_out'[x] = EdgeOf(a, k)
      <4> TAKE x \in 1..n + 1
      <4>1. CASE x \in 1..n
        <5>1. PICK a \in Addresses, k \in 1..2 : Done(a, k) /\ edges_out[x] = EdgeOf(a, k)
          BY <4>1 DEF Edges, n
        <5> QED
          BY <2>7, <3>1, <4>1, <5>1
      <4>2. CASE x = n + 1
        BY <2>3, <2>4, <2>7, <3>1, <4>2 DEF e
      <4> QED
        BY <3>1, <4>1, <4>2
    <3>5. \A x \in 1..n : edges_out[x] # e
      <4> SUFFICES ASSUME NEW x \in 1..n, edges_out[x] = e PROVE FALSE
        OBVIOUS
      <4>1. PICK a \in Addresses, k \in 1..2 : Done(a, k) /\ edges_out[x] = EdgeOf(a, k)
        BY DEF Edges, n
      <4>2. a \in emitted /\ EdgeOf(a, k) = EdgeOf(b, j)
        BY <4>1 DEF Done, e
      <4>3. a = b /\ k = j
        BY <2>3, <2>4, <4>2, EdgeTells
      <4> QED
        BY <2>8, <4>1, <4>3
    <3>6. \A x, y \in 1..n + 1 : x # y => edges_out'[x] # edges_out'[y]
      <4>1. \A x, y \in 1..n : x # y => edges_out[x] # edges_out[y]
        BY DEF Edges, n
      <4> QED
        BY <3>1, <3>5, <4>1
    <3>7. Addresses' = Addresses
      BY <1>2 DEF Addresses
    <3> QED
      BY <1>2, <1>3, <2>10, <3>1, <3>2, <3>3, <3>4, <3>6, <3>7 DEF Edges
<1> QED
  BY <1>1, <1>6, <1>7, OneOrMore

LEMMA EdgesStep == Typed /\ Path /\ LinesExact /\ Edges /\ [DrawNext]_drawVars => Edges'
<1> SUFFICES ASSUME Typed, Path, LinesExact, Edges, [DrawNext]_drawVars PROVE Edges'
  OBVIOUS
<1>1. ASSUME NEW r \in Addresses \cup {0}, Draw(r) PROVE Edges'
  <2>1. UNCHANGED <<heap, emitted, ids, edges_out>> /\ emitted = {}
    BY <1>1 DEF Draw, Typed
  <2>2. \A a \in Addresses, k \in 1..2 : ~Done(a, k)' /\ ~Done(a, k)
    BY <2>1 DEF Done
  <2> QED
    BY <2>1, <2>2, EdgesKept
<1>2. CASE UNCHANGED drawVars
  <2>1. UNCHANGED <<heap, stack, emitted, ids, edges_out>>
    BY <1>2 DEF drawVars, drawn
  <2>2. \A a : Kids(a)' = Kids(a)
    BY <2>1, Fixed
  <2>3. \A a \in Addresses, k \in 1..2 : Done(a, k)' <=> Done(a, k)
    BY <2>1, <2>2 DEF Done
  <2> QED
    BY <2>1, <2>3, EdgesKept
<1> QED
  BY <1>1, <1>2, EnterEdges, DescendEdges, ReturnEdges DEF DrawNext, Walk

-----------------------------------------------------------------------------
\* When no call is under way, every child of a written node is drawn.
LEMMA DrawnIsExact == Typed /\ Edges => DrawingExact
<1> SUFFICES ASSUME Typed, Edges, drawing = "drawn" PROVE DrawingExact
  BY DEF DrawingExact
<1>1. stack = <<>> /\ Len(<<>>) = 0 /\ IsHeap /\ emitted \subseteq Addresses
  BY DEF Typed
<1>2. \A a \in emitted : \A k \in 1..Len(Kids(a)) : Done(a, k) /\ k \in 1..2 /\ a \in Addresses
  BY <1>1, KidsFacts DEF Done
<1>3. emitted = {} <=> root = 0
  BY DEF Typed
<1>4. \A a \in emitted : \A k \in 1..Len(Kids(a)) : Kids(a)[k] \in emitted
  BY <1>2 DEF Edges
<1>5. {edges_out[x] : x \in 1..Len(edges_out)} =
         UNION {{EdgeOf(a, k) : k \in 1..Len(Kids(a))} : a \in emitted}
  <2> DEFINE S == {edges_out[x] : x \in 1..Len(edges_out)}
             F(a) == {EdgeOf(a, k) : k \in 1..Len(Kids(a))}
             U == UNION {F(a) : a \in emitted}
  <2>1. ASSUME NEW v \in U PROVE v \in S
    <3>1. PICK a \in emitted : v \in F(a)
      BY <2>1
    <3>2. PICK k \in 1..Len(Kids(a)) : v = EdgeOf(a, k)
      BY <3>1
    <3>3. \E x \in 1..Len(edges_out) : edges_out[x] = EdgeOf(a, k)
      BY <1>2 DEF Edges
    <3> QED
      BY <3>2, <3>3
  <2>2. ASSUME NEW x \in 1..Len(edges_out) PROVE edges_out[x] \in U
    <3>1. PICK a \in Addresses, k \in 1..2 : Done(a, k) /\ edges_out[x] = EdgeOf(a, k)
      BY DEF Edges
    <3>2. a \in emitted /\ edges_out[x] \in F(a)
      BY <3>1 DEF Done
    <3> HIDE DEF F
    <3> QED
      BY <3>2
  <2>3. \A v \in S : v \in U
    <3> HIDE DEF U
    <3> QED
      BY <2>2
  <2>4. S = U
    <3> HIDE DEF S, U
    <3> QED
      <4>1. \A v : v \in S <=> v \in U
        BY <2>1, <2>3
      <4> QED
        BY <4>1
  <2> QED
    BY <2>4
<1>6. \A x, y \in 1..Len(edges_out) : x # y => edges_out[x] # edges_out[y]
  BY DEF Edges
<1> QED
  BY <1>3, <1>4, <1>5, <1>6 DEF DrawingExact

-----------------------------------------------------------------------------
\* The lines are numbered in their order, one for each node reached so far: renderDotGraph
\* with its IdAssigner and its set of emitted nodes, for every plan.
THEOREM LinesAreExact == DrawSpec => []LinesExact
<1>1. Typed /\ Path /\ LinesExact /\ [DrawNext]_drawVars => (Typed /\ Path /\ LinesExact)'
  BY TypedStep, PathStep, LinesStep
<1> QED
  BY <1>1, TypedInit, PTL DEF DrawSpec

\* The finished drawing has every node that the root reaches and every edge between them,
\* each once, for every plan: also one whose nodes are shared, which walk meets again.
THEOREM DrawingsAreExact == DrawSpec => []DrawingExact
<1>1. Typed /\ Path /\ LinesExact /\ Edges /\ [DrawNext]_drawVars
         => (Typed /\ Path /\ LinesExact /\ Edges)'
  BY TypedStep, PathStep, LinesStep, EdgesStep
<1> QED
  BY <1>1, TypedInit, DrawnIsExact, PTL DEF DrawSpec
=============================================================================
