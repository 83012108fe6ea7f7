--------------------------- MODULE GroupingProofs ---------------------------
(***************************************************************************)
(* Sorting, cutting and filling implement the relational grouping.         *)
(***************************************************************************)
EXTENDS GroupAggregateProofs

\* The rows at the positions of run x.
RunSet(x) == {order[z] : z \in groups[x][1]..groups[x][2] - 1}

\* The result rows as RelationalGrouping sees them.
View(row) == [key |-> row.key, rows |-> {row.rows[y] : y \in 1..Len(row.rows)}]
Seen == [x \in 1..Len(out) |-> View(out[x])]

SeenRow == [key : [Keys -> DOMAIN Place], rows : SUBSET Rows]

\* Once all rows are cut.
AllCut == IInv /\ phase = "fill" /\ in.k > 0

-----------------------------------------------------------------------------
\* The sorted rows are all rows, each once.
LEMMA OrderIsPermutation ==
    ASSUME in \in GroupInputs, Sorted
    PROVE  /\ \A r \in Rows : \E z \in Rows : order[z] = r
           /\ \A y, z \in Rows : order[y] = order[z] => y = z
<1>1. n \in Nat
  BY InputFacts
<1>2. ASSUME NEW y \in Rows, NEW z \in Rows, y < z PROVE order[y] # order[z]
  <2>1. order[y] \in Rows /\ order[z] \in Rows
    BY DEF Sorted
  <2>2. CASE KeyBefore(order[y], order[z])
    <3>1. PICK d \in Keys : Place[in.rows[order[y]][d]] < Place[in.rows[order[z]][d]]
      BY <2>2 DEF KeyBefore
    <3>2. Place[in.rows[order[y]][d]] \in Int
      BY <2>1, InputFacts, PlaceAssumption
    <3> QED
      BY <3>1, <3>2
  <2>3. CASE order[y] < order[z]
    BY <2>1, <2>3, <1>1 DEF Rows
  <2> QED
    BY <1>2, <2>2, <2>3 DEF Sorted, StableSort
<1>3. \A y, z \in Rows : order[y] = order[z] => y = z
  BY <1>1, <1>2 DEF Rows
<1>4. order \in Injection(Rows, Rows)
  BY <1>3 DEF Sorted, Injection, IsInjective
<1>5. IsFiniteSet(Rows)
  BY <1>1, FS_Interval DEF Rows
<1>6. order \in Surjection(Rows, Rows)
  BY <1>4, <1>5, FS_Injection
<1> QED
  BY <1>3, <1>6 DEF Surjection

\* What holds once all rows are cut.
LEMMA AllCutFacts ==
    ASSUME AllCut
    PROVE  /\ in \in GroupInputs /\ Sorted /\ n \in Nat /\ Len(groups) \in Nat
           /\ g \in 1..Len(groups) + 1
           /\ \A x \in 1..Len(groups) : /\ groups[x][1] \in Rows /\ groups[x][2] \in 2..n + 1
                                        /\ groups[x][1] < groups[x][2]
           /\ \A x \in 1..Len(groups) : Joined(groups[x][1], groups[x][2])
                                        /\ Apart(groups[x][1], groups[x][2])
           /\ \A z \in Rows : \E x \in 1..Len(groups) : z \in groups[x][1]..groups[x][2] - 1
           /\ Ascending
<1>1. in \in GroupInputs /\ Sorted /\ groups \in Seq(Nat \X Nat) /\ g \in 1..Len(groups) + 1
  BY DEF AllCut, IInv, Typed
<1>2. n \in Nat
  BY <1>1, InputFacts
<1>3. \A z \in Rows : z < n + 1
  BY <1>2 DEF Rows
<1> QED
  BY <1>1, <1>2, <1>3 DEF AllCut, IInv, RunsInside, CutInv, Uncut

\* A run is the class of each of its rows.
LEMMA RunIsClass ==
    ASSUME AllCut, NEW x \in 1..Len(groups), NEW y \in groups[x][1]..groups[x][2] - 1
    PROVE  y \in Rows /\ RunSet(x) = Promise!Class(order[y])
<1> DEFINE a == groups[x][1]
           b == groups[x][2]
<1>1. a \in Rows /\ b \in 2..n + 1 /\ n \in Nat /\ in \in GroupInputs /\ Sorted
      /\ Joined(a, b) /\ Apart(a, b)
  BY AllCutFacts
<1>2. \A z \in a..b - 1 : z \in Rows
  BY <1>1 DEF Rows
<1>3. \A r, s : Promise!Same(r, s) <=> Alike(r, s)
  BY DEF Promise!Same, Promise!Keys, Alike, Keys
<1>4. Promise!Class(order[y]) = {r \in Rows : r = order[y] \/ Alike(order[y], r)}
  BY <1>3 DEF Promise!Class, Promise!Rows, Rows, n
<1>5. ASSUME NEW z \in a..b - 1 PROVE order[z] \in Promise!Class(order[y])
  <2>1. order[z] \in Rows
    BY <1>1, <1>2 DEF Sorted
  <2>2. z = y \/ Alike(order[y], order[z])
    BY <1>1 DEF Joined
  <2> QED
    BY <2>1, <2>2, <1>4
<1>6. ASSUME NEW r \in Promise!Class(order[y]) PROVE r \in RunSet(x)
  <2>1. PICK z \in Rows : order[z] = r
    BY <1>1, <1>4, OrderIsPermutation
  <2>2. CASE r = order[y]
    BY <2>2 DEF RunSet
  <2>3. CASE Alike(order[y], r)
    <3>1. z \in a..b - 1
      BY <2>1, <2>3, <1>1 DEF Apart
    <3> QED
      BY <2>1, <3>1 DEF RunSet
  <2> QED
    BY <2>2, <2>3, <1>4
<1> QED
  BY <1>2, <1>5, <1>6 DEF RunSet

\* The classes are the runs.
LEMMA PartsAreRuns ==
    ASSUME AllCut
    PROVE  Promise!Parts = {RunSet(x) : x \in 1..Len(groups)}
<1>1. Promise!Parts = {Promise!Class(r) : r \in Rows}
  BY DEF Promise!Parts, Promise!Rows, Rows, n, AllCut
<1>2. ASSUME NEW r \in Rows PROVE \E x \in 1..Len(groups) : RunSet(x) = Promise!Class(r)
  <2>1. PICK z \in Rows : order[z] = r
    BY AllCutFacts, OrderIsPermutation
  <2>2. PICK x \in 1..Len(groups) : z \in groups[x][1]..groups[x][2] - 1
    BY AllCutFacts
  <2> QED
    BY <2>1, <2>2, RunIsClass
<1>3. ASSUME NEW x \in 1..Len(groups) PROVE \E r \in Rows : RunSet(x) = Promise!Class(r)
  <2>1. groups[x][1] \in groups[x][1]..groups[x][2] - 1 /\ groups[x][1] \in Rows
    BY AllCutFacts DEF Rows
  <2>2. order[groups[x][1]] \in Rows
    BY <2>1, AllCutFacts DEF Sorted
  <2> QED
    BY <2>1, <2>2, RunIsClass
<1> QED
  BY <1>1, <1>2, <1>3

\* The rows a slice aggregates are those of the run.
LEMMA SliceSet ==
    ASSUME AllCut, NEW x \in 1..Len(groups)
    PROVE  LET s == Slice(groups[x][1], groups[x][2])
           IN  {s[y] : y \in 1..Len(s)} = RunSet(x)
<1> DEFINE a == groups[x][1]
           b == groups[x][2]
           s == Slice(a, b)
<1>1. a \in Rows /\ b \in 2..n + 1 /\ a < b /\ n \in Nat /\ order \in [Rows -> Rows]
  BY AllCutFacts DEF Sorted
<1>2. Len(s) = b - a /\ \A y \in 1..b - a : s[y] = order[a + y - 1] /\ a + y - 1 \in a..b - 1
  BY <1>1, SliceType
<1>3. \A z \in a..b - 1 : z - a + 1 \in 1..b - a /\ a + (z - a + 1) - 1 = z
  <2>1. a \in Int /\ b \in Int
    BY <1>1 DEF Rows
  <2> HIDE DEF a, b
  <2> QED
    BY <2>1
<1> HIDE DEF s
<1>4. ASSUME NEW y \in 1..Len(s) PROVE s[y] \in RunSet(x)
  <2>1. s[y] = order[a + y - 1] /\ a + y - 1 \in a..b - 1
    BY <1>2
  <2> QED
    BY <2>1 DEF RunSet
<1>5. \A z \in a..b - 1 : \E y \in 1..Len(s) : order[z] = s[y]
  BY <1>2, <1>3
<1>6. {s[y] : y \in 1..Len(s)} = RunSet(x)
  BY <1>4, <1>5 DEF RunSet
<1> QED
  BY <1>6 DEF s

-----------------------------------------------------------------------------
\* The result rows are well typed, and their parts are the runs filled so far.
LEMMA ViewType ==
    ASSUME NEW row \in OutRow
    PROVE  View(row) \in SeenRow
<1>1. row.key \in [Keys -> DOMAIN Place] /\ row.rows \in Seq(Rows)
  BY DEF OutRow
<1>2. \A y \in 1..Len(row.rows) : row.rows[y] \in Rows
  BY <1>1
<1> QED
  BY <1>1, <1>2 DEF SeenRow, View

LEMMA SeenType ==
    ASSUME IInv
    PROVE  /\ Seen \in Seq(SeenRow) /\ Len(Seen) = Len(out) /\ Len(out) \in Nat
           /\ \A x \in 1..Len(out) : Seen[x] = View(out[x])
<1>1. out \in Seq(OutRow)
  BY DEF IInv, Typed
<1>2. Len(out) \in Nat
  BY <1>1
<1>3. \A x \in 1..Len(out) : View(out[x]) \in SeenRow
  BY <1>1, ViewType
<1>4. Seen \in [1..Len(out) -> SeenRow]
  BY <1>3 DEF Seen
<1>5. Seen \in Seq(SeenRow) /\ Len(Seen) = Len(out)
  BY <1>2, <1>4
<1> QED
  BY <1>2, <1>5 DEF Seen

\* What is seen of the result, in terms of RelationalGrouping.
LEMMA EmittedSeen == Promise!Emitted = {Seen[x].rows : x \in 1..Len(Seen)}
  BY DEF Promise!Emitted, Seen, View

LEMMA EmittedRuns ==
    ASSUME AllCut
    PROVE  Promise!Emitted = {RunSet(x) : x \in 1..g - 1}
<1>1. Len(Seen) = g - 1 /\ Len(out) = g - 1
  BY SeenType DEF AllCut, IInv, FillInv
<1>2. ASSUME NEW x \in 1..g - 1 PROVE Seen[x].rows = RunSet(x)
  <2>1. x \in 1..Len(groups)
    BY AllCutFacts
  <2>2. out[x].rows = Slice(groups[x][1], groups[x][2])
    <3>1. out[x] = [key  |-> in.rows[order[groups[x][1]]],
                    rows |-> Slice(groups[x][1], groups[x][2])]
      BY DEF AllCut, IInv, FillInv
    <3> QED
      BY <3>1
  <2>3. Seen[x].rows = {out[x].rows[y] : y \in 1..Len(out[x].rows)}
    BY <1>1, SeenType DEF AllCut, View
  <2> QED
    BY <2>1, <2>2, <2>3, SliceSet
<1> QED
  BY <1>1, <1>2, EmittedSeen

\* A step that appends a row is an Append of what is seen of it.
LEMMA SeenAppend ==
    ASSUME IInv, IInv', UNCHANGED in, NEW e \in OutRow, out' = Append(out, e)
    PROVE  Seen' = Append(Seen, View(e))
<1>1. Seen \in Seq(SeenRow) /\ Len(Seen) = Len(out) /\ Len(out) \in Nat
  BY SeenType
<1>2. View(e) \in SeenRow
  BY ViewType
<1>3. /\ Len(out') = Len(out) + 1
      /\ \A x \in 1..Len(out) : out'[x] = out[x]
      /\ out'[Len(out) + 1] = e
  BY DEF IInv, Typed
<1>4. /\ Append(Seen, View(e)) \in Seq(SeenRow)
      /\ Len(Append(Seen, View(e))) = Len(Seen) + 1
      /\ \A x \in 1..Len(Seen) : Append(Seen, View(e))[x] = Seen[x]
      /\ Append(Seen, View(e))[Len(Seen) + 1] = View(e)
  BY <1>1, <1>2
<1>5. Append(Seen, View(e)) = [x \in 1..Len(Seen) + 1 |-> Append(Seen, View(e))[x]]
  <2> DEFINE A == Append(Seen, View(e))
  <2>1. A \in Seq(SeenRow) /\ Len(A) = Len(Seen) + 1
    BY <1>4
  <2> HIDE DEF A
  <2>2. A \in [1..Len(A) -> SeenRow]
    BY <2>1
  <2>3. A = [x \in 1..Len(Seen) + 1 |-> A[x]]
    BY <2>1, <2>2
  <2> QED
    BY <2>3 DEF A
<1>6. Seen' = [x \in 1..Len(out) + 1 |-> View(out'[x])]
  <2>1. Seen' = [x \in 1..Len(out') |-> View(out'[x])]
    BY DEF Seen, View
  <2> QED
    BY <2>1, <1>3
<1>7. ASSUME NEW x \in 1..Len(out) + 1
      PROVE  View(out'[x]) = Append(Seen, View(e))[x]
  <2>1. CASE x \in 1..Len(out)
    BY <2>1, <1>1, <1>3, <1>4, SeenType
  <2>2. CASE x = Len(out) + 1
    BY <2>2, <1>1, <1>3, <1>4
  <2> QED
    BY <1>1, <2>1, <2>2
<1>8. [x \in 1..Len(out) + 1 |-> View(out'[x])]
        = [x \in 1..Len(out) + 1 |-> Append(Seen, View(e))[x]]
  BY <1>7
<1> QED
  BY <1>1, <1>5, <1>6, <1>8

\* Filling in a run emits the first class that is left.
LEMMA FillEmits ==
    ASSUME IInv, IInv', Fill, ~Throws
    PROVE  Promise!Emit
<1> DEFINE a == groups[g][1]
           b == groups[g][2]
           P == RunSet(g)
           e == [key |-> in.rows[order[a]], rows |-> Slice(a, b)]
<1>1. /\ g \in 1..Len(groups) /\ phase = "fill" /\ phase' = "fill" /\ UNCHANGED in
      /\ out' = Append(out, e)
  BY DEF Fill, IInv, Typed
<1>2. AllCut
  <2>1. Len(<<>>) = 0 /\ in.k \in Nat
    BY InputFacts DEF IInv, Typed
  <2>2. groups # <<>>
    BY <1>1, <2>1
  <2> QED
    <3>1. in.k > 0
      <4>1. in.k = 0 => groups = <<>>
        BY DEF IInv, Typed
      <4> QED
        BY <2>1, <2>2, <4>1
    <3> QED
      BY <1>1, <3>1 DEF AllCut
<1>3. /\ a \in Rows /\ b \in 2..n + 1 /\ a < b /\ n \in Nat /\ Sorted /\ in \in GroupInputs
      /\ Joined(a, b) /\ Ascending /\ Len(groups) \in Nat /\ g \in Nat
  BY <1>1, <1>2, AllCutFacts
<1>4. \A z \in a..b - 1 : z \in Rows /\ order[z] \in Rows
  BY <1>3 DEF Sorted, Rows
<1>5. P \in Promise!Parts \ Promise!Emitted
  <2>1. P \in Promise!Parts
    BY <1>1, <1>2, PartsAreRuns
  <2>2. ASSUME NEW x \in 1..g - 1 PROVE RunSet(x) # P
    <3>1. x \in 1..Len(groups) /\ x < g
      BY <1>1, <1>3
    <3>2. groups[x][2] <= a
      BY <1>1, <3>1 DEF AllCut, IInv, Ascending
    <3>3. /\ groups[x][1] \in Rows /\ groups[x][2] \in 2..n + 1
      BY <1>2, <3>1, AllCutFacts
    <3>4. order[a] \in P
      BY <1>3 DEF RunSet, Rows
    <3>5. ASSUME NEW z \in groups[x][1]..groups[x][2] - 1 PROVE order[z] # order[a]
      <4>1. z \in Rows /\ z < a
        BY <1>3, <3>2, <3>3 DEF Rows
      <4>2. z # a
        BY <1>3, <4>1 DEF Rows
      <4>3. \A u, v \in Rows : order[u] = order[v] => u = v
        BY <1>3, OrderIsPermutation
      <4> QED
        BY <1>3, <4>1, <4>2, <4>3
    <3> QED
      BY <3>4, <3>5 DEF RunSet
  <2> QED
    BY <2>1, <2>2, <1>2, EmittedRuns
<1>6. ASSUME NEW Q \in Promise!Parts \ (Promise!Emitted \cup {P}), NEW x \in P, NEW y \in Q
      PROVE  Promise!Precedes(x, y)
  <2>1. PICK w \in 1..Len(groups) : Q = RunSet(w)
    BY <1>2, PartsAreRuns
  <2>2. w > g
    <3>1. w # g
      BY <2>1, <1>6
    <3>2. w \notin 1..g - 1
      BY <2>1, <1>2, <1>6, EmittedRuns
    <3> QED
      BY <3>1, <3>2, <1>3
  <2>3. PICK s \in a..b - 1 : x = order[s]
    BY DEF RunSet
  <2>4. PICK t \in groups[w][1]..groups[w][2] - 1 : y = order[t]
    BY <2>1 DEF RunSet
  <2>5. t \in Rows
    BY <1>2, <2>1, <2>4, RunIsClass
  <2>6. s \in Rows /\ s < t
    <3>1. b <= groups[w][1]
      BY <2>2, <1>1, <1>3 DEF Ascending
    <3>2. groups[w][1] \in Rows
      BY <1>2, AllCutFacts
    <3> QED
      BY <3>1, <3>2, <1>3, <1>4, <2>5 DEF Rows
  <2>7. KeyBefore(x, y) \/ (in.rows[x] = in.rows[y] /\ x < y)
    BY <2>3, <2>4, <2>5, <2>6, <1>3 DEF Sorted, StableSort
  <2> QED
    BY <2>7 DEF Promise!Precedes, Promise!SmallerKey, KeyBefore, Promise!Keys, Keys
<1>7. \A x \in P : in.rows[x] = e.key
  <2> SUFFICES ASSUME NEW s \in a..b - 1 PROVE in.rows[order[s]] = in.rows[order[a]]
    BY DEF RunSet
  <2>1. CASE s = a
    BY <2>1
  <2>2. CASE s # a
    <3>1. Alike(order[s], order[a])
      BY <2>2, <1>3 DEF Joined, Rows
    <3>2. order[s] \in Rows /\ order[a] \in Rows
      BY <1>3, <1>4 DEF Rows
    <3> QED
      BY <3>1, <3>2, <1>3, AlikeIsEqual
  <2> QED
    BY <2>1, <2>2
<1>8. e.key \in {in.rows[x] : x \in P}
  BY <1>3 DEF RunSet, Rows
<1>9. Seen' = Append(Seen, View(e)) /\ View(e) = [key |-> e.key, rows |-> P]
  <2>1. e \in OutRow
    <3>1. in.rows[order[a]] \in [Keys -> DOMAIN Place]
      <4>1. order[a] \in Rows
        BY <1>3 DEF Sorted
      <4> QED
        BY <1>3, <4>1, InputFacts
    <3>2. Slice(a, b) \in Seq(Rows)
      BY <1>3, SliceType DEF Sorted
    <3> QED
      BY <3>1, <3>2 DEF OutRow
  <2>2. {e.rows[y] : y \in 1..Len(e.rows)} = P
    BY <1>1, <1>2, SliceSet
  <2> QED
    BY <2>1, <2>2, <1>1, SeenAppend DEF View
<1> HIDE DEF P, e
<1> QED
  BY <1>1, <1>5, <1>6, <1>7, <1>8, <1>9 DEF Promise!Emit, Promise!Running, Seen, View

\* The one row of a call without keys has all rows.
LEMMA WholeEmits ==
    ASSUME IInv, IInv', Whole, ~Throws
    PROVE  Promise!Emit
<1> DEFINE e == [key |-> <<>>, rows |-> [x \in Rows |-> x]]
<1>1. in.k = 0 /\ out = <<>> /\ in \in GroupInputs /\ phase = "whole"
  BY DEF Whole, IInv, Typed, Fresh
<1>2. n \in Nat /\ \A x \in Rows : in.rows[x] \in [Keys -> DOMAIN Place]
  BY <1>1, InputFacts
<1>3. out' = <<e>> /\ phase' = "fill" /\ UNCHANGED in
  BY DEF Whole
<1>4. \A x \in Rows : in.rows[x] = <<>>
  <2>1. Keys = {}
    BY <1>1 DEF Keys
  <2>2. \A f, h \in [Keys -> DOMAIN Place] : f = h
    BY <2>1
  <2>3. <<>> \in [Keys -> DOMAIN Place]
    BY <2>1
  <2> QED
    BY <2>2, <2>3, <1>2
<1>5. View(e) = [key |-> <<>>, rows |-> Rows]
  <2>1. Len([x \in Rows |-> x]) = n
    BY <1>2 DEF Rows
  <2>2. {[x \in Rows |-> x][y] : y \in 1..n} = Rows
    BY DEF Rows
  <2> QED
    BY <2>1, <2>2 DEF View
<1>6. Seen' = Append(Seen, View(e))
  <2>1. e \in OutRow
    <3>1. <<>> \in [Keys -> DOMAIN Place]
      BY <1>1 DEF Keys
    <3>2. [x \in Rows |-> x] \in Seq(Rows)
      BY <1>2 DEF Rows
    <3> QED
      BY <3>1, <3>2 DEF OutRow
  <2> HIDE DEF e
  <2>2. out' = Append(out, e)
    BY <1>1, <1>3
  <2> QED
    BY <2>1, <2>2, <1>3, SeenAppend
<1>7. Promise!Parts = {Rows} /\ Promise!Emitted = {}
  <2>1. Len(Seen) = 0
    BY <1>1, SeenType
  <2>2. Promise!Emitted = {}
    BY <2>1, EmittedSeen
  <2> QED
    BY <2>2, <1>1 DEF Promise!Parts, Promise!Rows, Rows, n
<1>8. Rows \in Promise!Parts \ Promise!Emitted
      /\ Promise!Parts \ (Promise!Emitted \cup {Rows}) = {}
  BY <1>7
<1>9. \E key \in {in.rows[x] : x \in Rows} \cup {<<>>} :
        /\ \A x \in Rows : in.rows[x] = key
        /\ Seen' = Append(Seen, [key |-> key, rows |-> Rows])
  BY <1>4, <1>5, <1>6
<1>10. \A Q \in Promise!Parts \ (Promise!Emitted \cup {Rows}) : \A x \in Rows, y \in Q :
         Promise!Precedes(x, y)
  BY <1>8
<1> HIDE DEF e
<1> QED
  BY <1>1, <1>3, <1>8, <1>9, <1>10 DEF Promise!Emit, Promise!Running, Seen, View

\* The call returns when every class is emitted.
LEMMA BuildFinishes ==
    ASSUME IInv, Build
    PROVE  Promise!Finish
<1>1. phase = "fill" /\ phase' = "done" /\ UNCHANGED <<in, out>> /\ g > Len(groups)
  BY DEF Build
<1>2. in.k \in Nat /\ n \in Nat /\ Len(groups) \in Nat /\ g \in 1..Len(groups) + 1
  BY InputFacts DEF IInv, Typed
<1>3. Promise!Emitted = Promise!Parts
  <2>1. CASE in.k > 0
    <3>1. AllCut /\ g - 1 = Len(groups)
      BY <2>1, <1>1, <1>2 DEF AllCut
    <3> QED
      BY <3>1, EmittedRuns, PartsAreRuns
  <2>2. CASE in.k = 0
    <3> DEFINE e == [key |-> <<>>, rows |-> [x \in Rows |-> x]]
    <3>1. out = <<e>>
      BY <2>2, <1>1 DEF IInv, FillInv
    <3>2. View(e).rows = Rows
      <4>1. Len([x \in Rows |-> x]) = n
        BY <1>2 DEF Rows
      <4>2. {[x \in Rows |-> x][y] : y \in 1..n} = Rows
        BY DEF Rows
      <4> QED
        BY <4>1, <4>2 DEF View
    <3> HIDE DEF e
    <3>3. Len(out) = 1 /\ out[1] = e
      BY <3>1
    <3>4. Len(Seen) = 1 /\ Seen[1].rows = Rows
      BY <3>2, <3>3, SeenType
    <3>5. Promise!Emitted = {Rows}
      BY <3>4, EmittedSeen
    <3> QED
      BY <3>5, <2>2 DEF Promise!Parts, Promise!Rows, Rows, n
  <2> QED
    BY <1>2, <2>1, <2>2
<1> QED
  BY <1>1, <1>3 DEF Promise!Finish, Promise!Running

\* Why a call throws.
LEMMA ThrowsRefused ==
    ASSUME IInv, Throws
    PROVE  \E p \in 1..Len(in.pairs) : <<in.pairs[p].col, Lower[in.pairs[p].fn]>> \in Refused
<1>1. PICK t \in DOMAIN agg_map : agg_map[t] \in Refused
  BY DEF Throws
<1>2. agg_map[t] = <<t[1], t[2]>> /\ \E p \in 1..q - 1 : IsName(t, p)
  BY DEF IInv, NamesInv, NameByName
<1>3. PICK p \in 1..q - 1 : IsName(t, p)
  BY <1>2
<1>4. t[1] = in.pairs[p].col /\ t[2] = Fn(p)
  BY <1>3 DEF IsName
<1>5. p \in 1..Len(in.pairs)
  BY InputFacts DEF IInv, Typed
<1> QED
  BY <1>1, <1>2, <1>4, <1>5 DEF Fn

LEMMA ErrorFails ==
    ASSUME IInv, Next, phase' = "error"
    PROVE  Promise!Fail
<1>1. in.k \in Nat /\ n \in Nat /\ Len(in.pairs) \in Nat /\ Len(groups) \in Nat
      /\ in \in GroupInputs
  BY InputFacts DEF IInv, Typed
<1>2. phase \notin {"done", "error"} /\ UNCHANGED <<in, out>>
  BY DEF Next, Name, TrySuffix, TakeName, Named, Whole, Sort, Cut, CutLast, Fill, Build
<1>3. CASE Name
  <2>1. q \in 1..Len(in.pairs) /\ Fn(q) \notin Supported
    BY <1>1, <1>3 DEF Name, TakeName, IInv, Typed
  <2> QED
    BY <2>1, <1>2 DEF Promise!Fail, Promise!Running, Fn
<1>4. CASE Whole
  <2>1. Throws /\ in.k = 0
    BY <1>4 DEF Whole, IInv, Typed
  <2> QED
    BY <2>1, <1>2, ThrowsRefused DEF Promise!Fail, Promise!Running
<1>5. CASE Sort
  <2>1. (~in.present \/ n = 0) /\ in.k > 0
    BY <1>5 DEF Sort, IInv, Typed
  <2>2. n = 0 => in.rows = <<>>
    <3>1. in.rows \in Seq([1..in.k -> DOMAIN Place])
      BY <1>1, InputsAssumption
    <3> QED
      BY <3>1 DEF n
  <2> QED
    BY <2>1, <2>2, <1>2 DEF Promise!Fail, Promise!Running
<1>6. CASE Fill
  <2>1. Throws /\ 1 \in 1..Len(groups)
    BY <1>1, <1>6 DEF Fill, IInv, Typed
  <2>2. n # 0
    BY <2>1, <1>1 DEF IInv, RunsInside, Rows
  <2>3. in.rows # <<>>
    BY <2>2 DEF n
  <2> QED
    BY <2>1, <2>3, <1>2, ThrowsRefused DEF Promise!Fail, Promise!Running
<1> QED
  BY <1>3, <1>4, <1>5, <1>6
  DEF Next, TrySuffix, TakeName, Named, Cut, CutLast, Build

\* Every step is a step of RelationalGrouping, or changes nothing of it.
LEMMA StepRefines == IInv /\ IInv' /\ [Next]_vars => [Promise!Next]_(Promise!vars)
<1> SUFFICES ASSUME IInv, IInv', [Next]_vars PROVE [Promise!Next]_(Promise!vars)
  OBVIOUS
<1>1. CASE UNCHANGED vars
  <2>1. UNCHANGED <<in, out, phase>>
    BY <1>1 DEF vars
  <2> QED
    BY <2>1 DEF Promise!vars
<1>2. CASE Next /\ phase' = "error"
  BY <1>2, ErrorFails DEF Promise!Next
<1>3. CASE Build
  BY <1>3, BuildFinishes DEF Promise!Next
<1>4. CASE Whole /\ ~Throws
  BY <1>4, WholeEmits DEF Promise!Next
<1>5. CASE Fill /\ ~Throws
  BY <1>5, FillEmits DEF Promise!Next
<1>6. CASE (Name \/ TrySuffix \/ Named \/ Sort \/ Cut \/ CutLast) /\ phase' # "error"
  <2>1. UNCHANGED <<in, out>> /\ phase \notin {"done", "error"} /\ phase' \notin {"done", "error"}
    BY <1>6 DEF Name, TrySuffix, TakeName, Named, Sort, Cut, CutLast
  <2> QED
    BY <2>1 DEF Promise!Next, Promise!Internal, Promise!Running
<1>7. CASE (Whole \/ Fill) /\ Throws
  BY <1>7, <1>2 DEF Whole, Fill, Next
<1> QED
  BY <1>1, <1>2, <1>3, <1>4, <1>5, <1>6, <1>7 DEF Next

LEMMA InitRefines == Init => Promise!Init
<1> SUFFICES ASSUME Init PROVE Promise!Init
  OBVIOUS
<1>1. Len(out) = 0 /\ 1..0 = {}
  BY DEF Init
<1>2. Seen = <<>>
  BY <1>1 DEF Seen
<1> QED
  BY <1>2 DEF Init, Promise!Init, Promise!Running, Seen, View

\* aggregate outputs one row for each distinct key, in key order, made of exactly the rows
\* that have it: sorting, cutting and filling implement the grouping, whatever the table,
\* the keys and the pairs.
THEOREM AggregateImplementsGrouping == Spec => ImplementsGrouping
<1>1. Init => Promise!Init
  BY InitRefines
<1>2. IInv /\ IInv' /\ [Next]_vars => [Promise!Next]_(Promise!vars)
  BY StepRefines
<1> QED
  BY <1>1, <1>2, Invariance, PTL DEF Spec, ImplementsGrouping, Promise!Spec
=============================================================================
