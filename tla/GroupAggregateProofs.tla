------------------------ MODULE GroupAggregateProofs ------------------------
(***************************************************************************)
(* Theorems about GroupAggregate, for every table, number of keys and list *)
(* of pairs.                                                               *)
(***************************************************************************)
EXTENDS GroupAggregate, FiniteSetTheorems, TLAPS

Fresh == phase \in {"names", "suffix", "whole", "sort"}

Sorted == order \in [Rows -> Rows] /\ StableSort(order)

OutRow == [key : [Keys -> DOMAIN Place], rows : Seq(Rows)]

\* Types, and what is still as Init left it before the rows are cut and filled.
Typed ==
    /\ in \in GroupInputs
    /\ phase \in {"names", "suffix", "whole", "sort", "cut", "fill", "done", "error"}
    /\ q \in 1..Len(in.pairs) + 1
    /\ suffix \in Nat /\ suffix >= 2 /\ (phase # "suffix" => suffix = 2)
    /\ phase = "suffix" => q <= Len(in.pairs)
    /\ order = <<>> \/ order \in [Rows -> Rows]
    /\ i \in 2..n + 2 /\ start \in 1..n + 1 /\ start < i
    /\ groups \in Seq(Nat \X Nat) /\ g \in 1..Len(groups) + 1
    /\ out \in Seq(OutRow)
    /\ Fresh => groups = <<>> /\ start = 1 /\ i = 2 /\ out = <<>>
    /\ Fresh \/ phase = "cut" => g = 1 /\ out = <<>>
    /\ phase = "sort" => in.k > 0
    /\ phase = "whole" => in.k = 0
    /\ in.k = 0 => groups = <<>>
    /\ phase = "cut" => n > 0 /\ in.k > 0 /\ i <= n + 1
    /\ phase \in {"cut", "fill", "done"} /\ in.k > 0 => Sorted

\* The runs and the cursors of TypeOK.
RunsInside ==
    \A x \in 1..Len(groups) : /\ groups[x][1] \in Rows /\ groups[x][2] \in 2..n + 1
                              /\ groups[x][1] < groups[x][2]

-----------------------------------------------------------------------------
LEMMA AppendFacts ==
    ASSUME NEW S, NEW s \in Seq(S), NEW e \in S
    PROVE  /\ Append(s, e) \in Seq(S)
           /\ Len(s) \in Nat
           /\ Len(Append(s, e)) = Len(s) + 1
           /\ \A x \in 1..Len(s) : Append(s, e)[x] = s[x]
           /\ Append(s, e)[Len(s) + 1] = e
  OBVIOUS

\* The arguments are well typed.
LEMMA InputFacts ==
    ASSUME in \in GroupInputs
    PROVE  /\ n \in Nat /\ in.k \in Nat /\ Len(in.pairs) \in Nat
           /\ \A x \in Rows : in.rows[x] \in [Keys -> DOMAIN Place]
           /\ \A p \in 1..Len(in.pairs) : in.pairs[p].fn \in DOMAIN Lower
<1>1. /\ in.k \in Nat /\ in.rows \in Seq([1..in.k -> DOMAIN Place])
      /\ \A p \in 1..Len(in.pairs) : in.pairs[p].fn \in DOMAIN Lower
      /\ in.pairs \in Seq([col : {in.pairs[p].col : p \in 1..Len(in.pairs)}, fn : DOMAIN Lower])
  BY InputsAssumption
<1>2. Len(in.pairs) \in Nat
  BY <1>1
<1>3. Len(in.rows) \in Nat /\ \A x \in 1..Len(in.rows) : in.rows[x] \in [1..in.k -> DOMAIN Place]
  BY <1>1
<1> QED
  BY <1>1, <1>2, <1>3 DEF n, Rows, Keys

\* What stays the same when the arguments do.
LEMMA Fixed ==
    ASSUME UNCHANGED in
    PROVE  /\ n' = n /\ Rows' = Rows /\ Keys' = Keys /\ OutRow' = OutRow
           /\ \A p : StableSort(p)' <=> StableSort(p)
           /\ \A x, y : keysDiffer(x, y)' <=> keysDiffer(x, y)
           /\ \A p : Fn(p)' = Fn(p)
  BY DEF n, Rows, Keys, OutRow, StableSort, KeyBefore, keysDiffer, Fn

\* A slice of the sorted rows is a sequence of rows.
LEMMA SliceType ==
    ASSUME n \in Nat, order \in [Rows -> Rows],
           NEW a \in Rows, NEW b \in 2..n + 1, a < b
    PROVE  /\ Slice(a, b) \in Seq(Rows) /\ Len(Slice(a, b)) = b - a
           /\ \A x \in 1..b - a : Slice(a, b)[x] = order[a + x - 1] /\ a + x - 1 \in a..b - 1
<1>1. \A x \in 1..b - a : a + x - 1 \in Rows /\ a + x - 1 \in a..b - 1
  BY DEF Rows
<1>2. b - a \in Nat
  BY DEF Rows
<1>3. Slice(a, b) \in [1..b - a -> Rows]
  BY <1>1 DEF Slice
<1>4. Slice(a, b) \in Seq(Rows) /\ Len(Slice(a, b)) = b - a
  BY <1>2, <1>3
<1> QED
  BY <1>1, <1>4 DEF Slice

-----------------------------------------------------------------------------
\* Types.

LEMMA TypedInit == Init => Typed /\ RunsInside
<1> SUFFICES ASSUME Init PROVE Typed /\ RunsInside
  OBVIOUS
<1>1. n \in Nat /\ in.k \in Nat /\ Len(in.pairs) \in Nat
  BY InputFacts DEF Init
<1>2. Len(<<>>) = 0
  OBVIOUS
<1> QED
  BY <1>1, <1>2 DEF Init, Typed, RunsInside, Fresh

\* A run that is appended keeps the runs inside the rows.
LEMMA AppendRun ==
    ASSUME in \in GroupInputs, groups \in Seq(Nat \X Nat), RunsInside, UNCHANGED in,
           NEW a \in Rows, NEW b \in 2..n + 1, a < b, groups' = Append(groups, <<a, b>>)
    PROVE  /\ groups' \in Seq(Nat \X Nat) /\ RunsInside'
           /\ Len(groups) \in Nat /\ Len(groups') = Len(groups) + 1
           /\ \A x \in 1..Len(groups) : groups'[x] = groups[x]
           /\ groups'[Len(groups) + 1] = <<a, b>>
<1>1. n \in Nat
  BY InputFacts
<1>2. <<a, b>> \in Nat \X Nat
  BY <1>1 DEF Rows
<1>3. /\ groups' \in Seq(Nat \X Nat)
      /\ Len(groups) \in Nat /\ Len(groups') = Len(groups) + 1
      /\ \A x \in 1..Len(groups) : groups'[x] = groups[x]
      /\ groups'[Len(groups) + 1] = <<a, b>>
  BY <1>2, AppendFacts
<1>4. ASSUME NEW x \in 1..Len(groups')
      PROVE  groups'[x][1] \in Rows /\ groups'[x][2] \in 2..n + 1 /\ groups'[x][1] < groups'[x][2]
  <2>1. CASE x \in 1..Len(groups)
    BY <2>1, <1>3 DEF RunsInside
  <2>2. CASE x = Len(groups) + 1
    BY <2>2, <1>3
  <2> QED
    BY <1>3, <2>1, <2>2
<1> QED
  BY <1>3, <1>4, Fixed DEF RunsInside

LEMMA TypedStep == Typed /\ RunsInside /\ [Next]_vars => Typed' /\ RunsInside'
<1> SUFFICES ASSUME Typed, RunsInside, [Next]_vars PROVE Typed' /\ RunsInside'
  OBVIOUS
<1> USE DEF Typed, Fresh
<1>0. n \in Nat /\ in.k \in Nat /\ Len(in.pairs) \in Nat
  BY InputFacts
<1>a. ASSUME UNCHANGED <<in, groups>> PROVE RunsInside'
  BY <1>a, Fixed DEF RunsInside
<1>b. ASSUME UNCHANGED in PROVE Sorted' <=> (order' \in [Rows -> Rows] /\ StableSort(order)')
  BY <1>b, Fixed DEF Sorted
<1>c. ASSUME UNCHANGED <<in, order>> PROVE Sorted' <=> Sorted
  BY <1>c, Fixed DEF Sorted, StableSort, KeyBefore
<1>1. CASE Name
  BY <1>1, <1>0, <1>a, <1>c, Fixed DEF Name, TakeName
<1>2. CASE TrySuffix
  BY <1>2, <1>0, <1>a, <1>c, Fixed DEF TrySuffix, TakeName
<1>3. CASE Named
  BY <1>3, <1>0, <1>a, <1>c, Fixed DEF Named
<1>4. CASE Whole
  <2>1. CASE Throws
    BY <2>1, <1>4, <1>0, <1>a, <1>c, Fixed DEF Whole
  <2>2. CASE ~Throws
    <3>1. out' = <<[key |-> <<>>, rows |-> [x \in Rows |-> x]]>>
      BY <2>2, <1>4 DEF Whole
    <3>2. <<>> \in [Keys -> DOMAIN Place]
      BY <1>4, <1>0 DEF Whole, Keys
    <3>3. [x \in Rows |-> x] \in Seq(Rows)
      BY <1>0 DEF Rows
    <3>4. out' \in Seq(OutRow)
      BY <3>1, <3>2, <3>3 DEF OutRow
    <3> QED
      BY <3>4, <2>2, <1>4, <1>0, <1>a, <1>c, Fixed DEF Whole
  <2> QED
    BY <2>1, <2>2
<1>5. CASE Sort
  <2>1. CASE phase' = "error" /\ UNCHANGED order
    BY <2>1, <1>5, <1>0, <1>a, <1>c, Fixed DEF Sort
  <2>2. ASSUME NEW p \in [Rows -> Rows], StableSort(p), order' = p,
               phase' = IF n > 0 THEN "cut" ELSE "fill"
        PROVE  Typed' /\ RunsInside'
    <3>1. Sorted'
      BY <2>2, <1>5, Fixed DEF Sort, Sorted, StableSort, KeyBefore
    <3> QED
      BY <3>1, <2>2, <1>5, <1>0, <1>a, Fixed DEF Sort
  <2> QED
    BY <2>1, <2>2, <1>5 DEF Sort
<1>6. CASE Cut
  <2>1. i \in 2..n
    BY <1>6, <1>0 DEF Cut
  <2>2. CASE groups' = Append(groups, <<start, i>>) /\ start' = i
    <3>1. start \in Rows /\ i \in 2..n + 1 /\ start < i
      BY <2>1, <1>0 DEF Rows
    <3>2. groups' \in Seq(Nat \X Nat) /\ RunsInside' /\ Len(groups) \in Nat
          /\ Len(groups') = Len(groups) + 1
      BY <3>1, <2>2, <1>6, AppendRun DEF Cut
    <3> QED
      BY <2>1, <2>2, <3>2, <1>6, <1>0, <1>c, Fixed DEF Cut
  <2>3. CASE UNCHANGED <<groups, start>>
    BY <2>1, <2>3, <1>6, <1>0, <1>a, <1>c, Fixed DEF Cut
  <2> QED
    BY <2>2, <2>3, <1>6 DEF Cut
<1>7. CASE CutLast
  <2>1. start \in Rows /\ n + 1 \in 2..n + 1 /\ start < n + 1
    BY <1>7, <1>0 DEF CutLast, Rows
  <2>2. groups' \in Seq(Nat \X Nat) /\ RunsInside' /\ Len(groups) \in Nat
        /\ Len(groups') = Len(groups) + 1
    BY <2>1, <1>7, AppendRun DEF CutLast
  <2> QED
    BY <2>2, <1>7, <1>0, <1>c, Fixed DEF CutLast
<1>8. CASE Fill
  <2>1. CASE Throws
    BY <2>1, <1>8, <1>0, <1>a, <1>c, Fixed DEF Fill
  <2>2. CASE ~Throws
    <3> DEFINE e == [key |-> in.rows[order[groups[g][1]]], rows |-> Slice(groups[g][1], groups[g][2])]
    <3>1. out' = Append(out, e) /\ g' = g + 1 /\ g \in 1..Len(groups) /\ UNCHANGED <<phase, groups, order, in>>
      BY <2>2, <1>8, <1>0 DEF Fill
    <3>2. in.k > 0
      BY <3>1, <1>0
    <3>3. order \in [Rows -> Rows]
      BY <3>2, <1>8 DEF Fill, Sorted
    <3>4. /\ groups[g][1] \in Rows /\ groups[g][2] \in 2..n + 1
          /\ groups[g][1] < groups[g][2]
      BY <3>1 DEF RunsInside
    <3>5. e \in OutRow
      <4>1. in.rows[order[groups[g][1]]] \in [Keys -> DOMAIN Place]
        BY <3>3, <3>4, InputFacts
      <4>2. Slice(groups[g][1], groups[g][2]) \in Seq(Rows)
        BY <3>3, <3>4, <1>0, SliceType
      <4> QED
        BY <4>1, <4>2 DEF OutRow
    <3>6. out' \in Seq(OutRow)
      BY <3>1, <3>5, AppendFacts
    <3>7. Len(groups) \in Nat
      OBVIOUS
    <3> QED
      BY <3>1, <3>2, <3>6, <3>7, <1>8, <1>a, <1>c, Fixed DEF Fill
  <2> QED
    BY <2>1, <2>2
<1>9. CASE Build
  BY <1>9, <1>0, <1>a, <1>c, Fixed DEF Build
<1>10. CASE UNCHANGED vars
  BY <1>10, <1>0, <1>a, <1>c, Fixed DEF vars
<1> QED
  BY <1>1, <1>2, <1>3, <1>4, <1>5, <1>6, <1>7, <1>8, <1>9, <1>10 DEF Next
-----------------------------------------------------------------------------
\* The cut.

\* Two rows have one key, which equals itself.
Alike(x, y) == \A c \in Keys : in.rows[x][c] = in.rows[y][c] /\ in.rows[x][c] # NaN

\* At positions a to b - 1 the rows have one key; and so has no other row.
Joined(a, b) == \A y, z \in a..b - 1 : y # z => Alike(order[y], order[z])
Apart(a, b)  == \A y \in a..b - 1, z \in Rows \ (a..b - 1) : ~Alike(order[y], order[z])

\* The first position that is in no run.
Uncut == IF phase = "cut" THEN start ELSE n + 1

\* The runs follow each other, hold every position before Uncut, and are exact; the row
\* before the open run differs from its first.
CutInv ==
    phase \in {"cut", "fill", "done"} /\ in.k > 0 =>
        /\ \A x \in 1..Len(groups) : groups[x][1] = IF x = 1 THEN 1 ELSE groups[x - 1][2]
        /\ groups # <<>> => groups[Len(groups)][2] = Uncut
        /\ \A z \in Rows : z < Uncut =>
              \E x \in 1..Len(groups) : z \in groups[x][1]..groups[x][2] - 1
        /\ \A x \in 1..Len(groups) : Joined(groups[x][1], groups[x][2]) /\ Apart(groups[x][1], groups[x][2])
        /\ phase = "cut" => /\ Joined(start, i)
                            /\ start > 1 => ~Alike(order[start - 1], order[start])
                            /\ groups = <<>> => start = 1

LEMMA AlikeEquivalence ==
    ASSUME NEW x, NEW y, NEW z
    PROVE  /\ Alike(x, y) => Alike(y, x)
           /\ Alike(x, y) /\ Alike(y, z) => Alike(x, z)
  BY DEF Alike

\* keysDiffer is the negation.
LEMMA DifferOrAlike == \A x, y : keysDiffer(x, y) <=> ~Alike(x, y)
  BY DEF keysDiffer, Alike

\* Rows that are alike are equal, and only equal rows have no place before each other.
LEMMA AlikeIsEqual ==
    ASSUME in \in GroupInputs, NEW x \in Rows, NEW y \in Rows, Alike(x, y)
    PROVE  in.rows[x] = in.rows[y]
  BY InputFacts DEF Alike

\* Between two sorted rows that are alike all rows are.
LEMMA Between ==
    ASSUME in \in GroupInputs, Sorted,
           NEW a \in Rows, NEW b \in Rows, NEW c \in Rows, a < b, b < c,
           Alike(order[a], order[c])
    PROVE  Alike(order[a], order[b]) /\ Alike(order[b], order[c])
<1> DEFINE A == order[a]
           B == order[b]
           C == order[c]
<1>1. A \in Rows /\ B \in Rows /\ C \in Rows
  BY DEF Sorted
<1>2. in.rows[A] = in.rows[C]
  BY <1>1, AlikeIsEqual
<1>3. KeyBefore(A, B) \/ in.rows[A] = in.rows[B]
  BY DEF Sorted, StableSort
<1>4. KeyBefore(B, C) \/ in.rows[B] = in.rows[C]
  BY DEF Sorted, StableSort
<1>5. ASSUME KeyBefore(A, B), KeyBefore(B, C) PROVE FALSE
  <2>1. PICK d \in Keys : /\ Place[in.rows[A][d]] < Place[in.rows[B][d]]
                          /\ \A e \in 1..d - 1 : in.rows[A][e] = in.rows[B][e]
    BY <1>5 DEF KeyBefore
  <2>2. PICK f \in Keys : /\ Place[in.rows[B][f]] < Place[in.rows[C][f]]
                          /\ \A e \in 1..f - 1 : in.rows[B][e] = in.rows[C][e]
    BY <1>5 DEF KeyBefore
  <2>3. d \in Nat /\ f \in Nat /\ d >= 1 /\ f >= 1
    BY InputFacts DEF Keys
  <2>4. /\ Place[in.rows[A][d]] \in Int /\ Place[in.rows[B][d]] \in Int
        /\ Place[in.rows[A][f]] \in Int /\ Place[in.rows[B][f]] \in Int
    BY <1>1, InputFacts, PlaceAssumption
  <2>5. CASE d < f
    <3>1. in.rows[B][d] = in.rows[A][d]
      BY <2>2, <2>3, <2>5, <1>2
    <3> QED
      BY <3>1, <2>1, <2>4
  <2>6. CASE f < d
    <3>1. in.rows[A][f] = in.rows[B][f]
      BY <2>1, <2>3, <2>6
    <3> QED
      BY <3>1, <2>2, <2>4, <1>2
  <2>7. CASE d = f
    BY <2>1, <2>2, <2>4, <2>7, <1>2
  <2> QED
    BY <2>3, <2>5, <2>6, <2>7
<1>6. ASSUME NEW x \in Rows, NEW y \in Rows, KeyBefore(x, y) PROVE in.rows[x] # in.rows[y]
  <2>1. PICK d \in Keys : Place[in.rows[x][d]] < Place[in.rows[y][d]]
    BY <1>6 DEF KeyBefore
  <2>2. Place[in.rows[x][d]] \in Int
    BY InputFacts, PlaceAssumption
  <2> QED
    BY <2>1, <2>2
<1>7. in.rows[A] = in.rows[B]
  BY <1>1, <1>2, <1>3, <1>4, <1>5, <1>6
<1> QED
  BY <1>7, <1>2 DEF Alike

\* A gap between neighbours is a gap between all before and all after it.
LEMMA Gap ==
    ASSUME in \in GroupInputs, Sorted,
           NEW c \in Rows, c > 1, ~Alike(order[c - 1], order[c]),
           NEW y \in Rows, NEW z \in Rows, y < c, c <= z
    PROVE  ~Alike(order[y], order[z])
<1> SUFFICES ASSUME Alike(order[y], order[z]) PROVE FALSE
  OBVIOUS
<1>1. n \in Nat /\ c - 1 \in Rows
  BY InputFacts DEF Rows
<1>2. Alike(order[y], order[c])
  <2>1. CASE z = c
    BY <2>1
  <2>2. CASE c < z
    BY <2>2, Between
  <2> QED
    BY <2>1, <2>2, <1>1 DEF Rows
<1>3. CASE y = c - 1
  BY <1>2, <1>3
<1>4. CASE y < c - 1
  BY <1>1, <1>2, <1>4, Between DEF Rows
<1> QED
  BY <1>1, <1>3, <1>4 DEF Rows

\* The open run, closed before a row that differs or after the last one, is exact.
LEMMA CloseRun ==
    ASSUME in \in GroupInputs, Sorted,
           NEW a \in Rows, NEW b \in 2..n + 1, a < b,
           a > 1 => ~Alike(order[a - 1], order[a]),
           b <= n => ~Alike(order[b - 1], order[b])
    PROVE  Apart(a, b)
<1> SUFFICES ASSUME NEW y \in a..b - 1, NEW z \in Rows \ (a..b - 1), Alike(order[y], order[z])
             PROVE  FALSE
  BY DEF Apart
<1>1. n \in Nat /\ y \in Rows
  BY InputFacts DEF Rows
<1>2. CASE z < a
  <2>1. a > 1 /\ z < a /\ a <= y
    BY <1>1, <1>2 DEF Rows
  <2>2. ~Alike(order[z], order[y])
    BY <1>1, <2>1, Gap
  <2> QED
    BY <2>2, AlikeEquivalence
<1>3. CASE z >= b
  <2>1. b \in Rows /\ b > 1 /\ b <= n /\ y < b /\ b <= z
    BY <1>1, <1>3 DEF Rows
  <2> QED
    BY <1>1, <2>1, Gap
<1> QED
  BY <1>1, <1>2, <1>3 DEF Rows

\* One more row that is like the last one joins the open run.
LEMMA GrowRun ==
    ASSUME NEW a \in Nat, NEW b \in Nat, a < b, Joined(a, b), Alike(order[b - 1], order[b])
    PROVE  Joined(a, b + 1)
<1> SUFFICES ASSUME NEW y \in a..b, NEW z \in a..b, y # z
             PROVE  Alike(order[y], order[z])
  BY DEF Joined
<1>1. ASSUME NEW x \in a..b - 1 PROVE Alike(order[x], order[b])
  <2>1. CASE x = b - 1
    BY <2>1
  <2>2. CASE x < b - 1
    BY <1>1, <2>2, AlikeEquivalence DEF Joined
  <2> QED
    BY <2>1, <2>2
<1>2. CASE y = b
  BY <1>1, <1>2, AlikeEquivalence
<1>3. CASE z = b
  BY <1>1, <1>3
<1>4. CASE y # b /\ z # b
  BY <1>4 DEF Joined
<1> QED
  BY <1>2, <1>3, <1>4

\* None of this depends on more than the table and the sorted rows.
LEMMA FixedRows ==
    ASSUME UNCHANGED <<in, order>>
    PROVE  /\ \A x, y : Alike(x, y)' <=> Alike(x, y)
           /\ \A a, b : Joined(a, b)' <=> Joined(a, b)
           /\ \A a, b : Apart(a, b)' <=> Apart(a, b)
           /\ \A a, b : Slice(a, b)' = Slice(a, b)
<1>1. Keys' = Keys /\ Rows' = Rows
  BY Fixed
<1>2. \A x, y : Alike(x, y)' <=> Alike(x, y)
  BY <1>1 DEF Alike
<1> QED
  BY <1>1, <1>2 DEF Joined, Apart, Slice

\* Closing the open run, the next one opened at the row after it.
LEMMA CutRun ==
    ASSUME Typed, RunsInside, CutInv, phase = "cut", UNCHANGED <<in, order>>,
           i <= n => ~Alike(order[i - 1], order[i]),
           groups' = Append(groups, <<start, i>>)
    PROVE  /\ \A x \in 1..Len(groups') : groups'[x][1] = IF x = 1 THEN 1 ELSE groups'[x - 1][2]
           /\ groups' # <<>> /\ groups'[Len(groups')][2] = i
           /\ \A z \in Rows : z < i =>
                \E x \in 1..Len(groups') : z \in groups'[x][1]..groups'[x][2] - 1
           /\ \A x \in 1..Len(groups') :
                Joined(groups'[x][1], groups'[x][2]) /\ Apart(groups'[x][1], groups'[x][2])
<1>1. /\ n \in Nat /\ start \in Rows /\ start < i /\ i \in 2..n + 1 /\ in \in GroupInputs /\ Sorted /\ in.k > 0
      /\ groups \in Seq(Nat \X Nat)
  BY InputFacts DEF Typed, Rows
<1>2. /\ Len(groups) \in Nat /\ Len(groups') = Len(groups) + 1
      /\ \A x \in 1..Len(groups) : groups'[x] = groups[x]
      /\ groups'[Len(groups) + 1] = <<start, i>>
  BY <1>1, AppendRun
<1>3. /\ \A x \in 1..Len(groups) : groups[x][1] = IF x = 1 THEN 1 ELSE groups[x - 1][2]
      /\ groups # <<>> => groups[Len(groups)][2] = start
      /\ \A z \in Rows : z < start =>
            \E x \in 1..Len(groups) : z \in groups[x][1]..groups[x][2] - 1
      /\ \A x \in 1..Len(groups) : Joined(groups[x][1], groups[x][2]) /\ Apart(groups[x][1], groups[x][2])
      /\ Joined(start, i) /\ (start > 1 => ~Alike(order[start - 1], order[start]))
      /\ groups = <<>> => start = 1
  BY <1>1 DEF CutInv, Uncut
<1>4. Apart(start, i)
  BY <1>1, <1>3, CloseRun
<1>5. ASSUME NEW x \in 1..Len(groups')
      PROVE  /\ groups'[x][1] = IF x = 1 THEN 1 ELSE groups'[x - 1][2]
             /\ Joined(groups'[x][1], groups'[x][2]) /\ Apart(groups'[x][1], groups'[x][2])
  <2>1. CASE x \in 1..Len(groups)
    <3>1. x = 1 \/ x - 1 \in 1..Len(groups)
      BY <1>2, <2>1
    <3> QED
      BY <3>1, <1>2, <1>3, <2>1
  <2>2. CASE x = Len(groups) + 1
    <3>1. x = 1 <=> groups = <<>>
      BY <1>1, <1>2, <2>2
    <3>2. x = 1 \/ (x - 1 = Len(groups) /\ x - 1 \in 1..Len(groups))
      BY <1>2, <2>2
    <3> QED
      BY <3>1, <3>2, <1>2, <1>3, <1>4, <2>2
  <2> QED
    BY <1>2, <2>1, <2>2
<1>6. ASSUME NEW z \in Rows, z < i
      PROVE  \E x \in 1..Len(groups') : z \in groups'[x][1]..groups'[x][2] - 1
  <2>1. CASE z < start
    <3>1. PICK x \in 1..Len(groups) : z \in groups[x][1]..groups[x][2] - 1
      BY <2>1, <1>3
    <3> QED
      BY <3>1, <1>2
  <2>2. CASE start <= z
    <3>1. z \in start..i - 1 /\ Len(groups) + 1 \in 1..Len(groups')
      BY <1>1, <1>2, <1>6, <2>2 DEF Rows
    <3> QED
      BY <3>1, <1>2
  <2> QED
    BY <1>1, <2>1, <2>2 DEF Rows
<1>7. groups' # <<>> /\ groups'[Len(groups')][2] = i
  <2>1. Len(groups') # Len(<<>>)
    BY <1>2
  <2> QED
    BY <2>1, <1>2
<1> QED
  BY <1>5, <1>6, <1>7

LEMMA CutStep == Typed /\ RunsInside /\ CutInv /\ [Next]_vars => CutInv'
<1> SUFFICES ASSUME Typed, RunsInside, CutInv, [Next]_vars,
                    phase' \in {"cut", "fill", "done"}, in'.k > 0
             PROVE  CutInv'
  BY DEF CutInv
<1>0. n \in Nat /\ in \in GroupInputs
  BY InputFacts DEF Typed
<1>1. CASE Name \/ TrySuffix \/ Named
  BY <1>1 DEF Name, TrySuffix, TakeName, Named
<1>2. CASE Whole
  BY <1>2 DEF Whole, Typed
<1>3. CASE Sort
  <2>1. groups' = <<>> /\ start' = 1 /\ i' = 2 /\ n' = n /\ phase' = IF n > 0 THEN "cut" ELSE "fill"
    BY <1>3, Fixed DEF Sort, Typed, Fresh
  <2>2. Len(<<>>) = 0 /\ ~(\E z \in Rows' : z < Uncut')
    BY <2>1, <1>0, <1>3, Fixed DEF Sort, Uncut, Rows
  <2>3. Joined(1, 2)'
    BY DEF Joined
  <2> QED
    BY <2>1, <2>2, <2>3 DEF CutInv
<1>4. CASE Cut
  <2>1. /\ phase = "cut" /\ i \in 2..n /\ i' = i + 1 /\ UNCHANGED <<in, order, phase>> /\ n' = n
        /\ Rows' = Rows
    BY <1>0, <1>4, Fixed DEF Cut, Typed
  <2>2. Sorted /\ start \in Nat /\ start < i /\ in.k > 0
    BY <2>1, <1>0 DEF Typed
  <2>3. CASE keysDiffer(order[i - 1], order[i])
    <3>1. groups' = Append(groups, <<start, i>>) /\ start' = i
      BY <1>4, <2>3 DEF Cut
    <3>2. ~Alike(order[i - 1], order[i])
      BY <2>3, DifferOrAlike
    <3>3. /\ \A x \in 1..Len(groups') : groups'[x][1] = IF x = 1 THEN 1 ELSE groups'[x - 1][2]
          /\ groups' # <<>> /\ groups'[Len(groups')][2] = i
          /\ \A z \in Rows : z < i =>
                \E x \in 1..Len(groups') : z \in groups'[x][1]..groups'[x][2] - 1
          /\ \A x \in 1..Len(groups') :
                Joined(groups'[x][1], groups'[x][2]) /\ Apart(groups'[x][1], groups'[x][2])
      BY <2>1, <3>1, <3>2, <1>0, CutRun
    <3>4. Joined(i, i + 1)
      BY <2>1 DEF Joined
    <3> QED
      BY <2>1, <3>1, <3>2, <3>3, <3>4, FixedRows DEF CutInv, Uncut
  <2>4. CASE ~keysDiffer(order[i - 1], order[i])
    <3>1. UNCHANGED <<groups, start>>
      BY <1>4, <2>4 DEF Cut
    <3>2. Alike(order[i - 1], order[i])
      BY <2>4, DifferOrAlike
    <3>3. Joined(start, i + 1)
      BY <2>1, <2>2, <3>2, GrowRun DEF CutInv
    <3> QED
      BY <2>1, <2>2, <3>1, <3>3, FixedRows DEF CutInv, Uncut
  <2> QED
    BY <2>3, <2>4
<1>5. CASE CutLast
  <2>1. /\ phase = "cut" /\ phase' = "fill" /\ UNCHANGED <<in, order>> /\ n' = n /\ Rows' = Rows
        /\ groups' = Append(groups, <<start, n + 1>>)
    BY <1>5, Fixed DEF CutLast
  <2>2. n + 1 \in 2..n + 1 /\ n + 1 = i
    BY <1>5, <2>1, <1>0 DEF CutLast, Typed
  <2>3. /\ \A x \in 1..Len(groups') : groups'[x][1] = IF x = 1 THEN 1 ELSE groups'[x - 1][2]
        /\ groups' # <<>> /\ groups'[Len(groups')][2] = n + 1
        /\ \A z \in Rows : z < n + 1 =>
              \E x \in 1..Len(groups') : z \in groups'[x][1]..groups'[x][2] - 1
        /\ \A x \in 1..Len(groups') :
              Joined(groups'[x][1], groups'[x][2]) /\ Apart(groups'[x][1], groups'[x][2])
    <3>1. ~(i <= n)
      BY <1>0, <2>2
    <3>2. groups' = Append(groups, <<start, i>>)
      BY <2>1, <2>2
    <3> QED
      BY <2>1, <2>2, <3>1, <3>2, CutRun
  <2> QED
    BY <2>1, <2>3, FixedRows DEF CutInv, Uncut
<1>6. CASE Fill \/ Build \/ UNCHANGED vars
  <2>1. UNCHANGED <<in, order, groups, start, i>> /\ n' = n /\ Rows' = Rows
    BY <1>6, Fixed DEF Fill, Build, vars
  <2>2. \/ phase = "fill" /\ phase' \in {"fill", "done"}
        \/ phase' = phase
    BY <1>6 DEF Fill, Build, vars
  <2> QED
    BY <2>1, <2>2, FixedRows DEF CutInv, Uncut
<1> QED
  BY <1>1, <1>2, <1>3, <1>4, <1>5, <1>6 DEF Next

LEMMA CutExactFromCut == Typed /\ RunsInside /\ CutInv => CutExact
<1> SUFFICES ASSUME Typed, RunsInside, CutInv, phase \in {"cut", "fill", "done"}, in.k > 0
             PROVE  CutExact
  BY DEF CutExact
<1>1. n \in Nat /\ start \in Nat /\ i \in 2..n + 2
  BY InputFacts DEF Typed
<1>2. ASSUME NEW x \in 1..Len(groups), NEW y \in groups[x][1]..groups[x][2] - 1,
             NEW z \in Rows, y # z
      PROVE  z \in groups[x][1]..groups[x][2] - 1 <=> Alike(order[y], order[z])
  BY <1>2 DEF CutInv, Joined, Apart
<1>3. phase = "cut" => \A y, z \in start..i - 1 : y # z => Alike(order[y], order[z])
  BY DEF CutInv, Joined
<1> QED
  BY <1>2, <1>3 DEF CutExact, CutInv, Uncut, Alike

\* A slice with one key is in the order of the table.
LEMMA SliceInOrder ==
    ASSUME in \in GroupInputs, Sorted, NEW a \in Rows, NEW b \in 2..n + 1, a < b, Joined(a, b),
           NEW y \in 1..b - a, NEW z \in 1..b - a, y < z
    PROVE  Slice(a, b)[y] < Slice(a, b)[z]
<1> DEFINE Y == a + y - 1
           Z == a + z - 1
<1>1. n \in Nat /\ Y \in a..b - 1 /\ Z \in a..b - 1 /\ Y \in Rows /\ Z \in Rows /\ Y < Z
  BY InputFacts DEF Rows
<1>2. Alike(order[Y], order[Z])
  BY <1>1 DEF Joined
<1>3. order[Y] \in Rows /\ order[Z] \in Rows
  BY <1>1 DEF Sorted
<1>4. in.rows[order[Y]] = in.rows[order[Z]]
  BY <1>2, <1>3, AlikeIsEqual
<1>5. ~KeyBefore(order[Y], order[Z])
  <2>1. \A d \in Keys : Place[in.rows[order[Y]][d]] \in Int
    BY <1>3, InputFacts, PlaceAssumption
  <2> QED
    BY <2>1, <1>4 DEF KeyBefore
<1>6. order[Y] < order[Z]
  BY <1>1, <1>5 DEF Sorted, StableSort
<1> QED
  BY <1>6 DEF Slice

\* A run ends before the next ones begin.
Ascending == \A x, y \in 1..Len(groups) : x < y => groups[x][2] <= groups[y][1]

LEMMA AscendingStep ==
    Typed /\ RunsInside /\ CutInv /\ Ascending /\ [Next]_vars => Ascending'
<1> SUFFICES ASSUME Typed, RunsInside, CutInv, Ascending, [Next]_vars PROVE Ascending'
  OBVIOUS
<1>0. n \in Nat /\ in \in GroupInputs /\ groups \in Seq(Nat \X Nat)
  BY InputFacts DEF Typed
<1>1. CASE UNCHANGED groups
  BY <1>1 DEF Ascending
<1>2. ASSUME phase = "cut", UNCHANGED in, NEW b \in 2..n + 1, start < b,
             groups' = Append(groups, <<start, b>>)
      PROVE  Ascending'
  <2>1. start \in Rows
    BY <1>0, <1>2 DEF Typed, Rows
  <2>2. /\ Len(groups) \in Nat /\ Len(groups') = Len(groups) + 1
        /\ \A x \in 1..Len(groups) : groups'[x] = groups[x]
        /\ groups'[Len(groups) + 1] = <<start, b>>
    BY <2>1, <1>0, <1>2, AppendRun
  <2>3. ASSUME NEW x \in 1..Len(groups) PROVE groups[x][2] <= start
    <3>1. groups # <<>> /\ Len(groups) \in 1..Len(groups)
      BY <2>2, <2>3
    <3>2. groups[Len(groups)][2] = start
      BY <3>1, <1>2 DEF CutInv, Uncut, Typed
    <3>3. x < Len(groups) => groups[x][2] <= groups[Len(groups)][1]
      BY <3>1 DEF Ascending
    <3>4. /\ groups[x][2] \in Int /\ groups[Len(groups)][1] \in Int
          /\ groups[Len(groups)][1] < start /\ start \in Int
      <4>1. \A y \in 1..Len(groups) : groups[y][1] \in Int /\ groups[y][2] \in Int
                                        /\ groups[y][1] < groups[y][2]
        BY <1>0 DEF RunsInside, Rows
      <4> QED
        BY <4>1, <3>1, <3>2, <2>1, <1>0 DEF Rows
    <3> QED
      BY <2>2, <3>2, <3>3, <3>4
  <2> QED
    BY <2>2, <2>3 DEF Ascending
<1>3. CASE Cut /\ ~UNCHANGED groups
  <2>1. phase = "cut" /\ groups' = Append(groups, <<start, i>>) /\ UNCHANGED in
    BY <1>3 DEF Cut
  <2>2. i \in 2..n + 1 /\ start < i
    BY <2>1, <1>0 DEF Typed
  <2> QED
    BY <2>1, <2>2, <1>2
<1>4. CASE CutLast
  <2>1. phase = "cut" /\ groups' = Append(groups, <<start, n + 1>>) /\ UNCHANGED in
    BY <1>4 DEF CutLast
  <2>2. n + 1 \in 2..n + 1 /\ start < n + 1
    BY <1>0, <2>1 DEF Typed
  <2> QED
    BY <2>1, <2>2, <1>2
<1> QED
  BY <1>1, <1>3, <1>4
  DEF Next, Name, TrySuffix, TakeName, Named, Whole, Sort, Fill, Build, vars

LEMMA InOrderStep ==
    Typed /\ RunsInside /\ CutInv /\ RowsInOrder /\ [Next]_vars => RowsInOrder'
<1> SUFFICES ASSUME Typed, RunsInside, CutInv, RowsInOrder, [Next]_vars PROVE RowsInOrder'
  OBVIOUS
<1>0. n \in Nat /\ in \in GroupInputs
  BY InputFacts DEF Typed
<1>1. CASE UNCHANGED out
  BY <1>1 DEF RowsInOrder
<1>2. CASE Whole /\ ~UNCHANGED out
  <2>1. out' = <<[key |-> <<>>, rows |-> [x \in 1..n |-> x]]>>
    BY <1>2 DEF Whole, Rows
  <2>2. Len(out') = 1 /\ out'[1].rows = [x \in 1..n |-> x] /\ Len([x \in 1..n |-> x]) = n
    BY <2>1, <1>0
  <2> QED
    BY <2>2, <1>0 DEF RowsInOrder
<1>3. CASE Fill /\ ~UNCHANGED out
  <2> DEFINE a == groups[g][1]
             b == groups[g][2]
             e == [key |-> in.rows[order[a]], rows |-> Slice(a, b)]
  <2>1. out' = Append(out, e) /\ g \in 1..Len(groups) /\ phase = "fill"
    BY <1>3, <1>0 DEF Fill, Typed
  <2>2. /\ a \in Rows /\ b \in 2..n + 1 /\ a < b
    BY <2>1 DEF RunsInside
  <2>3. Sorted /\ Joined(a, b)
    <3>1. in.k > 0
      <4>1. groups # <<>> /\ in.k \in Nat
        BY <2>1, <1>0, InputFacts
      <4> QED
        BY <4>1 DEF Typed
    <3> QED
      BY <2>1, <3>1 DEF Typed, CutInv
  <2>4. Len(e.rows) = b - a /\ \A y, z \in 1..b - a : y < z => e.rows[y] < e.rows[z]
    BY <2>2, <2>3, <1>0, SliceType, SliceInOrder DEF Sorted
  <2>5. /\ Len(out) \in Nat /\ Len(out') = Len(out) + 1
        /\ \A x \in 1..Len(out) : out'[x] = out[x]
        /\ out'[Len(out) + 1] = e
    BY <2>1 DEF Typed
  <2>6. ASSUME NEW x \in 1..Len(out'), NEW y \in 1..Len(out'[x].rows),
               NEW z \in 1..Len(out'[x].rows), y < z
        PROVE  out'[x].rows[y] < out'[x].rows[z]
    <3>1. CASE x \in 1..Len(out)
      BY <3>1, <2>5, <2>6 DEF RowsInOrder
    <3>2. CASE x = Len(out) + 1
      <4>1. out'[x] = e
        BY <3>2, <2>5
      <4> HIDE DEF e
      <4> QED
        BY <4>1, <2>4, <2>6
    <3> QED
      BY <2>5, <3>1, <3>2
  <2> QED
    BY <2>6 DEF RowsInOrder
<1> QED
  BY <1>1, <1>2, <1>3 DEF Next, Name, TrySuffix, Named, Sort, Cut, CutLast, Build, vars

-----------------------------------------------------------------------------
\* The names.

\* NamesExact, name by name.
IsName(t, p) == \E m \in 1..Cardinality(Askers(p)) : t = <<in.pairs[p].col, Fn(p), m>>
NameByName ==
    /\ \A t : t \in DOMAIN agg_map <=> \E p \in 1..q - 1 : IsName(t, p)
    /\ \A t \in DOMAIN agg_map : agg_map[t] = <<t[1], t[2]>>

\* In the do loop every name up to the suffix before the current one is taken.
NamesInv == NameByName /\ (phase = "suffix" => suffix - 1 <= Cardinality(Askers(q)))

LEMMA AskersFinite ==
    ASSUME Typed, NEW p
    PROVE  IsFiniteSet(Askers(p)) /\ Cardinality(Askers(p)) \in 0..q - 1
<1>1. q - 1 \in Nat
  BY InputFacts DEF Typed
<1>2. IsFiniteSet(1..q - 1) /\ Cardinality(1..q - 1) = q - 1
  BY <1>1, FS_Interval
<1>3. Askers(p) \subseteq 1..q - 1
  BY DEF Askers
<1>4. IsFiniteSet(Askers(p)) /\ Cardinality(Askers(p)) <= q - 1
  BY <1>2, <1>3, FS_Subset
<1>5. Cardinality(Askers(p)) \in Nat
  BY <1>4, FS_CardinalityType
<1> QED
  BY <1>1, <1>4, <1>5

\* Of the names for what the current pair asks for, those up to the number of its askers
\* are taken.
LEMMA TakenNames ==
    ASSUME Typed, NameByName, NEW m \in Nat, m >= 1
    PROVE  Taken(<<in.pairs[q].col, Fn(q), m>>) <=> m <= Cardinality(Askers(q))
<1> DEFINE name == <<in.pairs[q].col, Fn(q), m>>
<1>1. q \in Nat /\ q >= 1
  BY InputFacts DEF Typed
<1>2. \A p : Cardinality(Askers(p)) \in 0..q - 1
  BY AskersFinite
<1>3. Taken(name) <=>
        \E p \in 1..q - 1 : \E k \in 1..Cardinality(Askers(p)) : name = <<in.pairs[p].col, Fn(p), k>>
  BY DEF NameByName, IsName, Taken
<1>4. \A p \in 1..q - 1 : in.pairs[p].col = in.pairs[q].col /\ Fn(p) = Fn(q) =>
        Askers(p) = Askers(q) /\ p \in Askers(q)
  BY DEF Askers
<1>5. ASSUME Taken(name) PROVE m <= Cardinality(Askers(q))
  <2>1. PICK p \in 1..q - 1 : \E k \in 1..Cardinality(Askers(p)) : name = <<in.pairs[p].col, Fn(p), k>>
    BY <1>3, <1>5
  <2>2. PICK k \in 1..Cardinality(Askers(p)) : name = <<in.pairs[p].col, Fn(p), k>>
    BY <2>1
  <2>3. in.pairs[p].col = in.pairs[q].col /\ Fn(p) = Fn(q) /\ k = m
    BY <2>2
  <2> QED
    BY <2>2, <2>3, <1>2, <1>4
<1>6. ASSUME m <= Cardinality(Askers(q)) PROVE Taken(name)
  <2>1. Askers(q) # {}
    BY <1>1, <1>6, FS_EmptySet
  <2>2. PICK p \in Askers(q) : TRUE
    BY <2>1
  <2>3. p \in 1..q - 1 /\ in.pairs[p].col = in.pairs[q].col /\ Fn(p) = Fn(q)
    BY <2>2 DEF Askers
  <2>4. m \in 1..Cardinality(Askers(p)) /\ name = <<in.pairs[p].col, Fn(p), m>>
    BY <2>3, <1>2, <1>4, <1>6
  <2> QED
    BY <2>3, <2>4, <1>3
<1> QED
  BY <1>5, <1>6

\* Taking the first free name keeps the names exact.
LEMMA TakeExact ==
    ASSUME Typed, NameByName, q <= Len(in.pairs), UNCHANGED in,
           NEW m \in Nat, m = Cardinality(Askers(q)) + 1,
           TakeName(<<in.pairs[q].col, Fn(q), m>>)
    PROVE  NameByName'
<1> DEFINE name == <<in.pairs[q].col, Fn(q), m>>
           Like(p) == in.pairs[p].col = in.pairs[q].col /\ Fn(p) = Fn(q)
           More(p) == {x \in 1..q : in.pairs[x].col = in.pairs[p].col /\ Fn(x) = Fn(p)}
           NewName(t, p) == \E k \in 1..Cardinality(More(p)) : t = <<in.pairs[p].col, Fn(p), k>>
<1>1. /\ q \in Nat /\ q >= 1 /\ q' = q + 1
      /\ agg_map' = Emplace(agg_map, name, <<in.pairs[q].col, Fn(q)>>)
  BY InputFacts DEF Typed, TakeName
<1>2. \A p : IsFiniteSet(Askers(p)) /\ Cardinality(Askers(p)) \in 0..q - 1
  BY AskersFinite
<1>3. \A t, p : IsName(t, p)' <=> NewName(t, p)
  <2>1. \A p : Fn(p)' = Fn(p)
    BY Fixed
  <2>2. \A p : Askers(p)' = More(p)
    BY <2>1, <1>1 DEF Askers
  <2> QED
    BY <2>1, <2>2 DEF IsName
<1>4. ASSUME NEW p \in 1..q, ~Like(p)
      PROVE  More(p) = Askers(p) /\ p \in 1..q - 1
  BY <1>1, <1>4 DEF Askers
<1>5. ASSUME NEW p \in 1..q, Like(p) PROVE Cardinality(More(p)) = m
  <2>1. More(p) = Askers(q) \cup {q} /\ q \notin Askers(q)
    BY <1>1, <1>5 DEF Askers
  <2> QED
    BY <2>1, <1>2, FS_AddElement
<1>6. ASSUME NEW p \in 1..q - 1, Like(p) PROVE Askers(p) = Askers(q)
  BY <1>6 DEF Askers
<1> HIDE DEF More
<1>7. DOMAIN agg_map' = DOMAIN agg_map \cup {name}
  BY <1>1 DEF Emplace
<1>8. ASSUME NEW t, NEW p \in 1..q - 1, IsName(t, p)
      PROVE  p \in 1..q /\ NewName(t, p)
  <2>1. p \in 1..q /\ Cardinality(More(p)) >= Cardinality(Askers(p)) /\ Cardinality(More(p)) \in Nat
    <3>1. CASE Like(p)
      BY <3>1, <1>1, <1>2, <1>5, <1>6
    <3>2. CASE ~Like(p)
      BY <3>2, <1>1, <1>2, <1>4
    <3> QED
      BY <3>1, <3>2
  <2> QED
    BY <2>1, <1>2, <1>8 DEF IsName
<1>9. q \in 1..q /\ NewName(name, q)
  BY <1>1, <1>2, <1>5
<1>10. ASSUME NEW t, NEW p \in 1..q, NewName(t, p)
       PROVE  t = name \/ t \in DOMAIN agg_map
  <2>1. PICK k \in 1..Cardinality(More(p)) : t = <<in.pairs[p].col, Fn(p), k>>
    BY <1>10
  <2>2. CASE Like(p) /\ k = m
    BY <2>1, <2>2
  <2>3. CASE Like(p) /\ k # m
    <3>1. k \in Nat /\ k >= 1 /\ k <= Cardinality(Askers(q))
      BY <1>2, <1>5, <2>1, <2>3
    <3>2. Taken(<<in.pairs[q].col, Fn(q), k>>)
      BY <3>1, TakenNames
    <3> QED
      BY <3>2, <2>1, <2>3 DEF Taken
  <2>4. CASE ~Like(p)
    <3>1. p \in 1..q - 1 /\ IsName(t, p)
      BY <1>4, <2>1, <2>4 DEF IsName
    <3> QED
      BY <3>1 DEF NameByName
  <2> QED
    BY <2>2, <2>3, <2>4
<1>11. \A t : t \in DOMAIN agg_map' <=> \E p \in 1..q : NewName(t, p)
  BY <1>7, <1>8, <1>9, <1>10 DEF NameByName
<1>12. ASSUME NEW t \in DOMAIN agg_map' PROVE agg_map'[t] = <<t[1], t[2]>>
  <2>1. CASE t \in DOMAIN agg_map
    BY <2>1, <1>1 DEF Emplace, NameByName
  <2>2. CASE t \notin DOMAIN agg_map
    <3>1. t = name /\ agg_map'[t] = <<in.pairs[q].col, Fn(q)>>
      BY <2>2, <1>1, <1>7, <1>12 DEF Emplace
    <3> QED
      BY <3>1
  <2> QED
    BY <2>1, <2>2
<1>13. q' - 1 = q
  BY <1>1
<1> HIDE DEF NewName
<1> QED
  BY <1>3, <1>11, <1>12, <1>13 DEF NameByName

\* Both say the same.
LEMMA ExactNameByName == NamesExact <=> NameByName
<1> DEFINE All == UNION {{<<in.pairs[p].col, Fn(p), m>> : m \in 1..Cardinality(Askers(p))} :
                             p \in 1..q - 1}
<1>1. \A t : t \in All <=> \E p \in 1..q - 1 : IsName(t, p)
  BY DEF IsName
<1> HIDE DEF All
<1>2. DOMAIN agg_map = All <=> \A t : t \in DOMAIN agg_map <=> t \in All
  OBVIOUS
<1>3. DOMAIN agg_map = All <=> \A t : t \in DOMAIN agg_map <=> \E p \in 1..q - 1 : IsName(t, p)
  BY <1>1, <1>2
<1> QED
  BY <1>3 DEF NamesExact, NameByName, All

LEMMA NamesStep == Typed /\ NamesInv /\ [Next]_vars => NamesInv'
<1> SUFFICES ASSUME Typed, NamesInv, [Next]_vars PROVE NamesInv'
  OBVIOUS
<1>0. q \in Nat /\ q >= 1 /\ suffix \in Nat /\ Cardinality(Askers(q)) \in Nat
  <2>1. \A p : Cardinality(Askers(p)) \in 0..q - 1
    BY AskersFinite
  <2>2. q \in Nat /\ q >= 1 /\ suffix \in Nat
    BY InputFacts DEF Typed
  <2> QED
    BY <2>1, <2>2
<1>a. ASSUME UNCHANGED <<in, q, agg_map>>
      PROVE  NameByName' /\ Cardinality(Askers(q))' = Cardinality(Askers(q))
  <2>1. (\A p : Fn(p)' = Fn(p)) /\ \A p : Askers(p)' = Askers(p)
    BY <1>a, Fixed DEF Askers
  <2>2. Askers(q)' = Askers(q)
    BY <1>a, <2>1 DEF Askers
  <2> QED
    BY <1>a, <2>1, <2>2 DEF NamesInv, NameByName, IsName
<1>1. CASE Name
  <2>1. Taken(<<in.pairs[q].col, Fn(q), 1>>) <=> 1 <= Cardinality(Askers(q))
    BY TakenNames DEF NamesInv
  <2>2. CASE Fn(q) \notin Supported
    BY <2>2, <1>1, <1>a DEF Name, NamesInv
  <2>3. CASE Fn(q) \in Supported /\ Taken(<<in.pairs[q].col, Fn(q), 1>>)
    <3>1. suffix' = 2
      BY <1>1, <2>3 DEF Name, Typed
    <3> QED
      BY <3>1, <2>1, <2>3, <1>0, <1>1, <1>a DEF Name, NamesInv
  <2>4. CASE Fn(q) \in Supported /\ ~Taken(<<in.pairs[q].col, Fn(q), 1>>)
    <3>1. 1 = Cardinality(Askers(q)) + 1
      BY <2>1, <2>4, <1>0
    <3>2. TakeName(<<in.pairs[q].col, Fn(q), 1>>) /\ q <= Len(in.pairs) /\ UNCHANGED in
      BY <2>4, <1>1 DEF Name
    <3>3. NameByName'
      BY <3>1, <3>2, TakeExact DEF NamesInv
    <3> QED
      BY <3>2, <3>3 DEF NamesInv, TakeName
  <2> QED
    BY <2>2, <2>3, <2>4
<1>2. CASE TrySuffix
  <2>1. phase = "suffix" /\ suffix - 1 <= Cardinality(Askers(q)) /\ q <= Len(in.pairs)
    BY <1>2 DEF TrySuffix, NamesInv, Typed
  <2>2. suffix >= 1 => (Taken(<<in.pairs[q].col, Fn(q), suffix>>) <=> suffix <= Cardinality(Askers(q)))
    BY <1>0, TakenNames DEF NamesInv
  <2>3. suffix >= 2
    BY <2>1 DEF Typed
  <2>4. CASE Taken(<<in.pairs[q].col, Fn(q), suffix>>)
    <3>1. suffix' = suffix + 1
      BY <1>2, <2>4 DEF TrySuffix
    <3> QED
      BY <3>1, <2>2, <2>3, <2>4, <1>0, <1>2, <1>a DEF TrySuffix, NamesInv
  <2>5. CASE ~Taken(<<in.pairs[q].col, Fn(q), suffix>>)
    <3>1. suffix = Cardinality(Askers(q)) + 1
      BY <2>1, <2>2, <2>3, <2>5, <1>0
    <3>2. TakeName(<<in.pairs[q].col, Fn(q), suffix>>) /\ UNCHANGED in
      BY <2>5, <1>2 DEF TrySuffix
    <3>3. NameByName'
      BY <3>1, <3>2, <2>1, <1>0, TakeExact DEF NamesInv
    <3> QED
      BY <3>2, <3>3 DEF NamesInv, TakeName
  <2> QED
    BY <2>4, <2>5
<1>3. CASE UNCHANGED <<in, q, suffix, agg_map>> /\ (phase' = "suffix" => phase = "suffix")
  BY <1>3, <1>a DEF NamesInv
<1> QED
  BY <1>1, <1>2, <1>3 DEF Next, Named, Whole, Sort, Cut, CutLast, Fill, Build, vars

-----------------------------------------------------------------------------
\* What is filled in.

\* The result has a row for each run before the current one, or the one row of a call
\* without keys.
FillInv ==
    /\ phase \in {"cut", "fill", "done"} /\ in.k > 0 =>
         /\ Len(out) = g - 1
         /\ \A x \in 1..g - 1 : out[x] = [key  |-> in.rows[order[groups[x][1]]],
                                          rows |-> Slice(groups[x][1], groups[x][2])]
    /\ phase \in {"fill", "done"} /\ in.k = 0 =>
         out = <<[key |-> <<>>, rows |-> [x \in Rows |-> x]]>>

LEMMA FillStep == Typed /\ FillInv /\ [Next]_vars => FillInv'
<1> SUFFICES ASSUME Typed, FillInv, [Next]_vars PROVE FillInv'
  OBVIOUS
<1>0. in \in GroupInputs /\ in.k \in Nat /\ Len(<<>>) = 0
  BY InputFacts DEF Typed
<1>1. CASE Name \/ TrySuffix \/ Named
  <2>1. phase' \in {"names", "suffix", "whole", "sort", "error"}
    BY <1>1 DEF Name, TrySuffix, TakeName, Named, Typed
  <2> QED
    BY <2>1 DEF FillInv
<1>2. CASE Whole
  <2>1. in.k = 0 /\ UNCHANGED in /\ Rows' = Rows
    BY <1>2, Fixed DEF Whole, Typed
  <2> QED
    BY <2>1, <1>2 DEF Whole, FillInv
<1>3. CASE Sort
  <2>1. in'.k > 0 /\ out' = <<>> /\ g' = 1
    BY <1>3 DEF Sort, Typed, Fresh
  <2> QED
    BY <2>1, <1>0 DEF FillInv
<1>4. CASE Cut \/ CutLast
  <2>1. in'.k > 0 /\ out' = <<>> /\ g' = 1
    BY <1>4 DEF Cut, CutLast, Typed
  <2> QED
    BY <2>1, <1>0 DEF FillInv
<1>5. CASE Fill
  <2>1. CASE Throws
    BY <2>1, <1>5 DEF Fill, FillInv
  <2>2. CASE ~Throws
    <3> DEFINE e == [key  |-> in.rows[order[groups[g][1]]],
                     rows |-> Slice(groups[g][1], groups[g][2])]
    <3>1. /\ out' = Append(out, e) /\ g' = g + 1 /\ g \in 1..Len(groups) /\ phase = "fill"
          /\ UNCHANGED <<in, order, groups>>
      BY <2>2, <1>5 DEF Fill, Typed
    <3>2. groups # <<>> /\ g \in Nat
      BY <3>1, <1>0 DEF Typed
    <3>3. in.k > 0
      BY <3>2, <1>0 DEF Typed
    <3>4. Len(out) = g - 1 /\ \A x \in 1..g - 1 :
            out[x] = [key  |-> in.rows[order[groups[x][1]]],
                      rows |-> Slice(groups[x][1], groups[x][2])]
      BY <3>1, <3>3 DEF FillInv
    <3> HIDE DEF e
    <3>5. Len(out') = g /\ (\A x \in 1..g - 1 : out'[x] = out[x]) /\ out'[g] = e
      BY <3>1, <3>2, <3>4 DEF Typed
    <3>6. ASSUME NEW x \in 1..g
          PROVE  out'[x] = [key  |-> in.rows[order[groups[x][1]]],
                            rows |-> Slice(groups[x][1], groups[x][2])]
      <4>1. CASE x \in 1..g - 1
        BY <4>1, <3>4, <3>5
      <4>2. CASE x = g
        BY <4>2, <3>5 DEF e
      <4> QED
        BY <3>2, <4>1, <4>2
    <3>7. g' - 1 = g /\ in' = in /\ order' = order /\ groups' = groups
      BY <3>1, <3>2
    <3>8. \A x : Slice(groups[x][1], groups[x][2])' = Slice(groups[x][1], groups[x][2])
      BY <3>7 DEF Slice
    <3> QED
      BY <3>3, <3>5, <3>6, <3>7, <3>8 DEF FillInv
  <2> QED
    BY <2>1, <2>2
<1>6. CASE Build \/ UNCHANGED vars
  <2>1. /\ UNCHANGED <<in, order, groups, out, g>> /\ Rows' = Rows
        /\ (phase' = phase \/ (phase = "fill" /\ phase' = "done"))
    BY <1>6, Fixed DEF Build, vars
  <2> QED
    BY <2>1 DEF FillInv, Slice
<1> QED
  BY <1>1, <1>2, <1>3, <1>4, <1>5, <1>6 DEF Next

-----------------------------------------------------------------------------
LEMMA InvInit == Init => CutInv /\ RowsInOrder /\ Ascending /\ NamesInv /\ FillInv
<1> SUFFICES ASSUME Init PROVE CutInv /\ RowsInOrder /\ Ascending /\ NamesInv /\ FillInv
  OBVIOUS
<1>1. Len(<<>>) = 0 /\ DOMAIN <<>> = {}
  OBVIOUS
<1>2. NameByName
  BY <1>1 DEF Init, NameByName
<1> QED
  BY <1>1, <1>2 DEF Init, CutInv, RowsInOrder, Ascending, NamesInv, FillInv

\* What the theorems rest on: the types, the runs cut so far and the order of their rows,
\* the names taken, the rows filled in.
IInv == Typed /\ RunsInside /\ CutInv /\ RowsInOrder /\ Ascending /\ NamesInv /\ FillInv

\* The invariant the theorems below rest on holds in every state of aggregate, whatever the
\* table, the keys and the pairs.
THEOREM Invariance == Spec => []IInv
<1>1. Init => IInv
  BY TypedInit, InvInit DEF IInv
<1>2. IInv /\ [Next]_vars => IInv'
  BY TypedStep, CutStep, InOrderStep, AscendingStep, NamesStep, FillStep DEF IInv
<1> QED
  BY <1>1, <1>2, PTL DEF Spec

\* The cursors of aggregate's loops stay inside the sorted rows and the runs, no run is
\* empty, and a name is found after no more tries than there are pairs before it.
THEOREM TypeCorrect == Spec => []TypeOK
<1>1. IInv => TypeOK
  <2> SUFFICES ASSUME IInv PROVE TypeOK
    OBVIOUS
  <2>1. \A p : Cardinality(Askers(p)) \in 0..q - 1
    BY AskersFinite DEF IInv
  <2>2. q \in Nat /\ q >= 1 /\ suffix \in Nat /\ suffix >= 2
    BY InputFacts DEF IInv, Typed
  <2>3. suffix \in 2..q + 1
    <3>1. CASE phase = "suffix"
      BY <3>1, <2>1, <2>2 DEF IInv, NamesInv
    <3>2. CASE phase # "suffix"
      BY <3>2, <2>2 DEF IInv, Typed
    <3> QED
      BY <3>1, <3>2
  <2> QED
    BY <2>3 DEF IInv, Typed, RunsInside, TypeOK
<1> QED
  BY <1>1, Invariance, PTL

\* However the pairs are spelt and repeated, aggregate(pairs) gives each a name of its own
\* that says its column and function.
THEOREM NamesAreExact == Spec => []NamesExact
<1>1. IInv => NamesExact
  BY ExactNameByName DEF IInv, NamesInv
<1> QED
  BY <1>1, Invariance, PTL

\* The loop over the sorted rows cuts runs without a gap that hold each key once, whatever
\* the table.
THEOREM GroupsAreExact == Spec => []CutExact
<1>1. IInv => CutExact
  BY CutExactFromCut DEF IInv
<1> QED
  BY <1>1, Invariance, PTL

\* The rows of a group are aggregated in the order of the table, whatever the table.
THEOREM GroupsKeepRowOrder == Spec => []RowsInOrder
<1>1. IInv => RowsInOrder
  BY DEF IInv
<1> QED
  BY <1>1, Invariance, PTL
=============================================================================
