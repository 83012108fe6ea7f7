--------------------------- MODULE GroupAggregate ---------------------------
(***************************************************************************)
(* aggregate(pairs), and the aggregate(map) it calls, turn by turn: the    *)
(* output names, the sort by the group keys, the loop that cuts the sorted *)
(* rows into runs of equal keys, and the loop that makes a row of each.    *)
(* Cells of key columns are kept; a value aggregated from a run stands for *)
(* the rows of the run, since evalExprOn sees nothing else.                *)
(***************************************************************************)
EXTENDS Integers, FiniteSets, Sequences

CONSTANTS
    GroupInputs,  \* the calls considered: pairs, number of keys, the key cells of each row,
                  \* whether the table has the key columns
    Place,        \* place of each key cell in sort order: numbers, NaN, null
    NaN,          \* the cell that equals no cell
    Supported,    \* the functions a pair may name, in lower case
    Lower,        \* std::tolower: spelling -> function
    Refused       \* the <<column, function>> whose evaluation throws

ASSUME InputsAssumption ==
    \A i \in GroupInputs :
        /\ i.k \in Nat /\ i.present \in BOOLEAN
        /\ i.rows \in Seq([1..i.k -> DOMAIN Place])
        /\ \A q \in 1..Len(i.pairs) : i.pairs[q].fn \in DOMAIN Lower
        /\ i.pairs \in Seq([col : {i.pairs[q].col : q \in 1..Len(i.pairs)}, fn : DOMAIN Lower])

ASSUME PlaceAssumption ==
    /\ Place \in [DOMAIN Place -> Int]
    /\ \A c, d \in DOMAIN Place : Place[c] = Place[d] => c = d

VARIABLES
    in,       \* arguments: [pairs, k, rows, present]
    phase,    \* where the call is
    q,        \* the pair whose turn it is
    suffix,   \* the next suffix tried for its name
    agg_map,  \* output name -> <<column, function>>; <<c, f, 1>> is "c_f", <<c, f, m>> "c_f_m"
    order,    \* the sorted rows: position -> row
    start, i, \* the cursors of the cut
    groups,   \* the runs cut so far, <<first position, position after the last>>
    g,        \* the group whose turn it is
    out       \* the result rows: [key, rows], the rows those of the slice in its order

vars == <<in, phase, q, suffix, agg_map, order, start, i, groups, g, out>>

n    == Len(in.rows)
Rows == 1..n
Keys == 1..in.k
Fn(p) == Lower[in.pairs[p].fn]

Init ==
    /\ in \in GroupInputs
    /\ phase = "names"
    /\ q = 1 /\ suffix = 2 /\ agg_map = <<>>
    /\ order = <<>> /\ start = 1 /\ i = 2 /\ groups = <<>>
    /\ g = 1 /\ out = <<>>

-----------------------------------------------------------------------------
\* The names.

Emplace(map, name, e) ==
    [x \in DOMAIN map \cup {name} |-> IF x \in DOMAIN map THEN map[x] ELSE e]

TakeName(name) ==
    /\ agg_map' = Emplace(agg_map, name, <<in.pairs[q].col, Fn(q)>>)
    /\ q' = q + 1 /\ suffix' = 2 /\ phase' = "names"

Taken(name) == name \in DOMAIN agg_map

NameUnchecked ==                                                           \* mutant
    /\ phase = "names" /\ q <= Len(in.pairs)
    /\ IF Fn(q) \notin Supported THEN phase' = "error" /\ UNCHANGED <<q, suffix, agg_map>>
       ELSE TakeName(<<in.pairs[q].col, Fn(q), 1>>)
    /\ UNCHANGED <<in, order, start, i, groups, g, out>>

Name ==
    /\ phase = "names" /\ q <= Len(in.pairs)
    /\ LET name == <<in.pairs[q].col, Fn(q), 1>> IN
       IF Fn(q) \notin Supported \/ Taken(name)
       THEN /\ phase' = IF Fn(q) \notin Supported THEN "error" ELSE "suffix"
            /\ UNCHANGED <<q, suffix, agg_map>>
       ELSE TakeName(name)
    /\ UNCHANGED <<in, order, start, i, groups, g, out>>

TrySuffixAgain ==                                                          \* mutant
    /\ phase = "suffix"
    /\ LET name == <<in.pairs[q].col, Fn(q), suffix>> IN
       IF Taken(name) THEN UNCHANGED <<phase, q, suffix, agg_map>> ELSE TakeName(name)
    /\ UNCHANGED <<in, order, start, i, groups, g, out>>

\* One turn of the do loop.
TrySuffix ==
    /\ phase = "suffix"
    /\ LET name == <<in.pairs[q].col, Fn(q), suffix>> IN
       IF Taken(name) THEN suffix' = suffix + 1 /\ UNCHANGED <<phase, q, agg_map>>
       ELSE TakeName(name)
    /\ UNCHANGED <<in, order, start, i, groups, g, out>>

Named ==
    /\ phase = "names" /\ q > Len(in.pairs)
    /\ phase' = IF in.k = 0 THEN "whole" ELSE "sort"
    /\ UNCHANGED <<in, q, suffix, agg_map, order, start, i, groups, g, out>>

-----------------------------------------------------------------------------
\* The groups.

\* evalExprOn throws whatever the rows: no column of that name, or not of that type.
Throws == \E x \in DOMAIN agg_map : agg_map[x] \in Refused

\* No keys: the expressions are evaluated on the table as it is.
Whole ==
    /\ phase = "whole"
    /\ IF Throws THEN phase' = "error" /\ UNCHANGED out
       ELSE phase' = "fill" /\ out' = <<[key |-> <<>>, rows |-> [x \in Rows |-> x]]>>
    /\ UNCHANGED <<in, q, suffix, agg_map, order, start, i, groups, g>>

KeyBefore(x, y) ==
    \E c \in Keys : /\ Place[in.rows[x][c]] < Place[in.rows[y][c]]
                    /\ \A d \in 1..c - 1 : in.rows[x][d] = in.rows[y][d]

UnstableSort(p) == \A x, y \in Rows : x < y => ~KeyBefore(p[y], p[x]) /\ p[x] # p[y]  \* mutant

\* sort_indices: by the keys, ties in row order.
StableSort(p) ==
    \A x, y \in Rows : x < y =>
        KeyBefore(p[x], p[y]) \/ (in.rows[p[x]] = in.rows[p[y]] /\ p[x] < p[y])

\* Sorts, takes, and joins the chunks of the key columns, which a table without rows may
\* have none of.
Sort ==
    /\ phase = "sort"
    /\ \/ /\ ~in.present \/ n = 0
          /\ phase' = "error" /\ UNCHANGED order
       \/ /\ in.present
          /\ \E p \in [Rows -> Rows] : StableSort(p) /\ order' = p
          /\ phase' = IF n > 0 THEN "cut" ELSE "fill"
    /\ UNCHANGED <<in, q, suffix, agg_map, start, i, groups, g, out>>

FirstKeyDiffers(x, y) == in.rows[x][1] # in.rows[y][1] \/ in.rows[x][1] = NaN  \* mutant

\* Scalar::Equals, key by key: null equals null, NaN nothing.
keysDiffer(x, y) == \E c \in Keys : in.rows[x][c] # in.rows[y][c] \/ in.rows[x][c] = NaN

Cut ==
    /\ phase = "cut" /\ i <= n
    /\ IF keysDiffer(order[i - 1], order[i])
       THEN groups' = Append(groups, <<start, i>>) /\ start' = i
       ELSE UNCHANGED <<groups, start>>
    /\ i' = i + 1
    /\ UNCHANGED <<in, phase, q, suffix, agg_map, order, g, out>>

DropLastRow ==                                                             \* mutant
    /\ phase = "cut" /\ i > n
    /\ groups' = Append(groups, <<start, n>>)
    /\ phase' = "fill"
    /\ UNCHANGED <<in, q, suffix, agg_map, order, start, i, g, out>>

CutLast ==
    /\ phase = "cut" /\ i > n
    /\ groups' = Append(groups, <<start, n + 1>>)
    /\ phase' = "fill"
    /\ UNCHANGED <<in, q, suffix, agg_map, order, start, i, g, out>>

Slice(from, to) == [x \in 1..to - from |-> order[from + x - 1]]

Fill ==
    /\ phase = "fill" /\ g <= Len(groups)
    /\ IF Throws THEN phase' = "error" /\ UNCHANGED <<g, out>>
       ELSE /\ out' = Append(out, [key  |-> in.rows[order[groups[g][1]]],
                                   rows |-> Slice(groups[g][1], groups[g][2])])
            /\ g' = g + 1 /\ UNCHANGED phase
    /\ UNCHANGED <<in, q, suffix, agg_map, order, start, i, groups>>

\* The scalars become columns, and the columns a table.
Build ==
    /\ phase = "fill" /\ g > Len(groups)
    /\ phase' = "done"
    /\ UNCHANGED <<in, q, suffix, agg_map, order, start, i, groups, g, out>>

Next == \/ Name \/ TrySuffix \/ Named
        \/ Whole \/ Sort \/ Cut \/ CutLast \/ Fill \/ Build

Spec == Init /\ [][Next]_vars

\* The call runs in its caller's thread and waits for nothing.
FairSpec == Spec /\ WF_vars(Next)

-----------------------------------------------------------------------------
Running == phase \notin {"done", "error"}

\* The cursors stay inside what they walk over, and every run holds a row.
TypeOK ==
    /\ phase \in {"names", "suffix", "whole", "sort", "cut", "fill", "done", "error"}
    /\ q \in 1..Len(in.pairs) + 1
    /\ suffix \in 2..q + 1
    /\ order = <<>> \/ order \in [Rows -> Rows]
    /\ i \in 2..n + 2 /\ start \in 1..n + 1 /\ start < i
    /\ g \in 1..Len(groups) + 1
    /\ \A x \in 1..Len(groups) : /\ groups[x][1] \in Rows /\ groups[x][2] \in 2..n + 1
                                 /\ groups[x][1] < groups[x][2]

\* The pairs before the current one that ask for what pair p asks for, however spelt.
Askers(p) == {x \in 1..q - 1 : in.pairs[x].col = in.pairs[p].col /\ Fn(x) = Fn(p)}

\* Each pair seen so far has a name of its own: of those that ask for the same the first
\* has the plain name and the others the suffixes from 2 on.  No pair is lost, and no name
\* stands for another column or function than it says.
NamesExact ==
    /\ DOMAIN agg_map =
          UNION {{<<in.pairs[p].col, Fn(p), m>> : m \in 1..Cardinality(Askers(p))} :
                     p \in 1..q - 1}
    /\ \A name \in DOMAIN agg_map : agg_map[name] = <<name[1], name[2]>>

\* The runs follow each other without a gap, the rows of a run have one key, and no row
\* outside it has that key.  Null is a key like others, as the code compares it; test 32
\* expects no group for it (NullsAddNoGroup in MCGroupAggregate).
CutExact ==
    phase \in {"cut", "fill", "done"} /\ in.k > 0 =>
        LET first(x) == groups[x][1]
            after(x) == groups[x][2]
            Open == phase = "cut"
            OneKey(y, z) == \A c \in Keys : /\ in.rows[order[y]][c] = in.rows[order[z]][c]
                                            /\ in.rows[order[y]][c] # NaN
        IN  /\ \A x \in 1..Len(groups) : first(x) = IF x = 1 THEN 1 ELSE after(x - 1)
            /\ groups # <<>> => after(Len(groups)) = IF Open THEN start ELSE n + 1
            /\ \A x \in 1..Len(groups) : \A y \in first(x)..after(x) - 1, z \in Rows :
                 y # z => (z \in first(x)..after(x) - 1 <=> OneKey(y, z))
            /\ Open => \A y, z \in start..i - 1 : y # z => OneKey(y, z)

\* Within a group the rows keep the order of the table, which the first value of a group
\* and a sum of floats depend on.
RowsInOrder ==
    \A x \in 1..Len(out) : \A y, z \in 1..Len(out[x].rows) :
        y < z => out[x].rows[y] < out[x].rows[z]

\* The call ends, with a result or an exception: some suffix is free.
Terminates == <>(phase \in {"done", "error"})

Promise == INSTANCE RelationalGrouping WITH
    in    <- in,
    out   <- [x \in 1..Len(out) |->
                [key |-> out[x].key, rows |-> {out[x].rows[y] : y \in 1..Len(out[x].rows)}]],
    phase <- phase

\* Sorting, cutting and filling output one row for each distinct key, in key order, made of
\* exactly the rows that have it; each row with a NaN in its key is a group of its own, and the
\* rows without a key are one together.
ImplementsGrouping == Promise!Spec
=============================================================================
