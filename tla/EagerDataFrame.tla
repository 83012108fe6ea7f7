--------------------------- MODULE EagerDataFrame ---------------------------
(***************************************************************************)
(* The eager operations.  A data frame is immutable: its table as a        *)
(* sequence of named columns, and the keys group_by left on it, which only *)
(* aggregate reads and every other operation drops.                        *)
(***************************************************************************)
EXTENDS Expr

CONSTANTS
    Rank,         \* position of each aggregate name in std::map's order, of each column in std::sort's
    GroupsNoRows  \* whether grouping a table without rows works: it joins the chunks of the key
                  \* columns, and Arrow refuses to join none

ASSUME GroupsNoRowsAssumption == GroupsNoRows \in BOOLEAN

\* A frame with ok = FALSE stands for an exception on its way to the caller.
Frame(cols)      == [ok |-> TRUE, cols |-> cols, group_keys |-> <<>>]
Failed           == [ok |-> FALSE, cols |-> <<>>, group_keys |-> <<>>]
Column(name, c)  == [name |-> name, ty |-> c.ty, v |-> c.v]

NumRows(df)     == IF df.cols = <<>> THEN 0 ELSE Len(df.cols[1].v)
ColumnNames(df) == [i \in DOMAIN df.cols |-> df.cols[i].name]

\* GetFieldIndex and GetColumnByName: a name borne by two columns is not found.
GetFieldIndex(df, name) ==
    LET at == {i \in DOMAIN df.cols : df.cols[i].name = name} IN
    IF Cardinality(at) = 1 THEN CHOOSE i \in at : TRUE ELSE 0

Holds(df, names) == \A i \in DOMAIN names : GetFieldIndex(df, names[i]) # 0

Get(df, name) == df.cols[GetFieldIndex(df, name)]

evalExpr(df, e) ==
    LET found == {n \in ToSet(ColumnNames(df)) : GetFieldIndex(df, n) # 0}
    IN  Eval(e, NumRows(df), [n \in found |-> [ty |-> Get(df, n).ty, v |-> Get(df, n).v]])

\* Table::take, and what is made of it: filter, Slice, sort.
Take(df, rows) ==
    Frame([i \in DOMAIN df.cols |->
             [df.cols[i] EXCEPT !.v = [x \in DOMAIN rows |-> df.cols[i].v[rows[x]]]]])

Slice(df, from, to) == Take(df, [i \in 1..to - from + 1 |-> from + i - 1])

selectNames(df, names) ==
    IF ~Holds(df, names) THEN Failed
    ELSE Frame([i \in DOMAIN names |-> Get(df, names[i])])

select(df, exprs) ==
    LET cols == [i \in DOMAIN exprs |-> evalExpr(df, exprs[i])] IN
    IF \E i \in DOMAIN cols : cols[i] = Throws THEN Failed
    ELSE Frame([i \in DOMAIN cols |-> Column(inferName(exprs[i], i - 1), cols[i])])

\* Rows whose predicate is null are dropped with the false ones.
filter(df, predicate) ==
    LET mask == evalExpr(df, predicate) IN
    IF mask.ty # "BOOLEAN" \/ Len(mask.v) # NumRows(df) THEN Failed
    ELSE Take(df, SelectSeq([i \in 1..NumRows(df) |-> i], LAMBDA i : mask.v[i] = 1))

UncheckedColumn(df, name, e) ==                                            \* mutant
    LET c == evalExpr(df, e) IN
    IF c = Throws THEN Failed ELSE Frame(Append(df.cols, Column(name, c)))

\* Replaces the column of that name where it stands, or adds one at the end.
with_column(df, name, e) ==
    LET c == evalExpr(df, e)
        idx == GetFieldIndex(df, name)
    IN  IF c = Throws \/ Len(c.v) # NumRows(df) THEN Failed
        ELSE IF idx = 0 THEN Frame(Append(df.cols, Column(name, c)))
        ELSE Frame([df.cols EXCEPT ![idx] = Column(name, c)])

group_by(df, keys) == [df EXCEPT !.group_keys = keys]

\* The members of S in the order of Before, a strict total order on them.
InOrder(S, Before(_, _)) ==
    [p \in 1..Cardinality(S) |-> CHOOSE x \in S : Cardinality({y \in S : Before(y, x)}) = p - 1]

\* Row x sorts before row y: nulls last either way, ties in row order.
Precedes(df, by, ascending, x, y) ==
    LET cell(i, row) == Get(df, by[i]).v[row]
        Less(a, b) == IF Null \in {a, b} THEN a # Null /\ b = Null
                      ELSE IF ascending THEN a < b ELSE a > b
        differ == {i \in DOMAIN by : cell(i, x) # cell(i, y)}
    IN  IF differ = {} THEN x < y
        ELSE LET i == CHOOSE i \in differ : \A m \in differ : i <= m
             IN  Less(cell(i, x), cell(i, y))

sort(df, by, ascending) ==
    IF by = <<>> \/ ~Holds(df, by) THEN Failed
    ELSE Take(df, InOrder(1..NumRows(df), LAMBDA x, y : Precedes(df, by, ascending, x, y)))

head(df, n) == Slice(df, 1, IF n < NumRows(df) THEN n ELSE NumRows(df))

\* aggregate: aggs is a function from output names to expressions (std::map).
AggNames(aggs) == InOrder(DOMAIN aggs, LAMBDA x, y : Rank[x] < Rank[y])

aggregateAll(df, aggs) ==
    LET names == AggNames(aggs)
        cols == [i \in DOMAIN names |-> evalExpr(df, aggs[names[i]])]
    IN  IF \E i \in DOMAIN cols : cols[i] = Throws THEN Failed
        ELSE Frame([i \in DOMAIN cols |-> Column(names[i], cols[i])])

\* With keys: sort by them, cut the rows into runs of equal keys, and evaluate the
\* expressions on each run; the first row of the result is the group's value.
aggregateRuns(df, aggs) ==
    LET sorted == sort(df, df.group_keys, TRUE)
        keys == df.group_keys
        names == AggNames(aggs)
        n == NumRows(sorted)
        KeysDiffer(x, y) == \E i \in DOMAIN keys :
                                Get(sorted, keys[i]).v[x] # Get(sorted, keys[i]).v[y]
        starts == InOrder({x \in 1..n : x = 1 \/ KeysDiffer(x - 1, x)}, LAMBDA x, y : x < y)
        End(g) == IF g = Len(starts) THEN n ELSE starts[g + 1] - 1
        Value(g, i) == evalExpr(Slice(sorted, starts[g], End(g)), aggs[names[i]])
        KeyCol(i) == [Get(sorted, keys[i]) EXCEPT !.v =
                        [g \in DOMAIN starts |-> Get(sorted, keys[i]).v[starts[g]]]]
        AggCol(i) == Column(names[i], [ty |-> Value(1, i).ty,
                                       v |-> [g \in DOMAIN starts |-> Value(g, i).v[1]]])
        Untyped(name) == [name |-> name, ty |-> "NA", v |-> <<>>]
    IN  CASE ~sorted.ok -> Failed
          [] n = 0 /\ ~GroupsNoRows -> Failed
          [] n = 0 /\ GroupsNoRows -> Frame([i \in DOMAIN keys |-> Untyped(keys[i])]
                                            \o [i \in DOMAIN names |-> Untyped(names[i])])
          [] \E g \in DOMAIN starts, i \in DOMAIN names : Value(g, i) = Throws -> Failed
          [] OTHER -> Frame([i \in DOMAIN keys |-> KeyCol(i)] \o [i \in DOMAIN names |-> AggCol(i)])

aggregate(df, aggs) ==
    IF df.group_keys = <<>> THEN aggregateAll(df, aggs) ELSE aggregateRuns(df, aggs)

\* The rows join outputs, in its order, as pairs of row numbers with 0 for nulls:
\* what module HashJoin computes and EquiJoinProofs proves of it.
JoinRows(L, R, on, how) ==
    LET lrows == [i \in 1..NumRows(L) |-> i]
        rrows == [i \in 1..NumRows(R) |-> i]
        Match(x, y) == \A i \in DOMAIN on : /\ Get(L, on[i]).v[x] = Get(R, on[i]).v[y]
                                            /\ Get(L, on[i]).v[x] # Null
        Partners(x) == SelectSeq(rrows, LAMBDA y : Match(x, y))
        Alone(x) == IF how \in {"left", "outer"} THEN << <<x, 0>> >> ELSE <<>>
        Of(x) == IF Partners(x) = <<>> THEN Alone(x)
                 ELSE [i \in DOMAIN Partners(x) |-> <<x, Partners(x)[i]>>]
        Orphans == IF how \notin {"right", "outer"} THEN <<>>
                   ELSE SelectSeq(rrows, LAMBDA y : \A x \in DOMAIN lrows : ~Match(x, y))
    IN  FlattenSeq([x \in DOMAIN lrows |-> Of(x)]) \o [i \in DOMAIN Orphans |-> <<0, Orphans[i]>>]

\* The columns of the left table, then those of the right table that are not keys; a
\* row of the right table alone brings its key cells to the left table's columns.
join(L, R, on, how) ==
    LET onSet == ToSet(on)
        rows == JoinRows(L, R, on, how)
        LeftCell(c, p) == IF p[1] # 0 THEN c.v[p[1]]
                          ELSE IF c.name \in onSet THEN Get(R, c.name).v[p[2]] ELSE Null
        RightCell(c, p) == IF p[2] # 0 THEN c.v[p[2]] ELSE Null
        extra == SelectSeq(R.cols, LAMBDA c : c.name \notin onSet)
        sameTypes == \A i \in DOMAIN on : Get(L, on[i]).ty = Get(R, on[i]).ty
    IN  CASE on = <<>> \/ how \notin {"inner", "left", "right", "outer"} -> Failed
          [] ~Holds(L, on) \/ ~Holds(R, on) -> Failed
          [] ~sameTypes /\ \E i \in DOMAIN rows : rows[i][1] = 0 -> Failed
          [] OTHER -> Frame(
                [c \in DOMAIN L.cols |->
                    [L.cols[c] EXCEPT !.v = [i \in DOMAIN rows |-> LeftCell(L.cols[c], rows[i])]]]
                \o [c \in DOMAIN extra |->
                    [extra[c] EXCEPT !.v = [i \in DOMAIN rows |-> RightCell(extra[c], rows[i])]]])
=============================================================================
