------------------------------ MODULE HashJoin ------------------------------
(***************************************************************************)
(* EagerDataFrame::join, loop by loop: argument checks, the hash index     *)
(* built over the right table, the probe of the left table, and the pass   *)
(* over the right rows nothing matched.  Key columns are kept (they decide *)
(* everything); the other columns travel with their row number.            *)
(***************************************************************************)
EXTENDS Integers, Sequences

CONSTANTS
    JoinInputs,  \* the calls considered: mode, number of key columns, both key tables,
                 \* whether both tables have the key columns, and of the same types
    Null,        \* the null cell
    Text,        \* Scalar::ToString: the characters each non-null cell is rendered to
    Sep          \* the character '\x1f' rowKey writes after each cell

ASSUME InputsAssumption ==
    \A i \in JoinInputs :
        /\ i.on \in Nat
        /\ i.left \in Seq(Seq(DOMAIN Text \cup {Null}))
        /\ i.right \in Seq(Seq(DOMAIN Text \cup {Null}))
        /\ i.sameType \in BOOLEAN /\ i.present \in BOOLEAN

VARIABLES
    in,             \* arguments: [how, on, present, sameType, left, right]
    phase,          \* where the call is
    rhs_index,      \* row key -> right rows holding it, in row order
    right_matched,  \* right rows that have been output
    l, r, j,        \* the cursors of the three loops (j walks it->second)
    out             \* the rows in the builders, as pairs <<l, r>>, 0 for nulls

vars == <<in, phase, rhs_index, right_matched, l, r, j, out>>

Supported == {"inner", "left", "right", "outer"}
LeftRows  == 1..Len(in.left)
RightRows == 1..Len(in.right)

\* rowKey stops at the first null cell and reports has_null ...
HasNull(t) == \E i \in 1..Len(t) : t[i] = Null

\* ... and otherwise concatenates the cells' texts, a separator after each.
RowKey(t) ==
    LET oss[i \in 0..Len(t)] ==
            IF i = 0 THEN <<>> ELSE oss[i - 1] \o Text[t[i]] \o <<Sep>>
    IN  oss[Len(t)]

LeftKey(i)  == RowKey(in.left[i])
RightKey(i) == RowKey(in.right[i])

KeepsLeft  == in.how \in {"left", "outer"}
KeepsRightNotOuter == in.how = "right"                       \* mutant
KeepsRight == in.how \in {"right", "outer"}

Init ==
    /\ in \in JoinInputs
    /\ phase = "check"
    /\ rhs_index = <<>>
    /\ right_matched = {}
    /\ l = 1 /\ r = 1 /\ j = 1
    /\ out = <<>>

Check ==
    /\ phase = "check"
    /\ phase' = IF in.on = 0 \/ in.how \notin Supported \/ ~in.present THEN "error" ELSE "index"
    /\ UNCHANGED <<in, rhs_index, right_matched, l, r, j, out>>

\* rhs_index[k].push_back(i): the bucket is created by its first row.
Bucket(k) == IF k \in DOMAIN rhs_index THEN rhs_index[k] ELSE <<>>

Put(k, bucket) ==
    [x \in DOMAIN rhs_index \cup {k} |-> IF x = k THEN bucket ELSE rhs_index[x]]

PushFront(k, i) == Put(k, <<i>> \o Bucket(k))                \* mutant
Overwrite(k, i) == Put(k, <<i>>)                             \* mutant
PushBack(k, i)  == Put(k, Append(Bucket(k), i))

IndexRow ==
    /\ phase = "index" /\ r \in RightRows
    /\ rhs_index' = IF HasNull(in.right[r]) THEN rhs_index ELSE PushBack(RightKey(r), r)
    /\ r' = r + 1
    /\ UNCHANGED <<in, phase, right_matched, l, j, out>>

IndexBuilt ==
    /\ phase = "index" /\ r > Len(in.right)
    /\ phase' = "probe"
    /\ UNCHANGED <<in, rhs_index, right_matched, l, r, j, out>>

\* A left row finds partners unless its key has a null or is not in the index.
Hits(i) == ~HasNull(in.left[i]) /\ LeftKey(i) \in DOMAIN rhs_index

WithoutNullKeys(i) ==                                         \* mutant
    IF KeepsLeft /\ ~HasNull(in.left[i]) THEN Append(out, <<i, 0>>) ELSE out
WithLeftOnly(i) == IF KeepsLeft THEN Append(out, <<i, 0>>) ELSE out

ProbeMiss ==
    /\ phase = "probe" /\ l \in LeftRows /\ ~Hits(l)
    /\ out' = WithLeftOnly(l)
    /\ l' = l + 1
    /\ UNCHANGED <<in, phase, rhs_index, right_matched, r, j>>

MarkFirst(i) == IF j = 1 THEN right_matched \cup {i} ELSE right_matched  \* mutant
Mark(i)      == right_matched \cup {i}

\* One turn of the loop over it->second; the last one moves to the next left row.
ProbeHit ==
    /\ phase = "probe" /\ l \in LeftRows /\ Hits(l)
    /\ LET bucket == rhs_index[LeftKey(l)] IN
        /\ out' = Append(out, <<l, bucket[j]>>)
        /\ right_matched' = Mark(bucket[j])
        /\ IF j < Len(bucket) THEN j' = j + 1 /\ l' = l ELSE j' = 1 /\ l' = l + 1
    /\ UNCHANGED <<in, phase, rhs_index, r>>

SecondRow == 2                                               \* mutant
FirstRow  == 1

Probed ==
    /\ phase = "probe" /\ l > Len(in.left)
    /\ IF KeepsRight THEN phase' = "rightonly" /\ r' = FirstRow ELSE phase' = "done" /\ r' = r
    /\ UNCHANGED <<in, rhs_index, right_matched, l, j, out>>

SkipForever == IF r \in right_matched THEN r ELSE r + 1      \* mutant
NextRow     == r + 1

\* An unmatched right row: its key cells are appended to the builders of the left
\* table's key columns, which refuse a scalar of another type.
RightOnly ==
    /\ phase = "rightonly" /\ r \in RightRows
    /\ IF r \in right_matched THEN out' = out /\ r' = NextRow /\ phase' = phase
       ELSE IF in.sameType THEN out' = Append(out, <<0, r>>) /\ r' = NextRow /\ phase' = phase
       ELSE out' = out /\ r' = r /\ phase' = "error"
    /\ UNCHANGED <<in, rhs_index, right_matched, l, j>>

Return ==
    /\ phase = "rightonly" /\ r > Len(in.right)
    /\ phase' = "done"
    /\ UNCHANGED <<in, rhs_index, right_matched, l, r, j, out>>

Next ==
    \/ Check \/ IndexRow \/ IndexBuilt \/ ProbeMiss \/ ProbeHit \/ Probed
    \/ RightOnly \/ Return

Spec == Init /\ [][Next]_vars

\* The call runs in its caller's thread and nothing in it waits.
FairSpec == Spec /\ WF_vars(Next)

-----------------------------------------------------------------------------
Phases == {"check", "index", "probe", "rightonly", "done", "error"}

\* The variables stay in their types.
TypeOK ==
    /\ in \in JoinInputs
    /\ phase \in Phases
    /\ \A k \in DOMAIN rhs_index : rhs_index[k] \in Seq(RightRows) \ {<<>>}
    /\ right_matched \subseteq RightRows
    /\ l \in 1..Len(in.left) + 1
    /\ r \in 1..Len(in.right) + 1
    /\ j \in Nat \ {0}
    /\ out \in Seq((LeftRows \cup {0}) \X (RightRows \cup {0}))

Indexed == IF phase \in {"check", "index"} THEN 1..r - 1 ELSE RightRows

Increasing(s) == \A x, y \in 1..Len(s) : x < y => s[x] < s[y]

\* The index is exact: its keys are those of the right rows read so far that have
\* no null in their key, and each bucket lists the rows of its key once, in row
\* order.  An entry lost or doubled changes how often a left row is joined.
IndexExact == phase # "error" =>
    /\ DOMAIN rhs_index = {RightKey(b) : b \in {x \in Indexed : ~HasNull(in.right[x])}}
    /\ \A k \in DOMAIN rhs_index :
        /\ Increasing(rhs_index[k])
        /\ {rhs_index[k][x] : x \in 1..Len(rhs_index[k])} =
             {b \in Indexed : ~HasNull(in.right[b]) /\ RightKey(b) = k}

\* The rows the join owes, with "equal keys" read as "equal row keys".
KeyMatch(a, b) ==
    ~HasNull(in.left[a]) /\ ~HasNull(in.right[b]) /\ LeftKey(a) = RightKey(b)

Owed(a, b) ==
    \/ a \in LeftRows /\ b \in RightRows /\ KeyMatch(a, b)
    \/ a \in LeftRows /\ b = 0 /\ KeepsLeft /\ \A y \in RightRows : ~KeyMatch(a, y)
    \/ a = 0 /\ b \in RightRows /\ KeepsRight /\ \A x \in LeftRows : ~KeyMatch(x, b)

Has(a, b) == \E i \in 1..Len(out) : out[i] = <<a, b>>

\* A join that returns has output exactly the rows it owes: every matching pair,
\* and under left/right/outer every row without a partner, null keys included.
OutputExact ==
    phase = "done" =>
        \A a \in LeftRows \cup {0}, b \in RightRows \cup {0} : Has(a, b) <=> Owed(a, b)

\* The output row <<a, b>> has had its turn.
Passed(a, b) ==
    \/ a # 0 /\ a < l
    \/ a = l /\ phase = "probe" /\ \E x \in 1..j - 1 : rhs_index[LeftKey(l)][x] = b
    \/ a = 0 /\ phase \in {"rightonly", "error"} /\ b < r
    \/ a = 0 /\ phase = "done"

\* In every phase the cursors tell exactly which of the owed rows are already out:
\* no loop skips a row it owes or outputs one ahead of its turn.
OutputProgress ==
    /\ \A a \in LeftRows \cup {0}, b \in RightRows \cup {0} :
          Has(a, b) <=> Owed(a, b) /\ Passed(a, b)
    /\ phase \in {"check", "index"} => l = 1
    /\ phase = "check" => r = 1
    /\ phase \in {"rightonly", "done"} => l = Len(in.left) + 1
    /\ phase = "rightonly" => KeepsRight
    /\ phase = "done" /\ KeepsRight => r = Len(in.right) + 1
    /\ IF phase = "probe" /\ l \in LeftRows
       THEN IF Hits(l) THEN j <= Len(rhs_index[LeftKey(l)]) ELSE j = 1
       ELSE j = 1

Before(p, q) ==
    \/ p[1] # 0 /\ q[1] = 0
    \/ p[1] = q[1] /\ p[2] < q[2]
    \/ p[1] < q[1] /\ p[1] # 0

\* At every moment the rows output are in the order of the left table, then of the
\* right one, and none is output twice.
OutputOrdered ==
    \A x, y \in 1..Len(out) : x < y => Before(out[x], out[y])

\* right_matched, which decides what the last loop outputs, holds just the right
\* rows that stand in an output row together with a left row.
MatchedExact ==
    right_matched = {b \in RightRows : \E a \in LeftRows : Has(a, b)}

\* Every call returns or throws.
Terminates == <>(phase \in {"done", "error"})
=============================================================================
