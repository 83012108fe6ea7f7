--------------------------- MODULE HashJoinProofs ---------------------------
(***************************************************************************)
(* EagerDataFrame::join computes the join, for every pair of tables.       *)
(***************************************************************************)
EXTENDS HashJoin, TLAPS

IInv == TypeOK /\ IndexExact /\ OutputProgress /\ OutputOrdered /\ MatchedExact

LEMMA AppendFacts ==
    ASSUME NEW S, NEW s \in Seq(S), NEW e \in S
    PROVE  /\ Append(s, e) \in Seq(S)
           /\ Len(Append(s, e)) = Len(s) + 1
           /\ \A i \in 1..Len(s) : Append(s, e)[i] = s[i]
           /\ Append(s, e)[Len(s) + 1] = e
    OBVIOUS

\* A sequence of rows stays increasing when a larger row is appended.
LEMMA AppendLarger ==
    ASSUME NEW n \in Nat, NEW s \in Seq(1..n), NEW e \in 1..n,
           Increasing(s), \A y \in 1..Len(s) : s[y] < e
    PROVE  /\ Append(s, e) \in Seq(1..n) \ {<<>>}
           /\ Increasing(Append(s, e))
           /\ {Append(s, e)[y] : y \in 1..Len(Append(s, e))} =
                {s[y] : y \in 1..Len(s)} \cup {e}
<1> DEFINE t == Append(s, e)
<1>1. /\ t \in Seq(1..n) /\ Len(t) = Len(s) + 1
      /\ \A y \in 1..Len(s) : t[y] = s[y]
      /\ t[Len(s) + 1] = e
    BY AppendFacts
<1>2. Len(s) \in Nat OBVIOUS
<1>3. t # <<>>
    <2>1. Len(t) # Len(<<>>) BY <1>1, <1>2
    <2> QED BY <2>1
<1> HIDE DEF t
<1>4. ASSUME NEW x \in 1..Len(t), NEW y \in 1..Len(t), x < y
      PROVE  t[x] < t[y]
    <2>1. x \in 1..Len(s) BY <1>1, <1>2, <1>4
    <2>2. CASE y \in 1..Len(s) BY <2>1, <2>2, <1>1, <1>4 DEF Increasing
    <2>3. CASE y = Len(s) + 1 BY <2>1, <2>3, <1>1
    <2> QED BY <2>2, <2>3, <1>1, <1>2
<1>5. {t[y] : y \in 1..Len(t)} = {s[y] : y \in 1..Len(s)} \cup {e}
    <2>1. 1..Len(t) = 1..Len(s) \cup {Len(s) + 1} BY <1>1, <1>2
    <2> QED BY <2>1, <1>1
<1> QED BY <1>1, <1>3, <1>4, <1>5 DEF t, Increasing

OutRow == (LeftRows \cup {0}) \X (RightRows \cup {0})

\* What is output after one more row is appended.
LEMMA HasAppend ==
    ASSUME out \in Seq(OutRow),
           NEW a \in LeftRows \cup {0}, NEW b \in RightRows \cup {0},
           out' = Append(out, <<a, b>>), UNCHANGED in
    PROVE  /\ out' \in Seq(OutRow')
           /\ Len(out') = Len(out) + 1
           /\ \A i \in 1..Len(out) : out'[i] = out[i]
           /\ out'[Len(out) + 1] = <<a, b>>
           /\ \A x, y : Has(x, y)' <=> (Has(x, y) \/ (x = a /\ y = b))
<1>1. <<a, b>> \in OutRow BY DEF OutRow
<1>2. OutRow' = OutRow BY DEF OutRow, LeftRows, RightRows
<1>3. /\ out' \in Seq(OutRow)
      /\ Len(out') = Len(out) + 1
      /\ \A i \in 1..Len(out) : out'[i] = out[i]
      /\ out'[Len(out) + 1] = <<a, b>>
    BY <1>1, AppendFacts
<1>4. \A x, y : Has(x, y)' <=> (Has(x, y) \/ (x = a /\ y = b))
    <2> SUFFICES ASSUME NEW x, NEW y
                 PROVE  Has(x, y)' <=> (Has(x, y) \/ (x = a /\ y = b))
        OBVIOUS
    <2>1. Len(out) \in Nat BY DEF OutRow
    <2>2. ASSUME Has(x, y)' PROVE Has(x, y) \/ (x = a /\ y = b)
        <3>1. PICK i \in 1..Len(out) + 1 : out'[i] = <<x, y>> BY <2>2, <1>3 DEF Has
        <3>2. CASE i \in 1..Len(out) BY <3>1, <3>2, <1>3 DEF Has
        <3>3. CASE i = Len(out) + 1 BY <3>1, <3>3, <1>3
        <3> QED BY <3>2, <3>3, <2>1
    <2>3. ASSUME Has(x, y) PROVE Has(x, y)'
        <3>1. PICK i \in 1..Len(out) : out[i] = <<x, y>> BY <2>3 DEF Has
        <3>2. i \in 1..Len(out') /\ out'[i] = <<x, y>> BY <3>1, <1>3, <2>1
        <3> QED BY <3>2 DEF Has
    <2>4. ASSUME x = a, y = b PROVE Has(x, y)'
        BY <2>4, <1>3, <2>1 DEF Has
    <2> QED BY <2>2, <2>3, <2>4
<1> QED BY <1>2, <1>3, <1>4

\* Appending a row that comes after all others keeps the order.
LEMMA OrderedAppend ==
    ASSUME out \in Seq(OutRow), OutputOrdered,
           NEW a \in LeftRows \cup {0}, NEW b \in RightRows \cup {0},
           out' = Append(out, <<a, b>>), UNCHANGED in,
           \A x \in LeftRows \cup {0}, y \in RightRows \cup {0} :
               Has(x, y) => Before(<<x, y>>, <<a, b>>)
    PROVE  OutputOrdered'
<1>1. /\ Len(out') = Len(out) + 1
      /\ \A i \in 1..Len(out) : out'[i] = out[i]
      /\ out'[Len(out) + 1] = <<a, b>>
    BY HasAppend
<1>2. Len(out) \in Nat BY DEF OutRow
<1>3. ASSUME NEW i \in 1..Len(out) PROVE Before(out[i], <<a, b>>)
    <2>1. out[i] \in OutRow BY DEF OutRow
    <2>2. PICK x \in LeftRows \cup {0}, y \in RightRows \cup {0} : out[i] = <<x, y>>
        BY <2>1 DEF OutRow
    <2> QED BY <2>2 DEF Has
<1> SUFFICES ASSUME NEW x \in 1..Len(out'), NEW y \in 1..Len(out'), x < y
             PROVE  Before(out'[x], out'[y])
    BY DEF OutputOrdered, Before
<1>4. CASE y \in 1..Len(out)
    <2>1. x \in 1..Len(out) BY <1>2, <1>4
    <2> QED BY <2>1, <1>1, <1>4 DEF OutputOrdered
<1>5. CASE y = Len(out) + 1
    <2>1. x \in 1..Len(out) BY <1>2, <1>5, <1>1
    <2> QED BY <2>1, <1>1, <1>3, <1>5
<1> QED BY <1>1, <1>2, <1>4, <1>5

-----------------------------------------------------------------------------
\* Facts every step needs: the arguments are fixed and well typed.
LEMMA InputFacts ==
    ASSUME in \in JoinInputs
    PROVE  /\ Len(in.left) \in Nat /\ Len(in.right) \in Nat
           /\ in.on \in Nat /\ in.sameType \in BOOLEAN
           /\ LeftRows = 1..Len(in.left) /\ RightRows = 1..Len(in.right)
    BY InputsAssumption DEF LeftRows, RightRows

\* What stays the same when the arguments do.
LEMMA Fixed ==
    ASSUME UNCHANGED in
    PROVE  /\ LeftRows' = LeftRows /\ RightRows' = RightRows
           /\ KeepsLeft' <=> KeepsLeft
           /\ KeepsRight' <=> KeepsRight
           /\ \A a : LeftKey(a)' = LeftKey(a) /\ RightKey(a)' = RightKey(a)
           /\ \A a, b : KeyMatch(a, b)' <=> KeyMatch(a, b)
           /\ \A a, b : Owed(a, b)' <=> Owed(a, b)
    BY DEF LeftRows, RightRows, KeepsLeft, KeepsRight, LeftKey, RightKey, KeyMatch, Owed

\* Nothing about the output changes in a step that appends no row.
LEMMA HasSame ==
    ASSUME UNCHANGED <<in, out>>
    PROVE  /\ \A a, b : Has(a, b)' <=> Has(a, b)
           /\ OutputOrdered => OutputOrdered'
    BY DEF Has, OutputOrdered, Before

\* With the index complete, a left row finds its partners in its bucket and only there.
LEMMA BucketIsMatches ==
    ASSUME TypeOK, IndexExact, phase = "probe", NEW a \in LeftRows
    PROVE  /\ ~Hits(a) => \A b \in RightRows : ~KeyMatch(a, b)
           /\ Hits(a) =>
                /\ rhs_index[LeftKey(a)] \in Seq(RightRows) \ {<<>>}
                /\ Increasing(rhs_index[LeftKey(a)])
                /\ \A b \in RightRows : KeyMatch(a, b) <=>
                     \E x \in 1..Len(rhs_index[LeftKey(a)]) : rhs_index[LeftKey(a)][x] = b
<1>1. Indexed = RightRows BY DEF Indexed
<1>2. DOMAIN rhs_index = {RightKey(b) : b \in {x \in RightRows : ~HasNull(in.right[x])}}
    BY <1>1 DEF IndexExact
<1>3. ASSUME ~Hits(a), NEW b \in RightRows, KeyMatch(a, b) PROVE FALSE
    BY <1>2, <1>3 DEF Hits, KeyMatch
<1>4. ASSUME Hits(a)
      PROVE  /\ rhs_index[LeftKey(a)] \in Seq(RightRows) \ {<<>>}
             /\ Increasing(rhs_index[LeftKey(a)])
    BY <1>4 DEF Hits, TypeOK, IndexExact
<1>5. ASSUME Hits(a), NEW b \in RightRows
      PROVE  KeyMatch(a, b) <=>
                \E x \in 1..Len(rhs_index[LeftKey(a)]) : rhs_index[LeftKey(a)][x] = b
    <2> DEFINE bucket == rhs_index[LeftKey(a)]
    <2>1. {bucket[x] : x \in 1..Len(bucket)} =
            {y \in RightRows : ~HasNull(in.right[y]) /\ RightKey(y) = LeftKey(a)}
        BY <1>1, <1>5 DEF IndexExact, Hits
    <2>2. KeyMatch(a, b) <=> ~HasNull(in.right[b]) /\ RightKey(b) = LeftKey(a)
        BY <1>5 DEF KeyMatch, Hits
    <2> QED BY <2>1, <2>2
<1> QED BY <1>3, <1>4, <1>5

-----------------------------------------------------------------------------
LEMMA InitIInv == Init => IInv
<1> SUFFICES ASSUME Init PROVE IInv
    OBVIOUS
<1>1. /\ Len(in.left) \in Nat /\ Len(in.right) \in Nat
    BY InputFacts DEF Init
<1>2. Len(<<>>) = 0 /\ DOMAIN <<>> = {}
    OBVIOUS
<1>3. TypeOK BY <1>1, <1>2 DEF Init, TypeOK, Phases, LeftRows, RightRows
<1>4. IndexExact BY <1>2 DEF Init, IndexExact, Indexed
<1>5. OutputProgress
    BY <1>1, <1>2 DEF Init, OutputProgress, Has, Passed, LeftRows, RightRows, Owed
<1>6. OutputOrdered BY <1>2 DEF Init, OutputOrdered
<1>7. MatchedExact BY <1>2 DEF Init, MatchedExact, Has
<1> QED BY <1>3, <1>4, <1>5, <1>6, <1>7 DEF IInv

\* A step that leaves output, index and the probe's cursors alone.
LEMMA QuietStep ==
    ASSUME IInv, UNCHANGED <<in, rhs_index, right_matched, l, j, out>>,
           phase' \in Phases, r' \in 1..Len(in.right) + 1
    PROVE  /\ TypeOK' /\ OutputOrdered' /\ MatchedExact'
           /\ Indexed' = Indexed => (phase # "error" => IndexExact')
<1> USE DEF IInv
<1>1. TypeOK' BY DEF TypeOK, LeftRows, RightRows
<1>2. OutputOrdered' /\ MatchedExact'
    BY HasSame, Fixed DEF MatchedExact, LeftRows, RightRows
<1>3. ASSUME Indexed' = Indexed, phase # "error" PROVE IndexExact'
    BY <1>3, Fixed DEF IndexExact, Increasing
<1> QED BY <1>1, <1>2, <1>3

LEMMA CheckStep == IInv /\ Check => IInv'
<1> SUFFICES ASSUME IInv, Check PROVE IInv'
    OBVIOUS
<1>1. /\ phase = "check" /\ phase' \in {"error", "index"} /\ r = 1 /\ l = 1 /\ j = 1
      /\ UNCHANGED <<in, rhs_index, right_matched, l, r, j, out>>
    BY DEF IInv, Check, OutputProgress
<1>2. r' \in 1..Len(in.right) + 1 /\ phase' \in Phases
    BY <1>1 DEF IInv, TypeOK, Phases
<1>3. TypeOK' /\ OutputOrdered' /\ MatchedExact'
    BY <1>1, <1>2, QuietStep
<1>4. IndexExact'
    <2>1. CASE phase' = "error" BY <2>1 DEF IndexExact
    <2>2. CASE phase' = "index"
        <3>1. Indexed' = Indexed BY <1>1, <2>2 DEF Indexed
        <3> QED BY <3>1, <1>1, <1>2, QuietStep
    <2> QED BY <1>1, <2>1, <2>2
<1>5. OutputProgress'
    <2>1. \A a \in LeftRows \cup {0}, b \in RightRows \cup {0} :
              (Has(a, b) <=> Owed(a, b) /\ Passed(a, b))'
        <3> TAKE a \in LeftRows \cup {0}, b \in RightRows \cup {0}
        <3>1. Owed(a, b) => a # 0 \/ b # 0 BY InputFacts DEF Owed, LeftRows, RightRows, IInv, TypeOK
        <3>2. ~(Owed(a, b) /\ Passed(a, b))
            BY <1>1, <3>1, InputFacts DEF Passed, LeftRows, RightRows, IInv, TypeOK
        <3>3. ~(Owed(a, b)' /\ Passed(a, b)')
            BY <1>1, <3>1, Fixed, InputFacts DEF Passed, LeftRows, RightRows, IInv, TypeOK
        <3> QED BY <3>2, <3>3, <1>1, HasSame DEF IInv, OutputProgress
    <2>2. LeftRows' = LeftRows /\ RightRows' = RightRows BY <1>1, Fixed
    <2> QED BY <1>1, <2>1, <2>2 DEF OutputProgress, IInv
<1> QED BY <1>3, <1>4, <1>5 DEF IInv

\* Steps that append nothing and move no owed row's turn keep OutputProgress.
LEMMA QuietProgress ==
    ASSUME IInv, UNCHANGED <<in, rhs_index, l, j, out>>,
           \A a \in LeftRows \cup {0}, b \in RightRows \cup {0} :
               Owed(a, b) => (Passed(a, b)' <=> Passed(a, b)),
           phase' \in {"check", "index"} => l = 1,
           phase' = "check" => r' = 1,
           phase' \in {"rightonly", "done"} => l = Len(in.left) + 1,
           phase' = "rightonly" => KeepsRight,
           phase' = "done" /\ KeepsRight => r' = Len(in.right) + 1,
           IF phase' = "probe" /\ l \in LeftRows
           THEN IF Hits(l) THEN j <= Len(rhs_index[LeftKey(l)]) ELSE j = 1
           ELSE j = 1
    PROVE  OutputProgress'
<1>1. \A a \in LeftRows \cup {0}, b \in RightRows \cup {0} :
          (Has(a, b) <=> Owed(a, b) /\ Passed(a, b))'
    BY Fixed, HasSame DEF IInv, OutputProgress
<1>2. Hits(l)' <=> Hits(l) BY Fixed DEF Hits
<1> QED BY <1>1, <1>2, Fixed DEF OutputProgress

LEMMA IndexRowStep == IInv /\ IndexRow => IInv'
<1> SUFFICES ASSUME IInv, IndexRow PROVE IInv'
    OBVIOUS
<1> DEFINE k == RightKey(r)
<1>1. /\ phase = "index" /\ phase' = "index" /\ r \in RightRows /\ r' = r + 1
      /\ UNCHANGED <<in, phase, right_matched, l, j, out>>
    BY DEF IndexRow
<1>2. /\ Len(in.left) \in Nat /\ Len(in.right) \in Nat /\ RightRows = 1..Len(in.right)
    BY InputFacts DEF IInv, TypeOK
<1>3. r' \in 1..Len(in.right) + 1 BY <1>1, <1>2
<1>4. Indexed = 1..r - 1 /\ Indexed' = Indexed \cup {r} /\ r \notin Indexed
    BY <1>1, <1>2 DEF Indexed
<1>5. OutputOrdered' /\ MatchedExact'
    BY <1>1, HasSame, Fixed DEF IInv, MatchedExact
<1>6. OutputProgress'
    <2>1. l = 1 /\ j = 1 /\ l' = l /\ j' = j BY <1>1 DEF IInv, OutputProgress
    <2>2. \A a \in LeftRows \cup {0}, b \in RightRows \cup {0} :
              (Has(a, b) <=> Owed(a, b) /\ Passed(a, b))'
        <3> TAKE a \in LeftRows \cup {0}, b \in RightRows \cup {0}
        <3>1. Passed(a, b)' <=> Passed(a, b) BY <1>1, <2>1 DEF Passed
        <3> QED BY <3>1, <1>1, Fixed, HasSame DEF IInv, OutputProgress
    <2> QED BY <1>1, <2>1, <2>2, Fixed DEF OutputProgress
<1>7. CASE HasNull(in.right[r])
    <2>1. rhs_index' = rhs_index BY <1>7 DEF IndexRow
    <2>2. TypeOK' BY <2>1, <1>1, <1>2, <1>3 DEF IInv, TypeOK, LeftRows, RightRows
    <2>3. {x \in Indexed' : ~HasNull(in.right[x])} = {x \in Indexed : ~HasNull(in.right[x])}
        BY <1>4, <1>7
    <2>4. \A x : {b \in Indexed' : ~HasNull(in.right[b]) /\ RightKey(b) = x}
               = {b \in Indexed : ~HasNull(in.right[b]) /\ RightKey(b) = x}
        BY <1>4, <1>7
    <2>5. /\ DOMAIN rhs_index' = {RightKey(b) : b \in {x \in Indexed' : ~HasNull(in.right[x])}}
          /\ \A x \in DOMAIN rhs_index' :
                /\ Increasing(rhs_index'[x])
                /\ {rhs_index'[x][y] : y \in 1..Len(rhs_index'[x])} =
                     {b \in Indexed' : ~HasNull(in.right[b]) /\ RightKey(b) = x}
        BY <2>1, <2>3, <2>4, <1>1 DEF IInv, IndexExact
    <2>6. \A b : RightKey(b)' = RightKey(b) BY <1>1, Fixed
    <2>7. IndexExact' BY <2>5, <2>6, <1>1 DEF IndexExact, Increasing
    <2> QED BY <2>2, <2>7, <1>5, <1>6 DEF IInv
<1>8. CASE ~HasNull(in.right[r])
    <2>1. /\ DOMAIN rhs_index' = DOMAIN rhs_index \cup {k}
          /\ \A x \in DOMAIN rhs_index \ {k} : rhs_index'[x] = rhs_index[x]
          /\ k \in DOMAIN rhs_index => rhs_index'[k] = Append(rhs_index[k], r)
          /\ k \notin DOMAIN rhs_index => rhs_index'[k] = Append(<<>>, r)
        <3>1. rhs_index' = PushBack(k, r) BY <1>8 DEF IndexRow
        <3> QED BY <3>1, <1>1 DEF PushBack, Put, Bucket
    <2>2. \A x \in DOMAIN rhs_index : rhs_index[x] \in Seq(RightRows) \ {<<>>}
        BY DEF IInv, TypeOK
    <2>3. \A x \in DOMAIN rhs_index :
            /\ Increasing(rhs_index[x])
            /\ {rhs_index[x][y] : y \in 1..Len(rhs_index[x])} =
                 {b \in Indexed : ~HasNull(in.right[b]) /\ RightKey(b) = x}
        BY <1>1 DEF IInv, IndexExact
    <2>4. DOMAIN rhs_index = {RightKey(b) : b \in {x \in Indexed : ~HasNull(in.right[x])}}
        BY <1>1 DEF IInv, IndexExact
    <2>5. /\ rhs_index'[k] \in Seq(RightRows) \ {<<>>}
          /\ Increasing(rhs_index'[k])
          /\ {rhs_index'[k][y] : y \in 1..Len(rhs_index'[k])} =
               {b \in Indexed \cup {r} : ~HasNull(in.right[b]) /\ RightKey(b) = k}
        <3>1. CASE k \in DOMAIN rhs_index
            <4> DEFINE s == rhs_index[k]
                       t == Append(s, r)
            <4>1. s \in Seq(RightRows) /\ Increasing(s) BY <2>2, <2>3, <3>1
            <4>2. \A y \in 1..Len(s) : s[y] < r
                <5>1. \A y \in 1..Len(s) : s[y] \in Indexed BY <2>3, <3>1
                <5> QED BY <5>1, <1>1, <1>2, <1>4
            <4>3. /\ t \in Seq(RightRows) \ {<<>>} /\ Increasing(t)
                  /\ {t[y] : y \in 1..Len(t)} = {s[y] : y \in 1..Len(s)} \cup {r}
                BY <4>1, <4>2, <1>1, <1>2, AppendLarger
            <4>4. rhs_index'[k] = t BY <2>1, <3>1
            <4>5. {s[y] : y \in 1..Len(s)} =
                    {b \in Indexed : ~HasNull(in.right[b]) /\ RightKey(b) = k}
                BY <2>3, <3>1
            <4>6. {b \in Indexed \cup {r} : ~HasNull(in.right[b]) /\ RightKey(b) = k} =
                    {b \in Indexed : ~HasNull(in.right[b]) /\ RightKey(b) = k} \cup {r}
                BY <1>8
            <4> HIDE DEF s, t
            <4> QED BY <4>3, <4>4, <4>5, <4>6
        <3>2. CASE k \notin DOMAIN rhs_index
            <4>1. rhs_index'[k] = <<r>>
                <5>1. Append(<<>>, r) = <<r>> OBVIOUS
                <5> QED BY <5>1, <2>1, <3>2
            <4>2. {b \in Indexed \cup {r} : ~HasNull(in.right[b]) /\ RightKey(b) = k} = {r}
                BY <2>4, <3>2, <1>8
            <4>3. {<<r>>[y] : y \in 1..Len(<<r>>)} = {r}
                <5>1. 1..Len(<<r>>) = {1} OBVIOUS
                <5> QED BY <5>1
            <4>4. <<r>> \in Seq(RightRows) \ {<<>>} /\ Increasing(<<r>>)
                BY <1>1 DEF Increasing
            <4> QED BY <4>1, <4>2, <4>3, <4>4
        <3> QED BY <3>1, <3>2
    <2>6. TypeOK'
        BY <2>1, <2>2, <2>5, <1>1, <1>2, <1>3 DEF IInv, TypeOK, LeftRows, RightRows
    <2>7. IndexExact'
        <3>1. \A x \in DOMAIN rhs_index' :
                /\ Increasing(rhs_index'[x])
                /\ {rhs_index'[x][y] : y \in 1..Len(rhs_index'[x])} =
                     {b \in Indexed \cup {r} : ~HasNull(in.right[b]) /\ RightKey(b) = x}
            <4> TAKE x \in DOMAIN rhs_index'
            <4>1. CASE x = k BY <4>1, <2>5
            <4>2. CASE x # k
                <5>1. x \in DOMAIN rhs_index /\ rhs_index'[x] = rhs_index[x] BY <2>1, <4>2
                <5> QED BY <5>1, <2>3, <4>2
            <4> QED BY <4>1, <4>2
        <3>2. DOMAIN rhs_index' =
                {RightKey(b) : b \in {x \in Indexed \cup {r} : ~HasNull(in.right[x])}}
            BY <2>1, <2>4, <1>8
        <3>3. \A b : RightKey(b)' = RightKey(b) BY <1>1, Fixed
        <3> QED BY <3>1, <3>2, <3>3, <1>1, <1>4 DEF IndexExact, Increasing
    <2> QED BY <2>6, <2>7, <1>5, <1>6 DEF IInv
<1> QED BY <1>7, <1>8

LEMMA IndexBuiltStep == IInv /\ IndexBuilt => IInv'
<1> SUFFICES ASSUME IInv, IndexBuilt PROVE IInv'
    OBVIOUS
<1>1. /\ phase = "index" /\ phase' = "probe" /\ r > Len(in.right)
      /\ UNCHANGED <<in, rhs_index, right_matched, l, r, j, out>>
    BY DEF IndexBuilt
<1>2. /\ Len(in.left) \in Nat /\ Len(in.right) \in Nat /\ RightRows = 1..Len(in.right)
      /\ LeftRows = 1..Len(in.left) /\ r \in 1..Len(in.right) + 1 /\ l = 1 /\ j = 1
    BY <1>1, InputFacts DEF IInv, TypeOK, OutputProgress
<1>3. r' \in 1..Len(in.right) + 1 /\ phase' \in Phases BY <1>1, <1>2 DEF Phases
<1>4. Indexed' = Indexed
    BY <1>1, <1>2 DEF Indexed, RightRows
<1>5. TypeOK' /\ OutputOrdered' /\ MatchedExact' /\ IndexExact'
    BY <1>1, <1>3, <1>4, QuietStep
<1>6. OutputProgress'
    <2>1. \A a \in LeftRows \cup {0}, b \in RightRows \cup {0} :
              Passed(a, b)' <=> Passed(a, b)
        BY <1>1, <1>2 DEF Passed
    <2>2. l \in LeftRows /\ Hits(l) => j <= Len(rhs_index[LeftKey(l)])
        <3>1. ASSUME l \in LeftRows, Hits(l)
              PROVE  rhs_index[LeftKey(l)] \in Seq(RightRows) \ {<<>>}
            BY <3>1 DEF IInv, TypeOK, Hits
        <3> QED BY <3>1, <1>2
    <2> QED BY <2>1, <2>2, <1>1, <1>2, QuietProgress
<1> QED BY <1>5, <1>6 DEF IInv

\* The rows already out when left row l is at hand all come before its own.
LEMMA EarlierRows ==
    ASSUME IInv, phase = "probe", l \in LeftRows,
           NEW a \in LeftRows \cup {0}, NEW b \in RightRows \cup {0}, Has(a, b)
    PROVE  /\ a # 0 /\ a <= l
           /\ a = l => Hits(l) /\ \E x \in 1..j - 1 : rhs_index[LeftKey(l)][x] = b
<1>1. Passed(a, b) BY DEF IInv, OutputProgress
<1>2. /\ Len(in.left) \in Nat /\ LeftRows = 1..Len(in.left)
    BY InputFacts DEF IInv, TypeOK
<1>3. a # 0 /\ a <= l BY <1>1, <1>2 DEF Passed
<1>4. ASSUME a = l PROVE \E x \in 1..j - 1 : rhs_index[LeftKey(l)][x] = b
    BY <1>1, <1>2, <1>4 DEF Passed
<1>5. ASSUME a = l PROVE Hits(l)
    <2>1. PICK x \in 1..j - 1 : TRUE BY <1>4, <1>5
    <2>2. j # 1 BY <2>1
    <2> QED BY <2>2 DEF IInv, OutputProgress
<1> QED BY <1>3, <1>4, <1>5

LEMMA ProbeMissStep == IInv /\ ProbeMiss => IInv'
<1> SUFFICES ASSUME IInv, ProbeMiss PROVE IInv'
    OBVIOUS
<1>1. /\ phase = "probe" /\ phase' = "probe" /\ l \in LeftRows /\ ~Hits(l) /\ l' = l + 1
      /\ UNCHANGED <<in, rhs_index, right_matched, r, j>>
    BY DEF ProbeMiss
<1>2. /\ Len(in.left) \in Nat /\ Len(in.right) \in Nat /\ RightRows = 1..Len(in.right)
      /\ LeftRows = 1..Len(in.left) /\ j = 1
    BY <1>1, InputFacts DEF IInv, TypeOK, OutputProgress
<1>3. \A b \in RightRows : ~KeyMatch(l, b) BY <1>1, BucketIsMatches DEF IInv
<1>4. out \in Seq(OutRow) BY DEF IInv, TypeOK, OutRow
<1>5. \A a \in LeftRows \cup {0}, b \in RightRows \cup {0} :
          Owed(a, b) /\ Passed(a, b)' <=>
             \/ Owed(a, b) /\ Passed(a, b)
             \/ KeepsLeft /\ a = l /\ b = 0
    <2> TAKE a \in LeftRows \cup {0}, b \in RightRows \cup {0}
    <2>1. Passed(a, b) <=> a # 0 /\ a < l BY <1>1, <1>2 DEF Passed
    <2>2. Passed(a, b)' <=> a # 0 /\ a < l + 1 BY <1>1, <1>2 DEF Passed
    <2>3. a = l => (Owed(a, b) <=> b = 0 /\ KeepsLeft)
        BY <1>1, <1>2, <1>3 DEF Owed
    <2> QED BY <2>1, <2>2, <2>3, <1>1, <1>2
<1>6. /\ out' \in Seq(OutRow')
      /\ OutputOrdered'
      /\ \A a \in LeftRows \cup {0}, b \in RightRows \cup {0} :
            Has(a, b)' <=> Has(a, b) \/ (KeepsLeft /\ a = l /\ b = 0)
    <2>1. CASE KeepsLeft
        <3>1. out' = Append(out, <<l, 0>>) BY <2>1 DEF ProbeMiss, WithLeftOnly
        <3>2. \A x \in LeftRows \cup {0}, y \in RightRows \cup {0} :
                  Has(x, y) => Before(<<x, y>>, <<l, 0>>)
            BY <1>1, <1>2, EarlierRows DEF Before
        <3>3. OutputOrdered' BY <3>1, <3>2, <1>1, <1>4, OrderedAppend DEF IInv
        <3> QED BY <3>1, <3>3, <1>1, <1>4, <2>1, HasAppend
    <2>2. CASE ~KeepsLeft
        <3>1. out' = out BY <2>2 DEF ProbeMiss, WithLeftOnly
        <3> QED BY <3>1, <1>1, <1>4, <2>2, HasSame, Fixed DEF IInv, OutRow
    <2> QED BY <2>1, <2>2
<1>7. TypeOK' BY <1>1, <1>2, <1>6 DEF IInv, TypeOK, OutRow, LeftRows, RightRows
<1>8. IndexExact' BY <1>1, Fixed DEF IInv, IndexExact, Indexed, Increasing
<1>9. MatchedExact'
    <2>1. \A a \in LeftRows, b \in RightRows : Has(a, b)' <=> Has(a, b)
        BY <1>6, <1>2
    <2> QED BY <2>1, <1>1, Fixed DEF IInv, MatchedExact
<1>10. OutputProgress'
    <2>1. \A a \in LeftRows \cup {0}, b \in RightRows \cup {0} :
              (Has(a, b) <=> Owed(a, b) /\ Passed(a, b))'
        BY <1>5, <1>6, <1>1, Fixed DEF IInv, OutputProgress
    <2>2. (IF l \in LeftRows
           THEN IF Hits(l) THEN j <= Len(rhs_index[LeftKey(l)]) ELSE j = 1
           ELSE j = 1)'
        <3>1. Hits(l)' => rhs_index'[LeftKey(l)'] \in Seq(RightRows') \ {<<>>}
            BY <1>7 DEF TypeOK, Hits
        <3> QED BY <3>1, <1>1, <1>2
    <2> QED BY <2>1, <2>2, <1>1, <1>2, Fixed DEF OutputProgress
<1> QED BY <1>6, <1>7, <1>8, <1>9, <1>10 DEF IInv

LEMMA ProbeHitStep == IInv /\ ProbeHit => IInv'
<1> SUFFICES ASSUME IInv, ProbeHit PROVE IInv'
    OBVIOUS
<1> DEFINE bucket == rhs_index[LeftKey(l)]
<1>1. /\ phase = "probe" /\ phase' = "probe" /\ l \in LeftRows /\ Hits(l)
      /\ UNCHANGED <<in, rhs_index, r>>
      /\ out' = Append(out, <<l, bucket[j]>>)
      /\ right_matched' = right_matched \cup {bucket[j]}
      /\ IF j < Len(bucket) THEN j' = j + 1 /\ l' = l ELSE j' = 1 /\ l' = l + 1
    BY DEF ProbeHit, Mark
<1>2. /\ Len(in.left) \in Nat /\ Len(in.right) \in Nat /\ RightRows = 1..Len(in.right)
      /\ LeftRows = 1..Len(in.left) /\ j \in Nat \ {0} /\ j <= Len(bucket)
    BY <1>1, InputFacts DEF IInv, TypeOK, OutputProgress
<1>3. /\ bucket \in Seq(RightRows) \ {<<>>} /\ Increasing(bucket)
      /\ \A b \in RightRows :
            KeyMatch(l, b) <=> \E x \in 1..Len(bucket) : bucket[x] = b
    BY <1>1, BucketIsMatches DEF IInv
<1>4. j \in 1..Len(bucket) /\ Len(bucket) \in Nat BY <1>2, <1>3
<1> HIDE DEF bucket
<1>5. bucket[j] \in RightRows /\ bucket[j] # 0 /\ KeyMatch(l, bucket[j])
    <2>1. bucket[j] \in RightRows BY <1>3, <1>4
    <2> QED BY <2>1, <1>2, <1>3, <1>4
<1>6. out \in Seq(OutRow) BY DEF IInv, TypeOK, OutRow
<1>7. /\ out' \in Seq(OutRow')
      /\ \A x, y : Has(x, y)' <=> (Has(x, y) \/ (x = l /\ y = bucket[j]))
    BY <1>1, <1>5, <1>6, HasAppend
<1>8. OutputOrdered'
    <2>1. ASSUME NEW x \in LeftRows \cup {0}, NEW y \in RightRows \cup {0}, Has(x, y)
          PROVE  Before(<<x, y>>, <<l, bucket[j]>>)
        <3>1. x # 0 /\ x <= l BY <2>1, <1>1, EarlierRows
        <3>2. CASE x = l
            <4>1. PICK i \in 1..j - 1 : bucket[i] = y
                BY <3>2, <2>1, <1>1, EarlierRows DEF bucket
            <4>2. i \in 1..Len(bucket) /\ i < j BY <1>4
            <4>3. bucket[i] < bucket[j] BY <4>2, <1>3, <1>4 DEF Increasing
            <4> QED BY <4>1, <4>3, <3>2 DEF Before
        <3>3. CASE x # l BY <3>1, <3>3, <1>2, <1>1 DEF Before
        <3> QED BY <3>2, <3>3
    <2> QED BY <2>1, <1>1, <1>5, <1>6, OrderedAppend DEF IInv
<1>9. /\ l' \in 1..Len(in.left) + 1 /\ j' \in Nat \ {0}
      /\ l' \in LeftRows /\ l' = l => j' = j + 1 /\ j' <= Len(bucket)
      /\ l' # l => l' = l + 1 /\ j' = 1 /\ j = Len(bucket)
    BY <1>1, <1>2, <1>4
<1>10. TypeOK'
    BY <1>1, <1>2, <1>5, <1>7, <1>9 DEF IInv, TypeOK, OutRow, LeftRows, RightRows
<1>11. IndexExact'
    <2>1. UNCHANGED <<in, phase, rhs_index, r>> BY <1>1
    <2> QED BY <2>1, Fixed DEF IInv, IndexExact, Indexed, Increasing
<1>12. MatchedExact'
    BY <1>1, <1>5, <1>7, Fixed DEF IInv, MatchedExact
<1>13. \A a \in LeftRows \cup {0}, b \in RightRows \cup {0} :
          Owed(a, b) /\ Passed(a, b)' <=>
             \/ Owed(a, b) /\ Passed(a, b)
             \/ a = l /\ b = bucket[j]
    <2> TAKE a \in LeftRows \cup {0}, b \in RightRows \cup {0}
    <2>1. Passed(a, b) <=> (a # 0 /\ a < l) \/ (a = l /\ \E x \in 1..j - 1 : bucket[x] = b)
        BY <1>1, <1>2 DEF Passed, bucket
    <2>2. a = l => (Owed(a, b) <=> \E x \in 1..Len(bucket) : bucket[x] = b)
        <3>1. CASE b = 0
            <4>1. \A x \in 1..Len(bucket) : bucket[x] # 0 BY <1>2, <1>3
            <4> QED BY <3>1, <4>1, <1>1, <1>2, <1>5 DEF Owed
        <3>2. CASE b \in RightRows
            <4>1. a = l => (Owed(a, b) <=> KeyMatch(a, b))
                BY <3>2, <1>1, <1>2 DEF Owed
            <4> QED BY <4>1, <3>2, <1>3
        <3> QED BY <3>1, <3>2
    <2>3. CASE l' = l
        <3>1. j' = j + 1 BY <1>9, <2>3, <1>1
        <3>2. rhs_index'[LeftKey(l)'] = bucket BY <1>1, <2>3, Fixed DEF bucket, LeftKey
        <3>3. Passed(a, b)' <=> (a # 0 /\ a < l) \/ (a = l /\ \E x \in 1..j : bucket[x] = b)
            BY <1>1, <1>2, <2>3, <3>1, <3>2 DEF Passed
        <3>4. (\E x \in 1..j : bucket[x] = b) <=>
                 (\E x \in 1..j - 1 : bucket[x] = b) \/ bucket[j] = b
            BY <1>2
        <3>5. (a = l /\ bucket[j] = b) => Owed(a, b) BY <2>2, <1>4
        <3> QED BY <2>1, <3>3, <3>4, <3>5
    <2>4. CASE l' # l
        <3>1. j' = 1 /\ l' = l + 1 /\ j = Len(bucket) BY <1>9, <2>4
        <3>2. Passed(a, b)' <=> a # 0 /\ a < l + 1 BY <1>1, <1>2, <3>1 DEF Passed
        <3>3. (\E x \in 1..Len(bucket) : bucket[x] = b) <=>
                 (\E x \in 1..j - 1 : bucket[x] = b) \/ bucket[j] = b
            BY <1>2, <3>1
        <3> QED BY <2>1, <2>2, <3>2, <3>3, <1>1, <1>2
    <2> QED BY <2>3, <2>4
<1>14. OutputProgress'
    <2>1. \A a \in LeftRows \cup {0}, b \in RightRows \cup {0} :
              (Has(a, b) <=> Owed(a, b) /\ Passed(a, b))'
        BY <1>7, <1>13, <1>1, Fixed DEF IInv, OutputProgress
    <2>2. (IF l \in LeftRows
           THEN IF Hits(l) THEN j <= Len(rhs_index[LeftKey(l)]) ELSE j = 1
           ELSE j = 1)'
        <3>1. CASE l' = l
            <4>1. rhs_index'[LeftKey(l)'] = bucket BY <1>1, <3>1, Fixed DEF bucket, LeftKey
            <4>2. Hits(l)' BY <1>1, <3>1, Fixed DEF Hits, LeftKey, HasNull
            <4>3. l' \in LeftRows' BY <1>1, <3>1, Fixed
            <4> QED BY <4>1, <4>2, <4>3, <1>1, <3>1, <1>9, Fixed
        <3>2. CASE l' # l
            <4>1. Hits(l)' => rhs_index'[LeftKey(l)'] \in Seq(RightRows') \ {<<>>}
                BY <1>10 DEF TypeOK, Hits
            <4> QED BY <4>1, <3>2, <1>9
        <3> QED BY <3>1, <3>2
    <2> QED BY <2>1, <2>2, <1>1, Fixed DEF OutputProgress
<1> QED BY <1>8, <1>10, <1>11, <1>12, <1>14 DEF IInv

LEMMA ProbedStep == IInv /\ Probed => IInv'
<1> SUFFICES ASSUME IInv, Probed PROVE IInv'
    OBVIOUS
<1>1. /\ phase = "probe" /\ l > Len(in.left)
      /\ IF KeepsRight THEN phase' = "rightonly" /\ r' = 1 ELSE phase' = "done" /\ r' = r
      /\ UNCHANGED <<in, rhs_index, right_matched, l, j, out>>
    BY DEF Probed, FirstRow
<1>2. /\ Len(in.left) \in Nat /\ Len(in.right) \in Nat /\ RightRows = 1..Len(in.right)
      /\ LeftRows = 1..Len(in.left) /\ l = Len(in.left) + 1 /\ l \notin LeftRows /\ j = 1
      /\ r \in 1..Len(in.right) + 1
    BY <1>1, InputFacts DEF IInv, TypeOK, OutputProgress
<1>3. r' \in 1..Len(in.right) + 1 /\ phase' \in Phases BY <1>1, <1>2 DEF Phases
<1>4. Indexed' = Indexed BY <1>1 DEF Indexed, RightRows
<1>5. TypeOK' /\ OutputOrdered' /\ MatchedExact' /\ IndexExact'
    BY <1>1, <1>3, <1>4, QuietStep
<1>6. \A a \in LeftRows \cup {0}, b \in RightRows \cup {0} :
          Owed(a, b) => (Passed(a, b)' <=> Passed(a, b))
    <2> TAKE a \in LeftRows \cup {0}, b \in RightRows \cup {0}
    <2>1. CASE a # 0 BY <2>1, <1>1, <1>2 DEF Passed
    <2>2. CASE a = 0
        <3>1. Owed(a, b) => KeepsRight /\ b \in RightRows BY <2>2, <1>2 DEF Owed
        <3>2. ~Passed(a, b) BY <2>2, <1>1, <1>2 DEF Passed
        <3>3. KeepsRight /\ b \in RightRows => ~Passed(a, b)'
            BY <2>2, <1>1, <1>2 DEF Passed
        <3> QED BY <3>1, <3>2, <3>3
    <2> QED BY <2>1, <2>2
<1>7. OutputProgress' BY <1>1, <1>2, <1>6, QuietProgress
<1> QED BY <1>5, <1>7 DEF IInv

LEMMA RightOnlyStep == IInv /\ RightOnly => IInv'
<1> SUFFICES ASSUME IInv, RightOnly PROVE IInv'
    OBVIOUS
<1>1. /\ phase = "rightonly" /\ phase' \in {"rightonly", "error"} /\ r \in RightRows
      /\ UNCHANGED <<in, rhs_index, right_matched, l, j>>
    BY DEF RightOnly
<1>2. /\ Len(in.left) \in Nat /\ Len(in.right) \in Nat /\ RightRows = 1..Len(in.right)
      /\ LeftRows = 1..Len(in.left) /\ l = Len(in.left) + 1 /\ l \notin LeftRows /\ j = 1
    BY <1>1, InputFacts DEF IInv, TypeOK, OutputProgress
<1>3. \A a \in LeftRows \cup {0}, b \in RightRows \cup {0} :
          Passed(a, b) <=> a # 0 \/ b < r
    BY <1>1, <1>2 DEF Passed
<1>4. r \in right_matched <=> \E a \in LeftRows : KeyMatch(a, r)
    <2>1. \A a \in LeftRows : Has(a, r) <=> KeyMatch(a, r)
        <3> TAKE a \in LeftRows
        <3>1. Owed(a, r) <=> KeyMatch(a, r) BY <1>1, <1>2 DEF Owed
        <3>2. Passed(a, r) BY <1>1, <1>2, <1>3
        <3> QED BY <3>1, <3>2, <1>1 DEF IInv, OutputProgress
    <2> QED BY <2>1, <1>1 DEF IInv, MatchedExact
<1>5. Owed(0, r) <=> KeepsRight /\ r \notin right_matched
    BY <1>1, <1>2, <1>4 DEF Owed
<1>6. CASE phase' = "error"
    <2>1. UNCHANGED <<in, rhs_index, right_matched, l, r, j, out>>
        BY <1>1, <1>6 DEF RightOnly
    <2>2. r' \in 1..Len(in.right) + 1 /\ phase' \in Phases
        BY <2>1, <1>1 DEF IInv, TypeOK, Phases
    <2>3. TypeOK' /\ OutputOrdered' /\ MatchedExact'
        BY <2>1, <2>2, QuietStep
    <2>4. IndexExact' BY <1>6 DEF IndexExact
    <2>5. \A a \in LeftRows \cup {0}, b \in RightRows \cup {0} :
              Passed(a, b)' <=> Passed(a, b)
        BY <2>1, <1>6, <1>1, <1>2 DEF Passed
    <2>6. OutputProgress' BY <2>1, <2>5, <1>2, <1>6, QuietProgress
    <2> QED BY <2>3, <2>4, <2>6 DEF IInv
<1>7. CASE phase' = "rightonly"
    <2>1. /\ r' = r + 1 /\ phase' = phase
          /\ IF r \in right_matched THEN out' = out ELSE out' = Append(out, <<0, r>>)
        BY <1>1, <1>2, <1>7 DEF RightOnly, NextRow
    <2>2. KeepsRight BY <1>1 DEF IInv, OutputProgress
    <2>3. out \in Seq(OutRow) BY DEF IInv, TypeOK, OutRow
    <2>4. /\ out' \in Seq(OutRow') /\ OutputOrdered'
          /\ \A a \in LeftRows \cup {0}, b \in RightRows \cup {0} :
                Has(a, b)' <=> Has(a, b) \/ (r \notin right_matched /\ a = 0 /\ b = r)
        <3>1. CASE r \in right_matched
            BY <2>1, <2>3, <3>1, <1>1, HasSame, Fixed DEF IInv, OutRow
        <3>2. CASE r \notin right_matched
            <4>1. out' = Append(out, <<0, r>>) BY <2>1, <3>2
            <4>2. ASSUME NEW a \in LeftRows \cup {0}, NEW b \in RightRows \cup {0}, Has(a, b)
                  PROVE  Before(<<a, b>>, <<0, r>>)
                <5>1. a # 0 \/ b < r BY <4>2, <1>3 DEF IInv, OutputProgress
                <5> QED BY <5>1 DEF Before
            <4>3. OutputOrdered' BY <4>1, <4>2, <2>3, <1>1, OrderedAppend DEF IInv
            <4> QED BY <4>1, <4>3, <2>3, <1>1, <3>2, HasAppend
        <3> QED BY <3>1, <3>2
    <2>5. TypeOK' BY <1>1, <1>2, <2>1, <2>4 DEF IInv, TypeOK, OutRow, LeftRows, RightRows
    <2>6. IndexExact'
        <3>1. Indexed' = Indexed BY <1>1, <2>1, Fixed DEF Indexed
        <3> QED BY <3>1, <1>1, <2>1, Fixed DEF IInv, IndexExact, Increasing
    <2>7. MatchedExact'
        <3>1. \A a \in LeftRows, b \in RightRows : Has(a, b)' <=> Has(a, b)
            BY <2>4, <1>2
        <3> QED BY <3>1, <1>1, Fixed DEF IInv, MatchedExact
    <2>8. \A a \in LeftRows \cup {0}, b \in RightRows \cup {0} :
              Owed(a, b) /\ Passed(a, b)' <=>
                 \/ Owed(a, b) /\ Passed(a, b)
                 \/ r \notin right_matched /\ a = 0 /\ b = r
        <3> TAKE a \in LeftRows \cup {0}, b \in RightRows \cup {0}
        <3>1. Passed(a, b)' <=> a # 0 \/ b < r + 1
            BY <1>1, <1>2, <2>1, Fixed DEF Passed
        <3> QED BY <3>1, <1>3, <1>5, <2>2, <1>1, <1>2
    <2>9. OutputProgress'
        <3>1. \A a \in LeftRows \cup {0}, b \in RightRows \cup {0} :
                  (Has(a, b) <=> Owed(a, b) /\ Passed(a, b))'
            BY <2>4, <2>8, <1>1, Fixed DEF IInv, OutputProgress
        <3> QED BY <3>1, <1>1, <1>2, <2>1, <2>2, Fixed DEF OutputProgress
    <2> QED BY <2>4, <2>5, <2>6, <2>7, <2>9 DEF IInv
<1> QED BY <1>1, <1>6, <1>7

LEMMA ReturnStep == IInv /\ Return => IInv'
<1> SUFFICES ASSUME IInv, Return PROVE IInv'
    OBVIOUS
<1>1. /\ phase = "rightonly" /\ phase' = "done" /\ r > Len(in.right)
      /\ UNCHANGED <<in, rhs_index, right_matched, l, r, j, out>>
    BY DEF Return
<1>2. /\ Len(in.left) \in Nat /\ Len(in.right) \in Nat /\ RightRows = 1..Len(in.right)
      /\ LeftRows = 1..Len(in.left) /\ l = Len(in.left) + 1 /\ j = 1
      /\ r = Len(in.right) + 1
    <2>1. /\ Len(in.left) \in Nat /\ Len(in.right) \in Nat /\ RightRows = 1..Len(in.right)
          /\ LeftRows = 1..Len(in.left)
        BY InputFacts DEF IInv, TypeOK
    <2>2. l = Len(in.left) + 1 /\ j = 1 BY <1>1 DEF IInv, OutputProgress
    <2>3. r \in 1..Len(in.right) + 1 BY DEF IInv, TypeOK
    <2> QED BY <2>1, <2>2, <2>3, <1>1
<1>3. r' \in 1..Len(in.right) + 1 /\ phase' \in Phases BY <1>1, <1>2 DEF Phases
<1>4. Indexed' = Indexed BY <1>1 DEF Indexed, RightRows
<1>5. TypeOK' /\ OutputOrdered' /\ MatchedExact' /\ IndexExact'
    BY <1>1, <1>3, <1>4, QuietStep
<1>6. \A a \in LeftRows \cup {0}, b \in RightRows \cup {0} :
          Passed(a, b)' <=> Passed(a, b)
    BY <1>1, <1>2 DEF Passed
<1>7. OutputProgress' BY <1>1, <1>2, <1>6, QuietProgress
<1> QED BY <1>5, <1>7 DEF IInv

LEMMA StepIInv == IInv /\ [Next]_vars => IInv'
<1>1. IInv /\ UNCHANGED vars => IInv'
    <2> SUFFICES ASSUME IInv, UNCHANGED vars PROVE IInv'
        OBVIOUS
    <2>1. UNCHANGED <<in, phase, rhs_index, right_matched, l, r, j, out>> BY DEF vars
    <2>2. TypeOK' /\ OutputOrdered' /\ MatchedExact' /\ IndexExact'
        <3>1. Indexed' = Indexed BY <2>1 DEF Indexed, RightRows
        <3>2. phase' \in Phases /\ r' \in 1..Len(in.right) + 1 BY <2>1 DEF IInv, TypeOK
        <3>3. phase = "error" => IndexExact' BY <2>1 DEF IndexExact
        <3> QED BY <2>1, <3>1, <3>2, <3>3, QuietStep
    <2>3. \A a, b : Passed(a, b)' <=> Passed(a, b)
        BY <2>1, Fixed DEF Passed
    <2>4. OutputProgress' BY <2>1, <2>3, QuietProgress DEF IInv, OutputProgress
    <2> QED BY <2>2, <2>4 DEF IInv
<1> QED
    BY <1>1, CheckStep, IndexRowStep, IndexBuiltStep, ProbeMissStep, ProbeHitStep,
       ProbedStep, RightOnlyStep, ReturnStep DEF Next

\* The inductive invariant: types, an exact index, output rows that are exactly the
\* owed rows whose turn has passed, in order, and exact match marks.
THEOREM JoinInvariant == Spec => []IInv
<1> QED BY InitIInv, StepIInv, PTL DEF Spec

\* The variables of EagerDataFrame::join keep their types for all tables.
THEOREM JoinTypeCorrect == Spec => []TypeOK
<1>1. IInv => TypeOK BY DEF IInv
<1> QED BY <1>1, JoinInvariant, PTL

\* rhs_index is exact for all tables: no right row is lost or indexed twice.
THEOREM JoinIndexExact == Spec => []IndexExact
<1>1. IInv => IndexExact BY DEF IInv
<1> QED BY <1>1, JoinInvariant, PTL

\* right_matched marks exactly the right rows that were joined to a left row.
THEOREM JoinMatchedExact == Spec => []MatchedExact
<1>1. IInv => MatchedExact BY DEF IInv
<1> QED BY <1>1, JoinInvariant, PTL

\* The output is in left-row, then right-row order, without repetition.
THEOREM JoinOutputOrdered == Spec => []OutputOrdered
<1>1. IInv => OutputOrdered BY DEF IInv
<1> QED BY <1>1, JoinInvariant, PTL

\* At every moment the output is the owed rows whose turn has come, and no other.
THEOREM JoinOutputProgress == Spec => []OutputProgress
<1>1. IInv => OutputProgress BY DEF IInv
<1> QED BY <1>1, JoinInvariant, PTL

\* A join that returns has output exactly the rows it owes, for all tables and modes.
THEOREM JoinOutputExact == Spec => []OutputExact
<1>1. IInv => OutputExact
    <2> SUFFICES ASSUME IInv, phase = "done",
                        NEW a \in LeftRows \cup {0}, NEW b \in RightRows \cup {0}
                 PROVE  Has(a, b) <=> Owed(a, b)
        BY DEF OutputExact
    <2>1. /\ Len(in.left) \in Nat /\ LeftRows = 1..Len(in.left) /\ l = Len(in.left) + 1
        BY InputFacts DEF IInv, TypeOK, OutputProgress
    <2>2. Passed(a, b) BY <2>1 DEF Passed
    <2> QED BY <2>2 DEF IInv, OutputProgress
<1> QED BY <1>1, JoinInvariant, PTL
=============================================================================
