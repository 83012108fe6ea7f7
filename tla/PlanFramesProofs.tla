-------------------------- MODULE PlanFramesProofs --------------------------
(***************************************************************************)
(* Theorems about PlanFrames.                                              *)
(***************************************************************************)
EXTENDS PlanFrames, PlanGraphProofs, WellFoundedInduction

-----------------------------------------------------------------------------
\* Sequences, whatever they hold.

IsSeq(s) == s \in Seq({s[x] : x \in DOMAIN s})

LEMMA SeqFacts ==
    ASSUME NEW s, IsSeq(s)
    PROVE  /\ Len(s) \in Nat /\ DOMAIN s = 1..Len(s)
           /\ s = [x \in 1..Len(s) |-> s[x]]
           /\ s = <<>> <=> Len(s) = 0
<1> DEFINE S == {s[x] : x \in DOMAIN s}
<1>1. s \in Seq(S)
  BY DEF IsSeq
<1> HIDE DEF S
<1>2. Len(s) \in Nat /\ DOMAIN s = 1..Len(s) /\ s \in [1..Len(s) -> S]
  BY <1>1
<1> QED
  BY <1>1, <1>2

LEMMA MadeSeq ==
    ASSUME NEW n \in Nat, NEW s, s = [x \in 1..n |-> s[x]]
    PROVE  IsSeq(s) /\ Len(s) = n
<1> DEFINE S == {s[x] : x \in DOMAIN s}
<1>1. DOMAIN s = 1..n
  OBVIOUS
<1>2. \A x \in 1..n : s[x] \in S
  BY <1>1
<1> HIDE DEF S
<1>3. s \in [1..n -> S]
  BY <1>1, <1>2
<1>4. s \in Seq(S) /\ Len(s) = n
  BY <1>3
<1> QED
  BY <1>4 DEF IsSeq, S

LEMMA SameSeq ==
    ASSUME NEW s, NEW t, IsSeq(s), IsSeq(t), Len(s) = Len(t), \A x \in 1..Len(s) : s[x] = t[x]
    PROVE  s = t
<1>1. s = [x \in 1..Len(s) |-> s[x]] /\ t = [x \in 1..Len(t) |-> t[x]]
  BY SeqFacts
<1> QED
  BY <1>1

LEMMA Appended ==
    ASSUME NEW s, IsSeq(s), NEW e
    PROVE  /\ IsSeq(Append(s, e)) /\ Len(Append(s, e)) = Len(s) + 1
           /\ \A x \in 1..Len(s) : Append(s, e)[x] = s[x]
           /\ Append(s, e)[Len(s) + 1] = e
<1> DEFINE S == {s[x] : x \in DOMAIN s} \cup {e}
           t == Append(s, e)
<1>1. s \in Seq(S) /\ e \in S
  <2>1. \A x \in 1..Len(s) : s[x] \in S
    BY SeqFacts
  <2> HIDE DEF S
  <2>2. s \in [1..Len(s) -> S] /\ Len(s) \in Nat
    BY <2>1, SeqFacts
  <2>3. s \in Seq(S)
    BY <2>2
  <2> QED
    BY <2>3 DEF S
<1> HIDE DEF S
<1>2. /\ t \in Seq(S) /\ Len(s) \in Nat /\ Len(t) = Len(s) + 1
      /\ \A x \in 1..Len(s) : t[x] = s[x]
      /\ t[Len(s) + 1] = e
  BY <1>1, AppendFacts
<1>3. t = [x \in 1..Len(s) + 1 |-> t[x]]
  <2> HIDE DEF t
  <2> QED BY <1>2
<1>4. IsSeq(t)
  <2> HIDE DEF t
  <2> QED BY <1>2, <1>3, MadeSeq
<1> QED
  BY <1>2, <1>4

LEMMA Fronted ==
    ASSUME NEW s, IsSeq(s), NEW n \in 0..Len(s)
    PROVE  /\ IsSeq(SubSeq(s, 1, n)) /\ Len(SubSeq(s, 1, n)) = n
           /\ \A x \in 1..n : SubSeq(s, 1, n)[x] = s[x]
<1> DEFINE t == SubSeq(s, 1, n)
           S == {s[x] : x \in DOMAIN s}
<1>1. s \in Seq(S) /\ Len(s) \in Nat
  BY SeqFacts DEF IsSeq
<1> HIDE DEF S
<1>2. t = [x \in 1..n |-> s[x]]
  BY <1>1
<1> HIDE DEF t
<1>3. \A x \in 1..n : t[x] = s[x]
  BY <1>2
<1>4. t = [x \in 1..n |-> t[x]]
  BY <1>2, <1>3
<1>5. IsSeq(t) /\ Len(t) = n
  BY <1>1, <1>4, MadeSeq
<1> QED
  BY <1>3, <1>5 DEF t

\* f with x at e.
Put(f, e, x) == [f EXCEPT ![e] = x]

LEMMA Replaced ==
    ASSUME NEW s, IsSeq(s), NEW n \in 1..Len(s), NEW e
    PROVE  /\ IsSeq(Put(s, n, e)) /\ Len(Put(s, n, e)) = Len(s) /\ Put(s, n, e)[n] = e
           /\ \A x \in 1..Len(s) : x # n => Put(s, n, e)[x] = s[x]
<1> DEFINE t == Put(s, n, e)
<1>1. Len(s) \in Nat /\ s = [x \in 1..Len(s) |-> s[x]]
  BY SeqFacts
<1>2. t[n] = e /\ (\A x \in 1..Len(s) : x # n => t[x] = s[x]) /\ t = [x \in 1..Len(s) |-> t[x]]
  BY <1>1 DEF Put
<1> HIDE DEF t
<1>3. IsSeq(t) /\ Len(t) = Len(s)
  BY <1>1, <1>2, MadeSeq
<1> QED
  BY <1>2, <1>3 DEF t

\* A set of numbers that is not empty has a least one.
LEMMA LeastNumber ==
    ASSUME NEW T, T \subseteq Nat, T # {}
    PROVE  \E m \in T : \A n \in T : m <= n
<1> DEFINE R == {ss \in Nat \X Nat : ss[1] < ss[2]}
<1>1. OpToRel(<, Nat) = R
  BY Zenon DEF OpToRel
<1>2. IsWellFoundedOn(R, Nat)
  BY <1>1, NatLessThanWellFounded, Zenon
<1>3. \E x \in T : \A y \in T : ~ (<<y, x>> \in R)
  <2> HIDE DEF R
  <2> QED BY <1>2, WFMin, Zenon
<1>4. \A x, y \in Nat : y < x => <<y, x>> \in R
  OBVIOUS
<1> HIDE DEF R
<1>5. \A x, y \in Nat : x <= y \/ y < x
  OBVIOUS
<1> QED
  BY <1>3, <1>4, <1>5

\* A set of numbers below a bound has a greatest one.
LEMMA GreatestNumber ==
    ASSUME NEW n \in Nat, NEW T, T \subseteq 0..n, T # {}
    PROVE  Max(T) \in T /\ \A x \in T : x <= Max(T)
<1> DEFINE B == {b \in Nat : \A x \in T : x <= b}
<1>1. n \in B
  OBVIOUS
<1>2. PICK m \in B : \A b \in B : m <= b
  <2> HIDE DEF B
  <2>1. B \subseteq Nat
    BY DEF B
  <2> QED
    BY <1>1, <2>1, LeastNumber
<1>3. m \in Nat /\ \A x \in T : x <= m
  OBVIOUS
<1>4. m \in T
  <2> SUFFICES ASSUME m \notin T PROVE FALSE
    OBVIOUS
  <2>1. \A x \in T : x \in Nat /\ x < m
    BY <1>3
  <2>2. PICK x0 \in T : TRUE
    OBVIOUS
  <2>3. m - 1 \in Nat
    <3> HIDE DEF B
    <3> QED BY <1>3, <2>1, <2>2
  <2>4. \A x \in T : x <= m - 1
    <3> HIDE DEF B
    <3> QED BY <1>3, <2>1
  <2>5. m - 1 \in B
    BY <2>3, <2>4
  <2>6. m <= m - 1
    BY <1>2, <2>5
  <2> QED
    <3> HIDE DEF B
    <3> QED BY <1>3, <2>6
<1> HIDE DEF B
<1>5. \E y \in T : \A x \in T : y >= x
  BY <1>3, <1>4
<1>6. Max(T) \in T /\ \A x \in T : Max(T) >= x
  BY <1>5 DEF Max
<1>7. \A x, y \in Nat : y >= x => x <= y
  OBVIOUS
<1>8. T \subseteq Nat
  OBVIOUS
<1> QED
  BY <1>6, <1>7, <1>8

-----------------------------------------------------------------------------
\* Nodes: what one says without its children, and its children.

Links   == {"child", "right"}
Data(n) == [f \in Fields[n.op] \ Links |-> n[f]]

\* As many children as the type of the node says.
Fits(n, kids) == IsSeq(kids) /\ Len(kids) = Len(Children(n))

LEMMA OneField ==
    ASSUME NEW n, IsNode(n), NEW f \in Fields[n.op] \ {"op"}, NEW x
    PROVE  /\ IsNode(Put(n, f, x)) /\ Put(n, f, x).op = n.op
           /\ Put(n, f, x)[f] = x
           /\ \A g \in Fields[n.op] : g # f => Put(n, f, x)[g] = n[g]
  BY DEF IsNode, Fields, Put

LEMMA PairFacts ==
    ASSUME NEW x, NEW y
    PROVE  /\ IsSeq(<<x, y>>) /\ Len(<<x, y>>) = 2 /\ <<x, y>>[1] = x /\ <<x, y>>[2] = y
           /\ IsSeq(<<x>>) /\ Len(<<x>>) = 1 /\ <<x>>[1] = x
           /\ IsSeq(<<>>) /\ Len(<<>>) = 0
<1>1. IsSeq(<<x, y>>)
  <2>1. <<x, y>> = [i \in 1..2 |-> <<x, y>>[i]]
    OBVIOUS
  <2> QED BY <2>1, MadeSeq
<1>2. IsSeq(<<x>>)
  <2>1. <<x>> = [i \in 1..1 |-> <<x>>[i]]
    OBVIOUS
  <2> QED BY <2>1, MadeSeq
<1>3. IsSeq(<<>>)
  BY DEF IsSeq
<1> QED
  BY <1>1, <1>2, <1>3

LEMMA ChildrenFacts ==
    ASSUME NEW n, IsNode(n)
    PROVE  /\ IsSeq(Children(n)) /\ Len(Children(n)) \in 0..2
           /\ n.op = "scan" => Len(Children(n)) = 0
           /\ n.op = "join" => /\ Len(Children(n)) = 2
                               /\ Children(n)[1] = n.child /\ Children(n)[2] = n.right
           /\ n.op \notin {"scan", "join"} => Len(Children(n)) = 1 /\ Children(n)[1] = n.child
<1>0. 0 \in 0..2 /\ 1 \in 0..2 /\ 2 \in 0..2
  OBVIOUS
<1>1. ASSUME n.op = "scan" PROVE IsSeq(Children(n)) /\ Len(Children(n)) = 0
  <2>1. Children(n) = <<>>
    BY <1>1 DEF Children
  <2> QED
    BY <2>1, PairFacts
<1>2. ASSUME n.op = "join"
      PROVE  /\ IsSeq(Children(n)) /\ Len(Children(n)) = 2
             /\ Children(n)[1] = n.child /\ Children(n)[2] = n.right
  <2>1. Children(n) = <<n.child, n.right>>
    BY <1>2 DEF Children
  <2> HIDE DEF Children
  <2> DEFINE c == n.child
             r == n.right
  <2>2. Children(n) = <<c, r>>
    BY <2>1
  <2> HIDE DEF c, r
  <2>3. IsSeq(<<c, r>>) /\ Len(<<c, r>>) = 2 /\ <<c, r>>[1] = c /\ <<c, r>>[2] = r
    BY PairFacts
  <2> QED
    BY <2>2, <2>3 DEF c, r
<1>3. ASSUME n.op \notin {"scan", "join"}
      PROVE  IsSeq(Children(n)) /\ Len(Children(n)) = 1 /\ Children(n)[1] = n.child
  <2>1. Children(n) = <<n.child>>
    BY <1>3 DEF Children
  <2> DEFINE c == n.child
  <2>2. Children(n) = <<c>>
    BY <2>1
  <2> HIDE DEF c
  <2>3. IsSeq(Children(n)) /\ Len(Children(n)) = 1 /\ Children(n)[1] = c
    BY <2>2, PairFacts
  <2> QED
    BY <2>3 DEF c
<1> QED
  BY <1>0, <1>1, <1>2, <1>3

LEMMA FieldsFacts ==
    ASSUME NEW n, IsNode(n)
    PROVE  /\ n.op = "scan" => Links \cap Fields[n.op] = {}
           /\ n.op = "join" => Links \cap Fields[n.op] = Links
           /\ n.op \notin {"scan", "join"} => Links \cap Fields[n.op] = {"child"}
           /\ "op" \in Fields[n.op] \ Links
  BY DEF IsNode, Fields, Links

\* Nodes that say the same and have the same children are the same.
LEMMA SameNode ==
    ASSUME NEW n, NEW m, IsNode(n), IsNode(m), Data(n) = Data(m), Children(n) = Children(m)
    PROVE  n = m
<1>1. n.op = m.op
  <2>1. Data(n)["op"] = n.op /\ Data(m)["op"] = m.op
    BY FieldsFacts DEF Data
  <2> QED BY <2>1
<1>2. \A f \in Fields[n.op] \ Links : n[f] = m[f]
  <2>1. \A f \in Fields[n.op] \ Links : Data(n)[f] = n[f] /\ Data(m)[f] = m[f]
    BY <1>1 DEF Data
  <2> QED BY <2>1
<1>3. \A f \in Links \cap Fields[n.op] : n[f] = m[f]
  BY <1>1, ChildrenFacts, FieldsFacts DEF Links
<1>4. \A f \in Fields[n.op] : n[f] = m[f]
  BY <1>2, <1>3
<1> QED
  BY <1>1, <1>4 DEF IsNode

\* A node says what its fields say.
LEMMA SameData ==
    ASSUME NEW n, NEW m, n.op = m.op, \A f \in Fields[n.op] \ Links : n[f] = m[f]
    PROVE  Data(n) = Data(m)
  BY DEF Data

LEMMA DataTells ==
    ASSUME NEW n, NEW m, IsNode(n), IsNode(m), Data(n) = Data(m)
    PROVE  /\ n.op = m.op /\ \A f \in Fields[n.op] \ Links : n[f] = m[f]
           /\ Len(Children(n)) = Len(Children(m))
<1>1. n.op = m.op
  <2>1. Data(n)["op"] = n.op /\ Data(m)["op"] = m.op
    BY FieldsFacts DEF Data
  <2> QED BY <2>1
<1>2. \A f \in Fields[n.op] \ Links : n[f] = m[f]
  <2>1. \A f \in Fields[n.op] \ Links : Data(n)[f] = n[f] /\ Data(m)[f] = m[f]
    BY <1>1 DEF Data
  <2> QED BY <2>1
<1> QED
  BY <1>1, <1>2, ChildrenFacts

\* mapChildren changes the children and nothing else.
LEMMA MapChildrenFacts ==
    ASSUME NEW n, IsNode(n), NEW kids, Fits(n, kids)
    PROVE  LET m == mapChildren(n, kids) IN
           IsNode(m) /\ Data(m) = Data(n) /\ m.op = n.op /\ Children(m) = kids
<1> DEFINE m == mapChildren(n, kids)
<1>1. CASE n.op = "scan"
  <2>1. m = n /\ Children(n) = <<>>
    BY <1>1 DEF mapChildren, Children
  <2>2. kids = <<>>
    BY <1>1, SeqFacts, ChildrenFacts DEF Fits
  <2> QED BY <2>1, <2>2
<1>2. CASE n.op = "join"
  <2> DEFINE l == Put(n, "child", kids[1])
             r == Put(l, "right", kids[2])
  <2>1. "child" \in Fields[n.op] \ {"op"} /\ "right" \in Fields[n.op] \ {"op"}
    BY <1>2 DEF Fields
  <2>2. /\ IsNode(l) /\ l.op = n.op /\ l["child"] = kids[1]
        /\ \A g \in Fields[n.op] : g # "child" => l[g] = n[g]
    BY <2>1, OneField
  <2>3. /\ IsNode(r) /\ r.op = n.op /\ r["right"] = kids[2]
        /\ \A g \in Fields[n.op] : g # "right" => r[g] = l[g]
    <3> HIDE DEF l
    <3> QED BY <2>1, <2>2, OneField
  <2>4. m = r
    BY <1>2 DEF mapChildren, Put
  <2> HIDE DEF m, l, r
  <2>5. Data(m) = Data(n)
    BY <2>2, <2>3, <2>4, SameData DEF Links
  <2>6. IsSeq(kids) /\ Len(kids) = 2
    BY <1>2, ChildrenFacts DEF Fits
  <2>7. Children(m) = kids
    <3>1. IsSeq(Children(m)) /\ Len(Children(m)) = 2
      BY <1>2, <2>3, <2>4, ChildrenFacts
    <3>2. Children(m)[1] = kids[1] /\ Children(m)[2] = kids[2]
      <4>1. m.child = kids[1] /\ m.right = kids[2]
        BY <2>1, <2>2, <2>3, <2>4
      <4> QED BY <1>2, <2>3, <2>4, <4>1, ChildrenFacts
    <3>3. \A x \in 1..2 : x = 1 \/ x = 2
      OBVIOUS
    <3> QED BY <2>6, <3>1, <3>2, <3>3, SameSeq
  <2> QED BY <2>3, <2>4, <2>5, <2>7 DEF m
<1>3. CASE n.op \notin {"scan", "join"}
  <2> DEFINE l == Put(n, "child", kids[1])
  <2>1. "child" \in Fields[n.op] \ {"op"}
    BY <1>3 DEF IsNode, Fields
  <2>2. /\ IsNode(l) /\ l.op = n.op /\ l["child"] = kids[1]
        /\ \A g \in Fields[n.op] : g # "child" => l[g] = n[g]
    BY <2>1, OneField
  <2>3. m = l
    BY <1>3 DEF mapChildren, Put
  <2> HIDE DEF m, l
  <2>4. Data(m) = Data(n)
    BY <2>2, <2>3, SameData DEF Links
  <2>5. IsSeq(kids) /\ Len(kids) = 1
    BY <1>3, ChildrenFacts DEF Fits
  <2>6. Children(m) = kids
    <3>1. IsSeq(Children(m)) /\ Len(Children(m)) = 1 /\ Children(m)[1] = m.child
      BY <1>3, <2>2, <2>3, ChildrenFacts
    <3>2. m.child = kids[1]
      BY <2>2, <2>3
    <3>3. \A x \in 1..1 : x = 1
      OBVIOUS
    <3> QED BY <2>5, <3>1, <3>2, <3>3, SameSeq
  <2> QED BY <2>2, <2>3, <2>4, <2>6 DEF m
<1> QED
  BY <1>1, <1>2, <1>3

\* A node with its own children is itself.
LEMMA OwnChildren ==
    ASSUME NEW n, IsNode(n)
    PROVE  Fits(n, Children(n)) /\ mapChildren(n, Children(n)) = n
<1>1. Fits(n, Children(n))
  BY ChildrenFacts DEF Fits
<1> QED
  BY <1>1, MapChildrenFacts, SameNode

\* The children last put in are those it has.
LEMMA MapTwice ==
    ASSUME NEW n, IsNode(n), NEW s, Fits(n, s), NEW t, Fits(n, t)
    PROVE  mapChildren(mapChildren(n, s), t) = mapChildren(n, t)
<1> DEFINE m == mapChildren(n, s)
<1>1. IsNode(m) /\ Data(m) = Data(n) /\ Children(m) = s
  BY MapChildrenFacts
<1> HIDE DEF m
<1>2. Fits(m, t)
  BY <1>1, DataTells DEF Fits
<1>3. IsNode(mapChildren(m, t)) /\ Data(mapChildren(m, t)) = Data(m) /\ Children(mapChildren(m, t)) = t
  BY <1>1, <1>2, MapChildrenFacts
<1>4. IsNode(mapChildren(n, t)) /\ Data(mapChildren(n, t)) = Data(n) /\ Children(mapChildren(n, t)) = t
  BY MapChildrenFacts
<1> QED
  BY <1>1, <1>3, <1>4, SameNode DEF m

\* A field that is no child may change: the children stay.
LEMMA OneDatum ==
    ASSUME NEW n, IsNode(n), NEW f \in Fields[n.op] \ (Links \cup {"op"}), NEW x
    PROVE  /\ IsNode(Put(n, f, x)) /\ Put(n, f, x).op = n.op
           /\ Put(n, f, x)[f] = x
           /\ Children(Put(n, f, x)) = Children(n)
           /\ \A g \in Fields[n.op] : g # f => Put(n, f, x)[g] = n[g]
<1> DEFINE m == Put(n, f, x)
<1>1. /\ IsNode(m) /\ m.op = n.op /\ m[f] = x
      /\ \A g \in Fields[n.op] : g # f => m[g] = n[g]
  BY OneField
<1> HIDE DEF m
<1>2. f \notin Links
  OBVIOUS
<1>3. Children(m) = Children(n)
  <2>1. CASE n.op = "scan"
    BY <1>1, <2>1 DEF Children
  <2>2. CASE n.op = "join"
    <3>1. m.child = n.child /\ m.right = n.right
      BY <1>1, <1>2, <2>2, FieldsFacts DEF Links
    <3> QED BY <1>1, <2>2, <3>1 DEF Children
  <2>3. CASE n.op \notin {"scan", "join"}
    <3>1. m.child = n.child
      BY <1>1, <1>2, <2>3, FieldsFacts DEF Links
    <3> QED BY <1>1, <2>3, <3>1 DEF Children
  <2> QED BY <2>1, <2>2, <2>3
<1> QED
  BY <1>1, <1>3 DEF m

LEMMA SameDatum ==
    ASSUME NEW n, NEW m, IsNode(n), IsNode(m), Data(n) = Data(m),
           NEW f \in Fields[n.op] \ (Links \cup {"op"}), NEW x
    PROVE  Data(Put(n, f, x)) = Data(Put(m, f, x))
<1> DEFINE N == Put(n, f, x)
           M == Put(m, f, x)
<1>1. n.op = m.op /\ \A g \in Fields[n.op] \ Links : n[g] = m[g]
  BY DataTells
<1>2. N.op = n.op /\ N[f] = x /\ \A g \in Fields[n.op] : g # f => N[g] = n[g]
  BY OneDatum
<1>3. M.op = m.op /\ M[f] = x /\ \A g \in Fields[m.op] : g # f => M[g] = m[g]
  BY <1>1, OneDatum
<1> HIDE DEF N, M
<1>4. Data(N) = Data(M)
  BY <1>1, <1>2, <1>3, SameData
<1> QED
  BY <1>4 DEF N, M

\* Putting one child of a node in place of another.
LEMMA OneChild ==
    ASSUME NEW n, IsNode(n), n.op # "scan", NEW x
    PROVE  /\ IsNode([n EXCEPT !.child = x]) /\ Data([n EXCEPT !.child = x]) = Data(n)
           /\ [n EXCEPT !.child = x].op = n.op
           /\ Children([n EXCEPT !.child = x]) = [Children(n) EXCEPT ![1] = x]
<1> DEFINE m == Put(n, "child", x)
<1>0. "child" \in Fields[n.op] \ {"op"}
  BY FieldsFacts DEF Links
<1>1. /\ IsNode(m) /\ m.op = n.op /\ m["child"] = x
      /\ \A g \in Fields[n.op] : g # "child" => m[g] = n[g]
  BY <1>0, OneField
<1>2. [n EXCEPT !.child = x] = m
  BY DEF Put
<1> HIDE DEF m
<1>3. Data(m) = Data(n)
  BY <1>1, SameData DEF Links
<1>4. CASE n.op = "join"
  <2>1. m.child = x /\ m.right = n.right
    BY <1>1, <1>4, FieldsFacts DEF Links
  <2>2. Children(m) = <<x, n.right>> /\ Children(n) = <<n.child, n.right>>
    BY <1>1, <1>4, <2>1 DEF Children
  <2>3. <<x, n.right>> = [<<n.child, n.right>> EXCEPT ![1] = x]
    OBVIOUS
  <2> QED BY <1>1, <1>2, <1>3, <2>2, <2>3
<1>5. CASE n.op # "join"
  <2>1. Children(m) = <<x>> /\ Children(n) = <<n.child>>
    BY <1>1, <1>5 DEF Children
  <2>2. <<x>> = [<<n.child>> EXCEPT ![1] = x]
    OBVIOUS
  <2> QED BY <1>1, <1>2, <1>3, <2>1, <2>2
<1> QED
  BY <1>4, <1>5

LEMMA OtherChild ==
    ASSUME NEW n, IsNode(n), n.op = "join", NEW x
    PROVE  /\ IsNode([n EXCEPT !.right = x]) /\ Data([n EXCEPT !.right = x]) = Data(n)
           /\ [n EXCEPT !.right = x].op = n.op
           /\ Children([n EXCEPT !.right = x]) = [Children(n) EXCEPT ![2] = x]
<1> DEFINE m == Put(n, "right", x)
<1>0. "right" \in Fields[n.op] \ {"op"}
  BY FieldsFacts DEF Links
<1>1. /\ IsNode(m) /\ m.op = n.op /\ m["right"] = x
      /\ \A g \in Fields[n.op] : g # "right" => m[g] = n[g]
  BY <1>0, OneField
<1>2. [n EXCEPT !.right = x] = m
  BY DEF Put
<1> HIDE DEF m
<1>3. Data(m) = Data(n)
  BY <1>1, SameData DEF Links
<1>4. m.right = x /\ m.child = n.child
  BY <1>1, FieldsFacts DEF Links
<1>5. Children(m) = <<n.child, x>> /\ Children(n) = <<n.child, n.right>>
  BY <1>1, <1>4 DEF Children
<1>6. <<n.child, x>> = [<<n.child, n.right>> EXCEPT ![2] = x]
  OBVIOUS
<1> QED
  BY <1>1, <1>2, <1>3, <1>5, <1>6

LEMMA Made ==
    ASSUME NEW c, NEW x
    PROVE  /\ IsNode(Scan(x)) /\ Scan(x).op = "scan" /\ Children(Scan(x)) = <<>>
           /\ IsNode(Filter(c, x)) /\ Filter(c, x).op = "filter"
           /\ Filter(c, x).predicate = x /\ Children(Filter(c, x)) = <<c>>
           /\ IsNode(Limit(c, x)) /\ Limit(c, x).op = "limit"
           /\ Limit(c, x).n = x /\ Children(Limit(c, x)) = <<c>>
<1>1. IsNode(Scan(x)) /\ Scan(x).op = "scan"
  BY DEF IsNode, Fields, Scan
<1>2. /\ IsNode(Filter(c, x)) /\ Filter(c, x).op = "filter"
      /\ Filter(c, x).predicate = x /\ Filter(c, x).child = c
  BY DEF IsNode, Fields, Filter
<1>3. /\ IsNode(Limit(c, x)) /\ Limit(c, x).op = "limit"
      /\ Limit(c, x).n = x /\ Limit(c, x).child = c
  BY DEF IsNode, Fields, Limit
<1>4. Children(Scan(x)) = <<>>
  BY <1>1 DEF Children
<1>5. Children(Filter(c, x)) = <<c>>
  BY <1>2 DEF Children
<1>6. Children(Limit(c, x)) = <<c>>
  BY <1>3 DEF Children
<1> QED
  BY <1>1, <1>2, <1>3, <1>4, <1>5, <1>6

\* A filter says its predicate, a limit its number.
LEMMA SaysOf ==
    ASSUME NEW c, NEW d, NEW x
    PROVE  Data(Filter(c, x)) = Data(Filter(d, x)) /\ Data(Limit(c, x)) = Data(Limit(d, x))
<1>1. Data(Filter(c, x)) = Data(Filter(d, x))
  <2>1. Filter(c, x).op = "filter" /\ Filter(d, x).op = "filter"
        /\ Filter(c, x).predicate = x /\ Filter(d, x).predicate = x
    BY Made
  <2>2. Fields["filter"] \ Links = {"op", "predicate"}
    BY DEF Fields, Links
  <2> QED BY <2>1, <2>2, SameData
<1>2. Data(Limit(c, x)) = Data(Limit(d, x))
  <2>1. Limit(c, x).op = "limit" /\ Limit(d, x).op = "limit"
        /\ Limit(c, x).n = x /\ Limit(d, x).n = x
    BY Made
  <2>2. Fields["limit"] \ Links = {"op", "n"}
    BY DEF Fields, Links
  <2> QED BY <2>1, <2>2, SameData
<1> QED
  BY <1>1, <1>2

\* The expressions of a node, and the node with others in their place.
LEMMA SameExprs ==
    ASSUME NEW n, NEW m, IsNode(n), IsNode(m), Data(n) = Data(m)
    PROVE  Exprs(n) = Exprs(m)
<1>1. n.op = m.op /\ \A f \in Fields[n.op] \ Links : n[f] = m[f]
  BY DataTells
<1>2. CASE n.op = "filter"
  <2>1. n.predicate = m.predicate
    BY <1>1, <1>2 DEF Fields, Links
  <2> QED BY <1>1, <1>2, <2>1 DEF Exprs
<1>3. CASE n.op = "select"
  <2>1. n.exprs = m.exprs
    BY <1>1, <1>3 DEF Fields, Links
  <2> QED BY <1>1, <1>3, <2>1 DEF Exprs
<1>4. CASE n.op = "withcol"
  <2>1. n.expr = m.expr
    BY <1>1, <1>4 DEF Fields, Links
  <2> QED BY <1>1, <1>4, <2>1 DEF Exprs
<1>5. CASE n.op = "agg"
  <2>1. n.aggs = m.aggs
    BY <1>1, <1>5 DEF Fields, Links
  <2> QED BY <1>1, <1>5, <2>1 DEF Exprs
<1>6. CASE n.op \notin {"filter", "select", "withcol", "agg"}
  BY <1>1, <1>6 DEF Exprs
<1> QED
  BY <1>2, <1>3, <1>4, <1>5, <1>6

\* The field that holds the expressions, and what it is when they are new.
Holder == [filter |-> "predicate", select |-> "exprs", withcol |-> "expr", agg |-> "aggs"]

Value(op, new) == IF op \in {"filter", "withcol"} THEN new[1] ELSE new

\* new has an expression for each of the node's.
Replaces(new, n) == new = [i \in DOMAIN Exprs(n) |-> new[i]]

LEMMA HolderFacts ==
    ASSUME NEW n, IsNode(n), n.op \in DOMAIN Holder, NEW new
    PROVE  /\ Holder[n.op] \in Fields[n.op] \ (Links \cup {"op"})
           /\ rewriteNodeExprs(n, new) = Put(n, Holder[n.op], Value(n.op, new))
           /\ Exprs(n) = IF n.op \in {"filter", "withcol"} THEN <<n[Holder[n.op]]>>
                         ELSE n[Holder[n.op]]
<1>1. CASE n.op = "filter"
  <2>1. Holder[n.op] = "predicate"
    BY <1>1 DEF Holder
  <2> QED BY <1>1, <2>1 DEF Fields, Links, rewriteNodeExprs, Value, Exprs, Put
<1>2. CASE n.op = "select"
  <2>1. Holder[n.op] = "exprs"
    BY <1>2 DEF Holder
  <2> QED BY <1>2, <2>1 DEF Fields, Links, rewriteNodeExprs, Value, Exprs, Put
<1>3. CASE n.op = "withcol"
  <2>1. Holder[n.op] = "expr"
    BY <1>3 DEF Holder
  <2> QED BY <1>3, <2>1 DEF Fields, Links, rewriteNodeExprs, Value, Exprs, Put
<1>4. CASE n.op = "agg"
  <2>1. Holder[n.op] = "aggs"
    BY <1>4 DEF Holder
  <2> QED BY <1>4, <2>1 DEF Fields, Links, rewriteNodeExprs, Value, Exprs, Put
<1> QED
  BY <1>1, <1>2, <1>3, <1>4 DEF Holder

LEMMA NoHolder ==
    ASSUME NEW n, IsNode(n), n.op \notin DOMAIN Holder, NEW new
    PROVE  rewriteNodeExprs(n, new) = n /\ Exprs(n) = <<>>
  BY DEF rewriteNodeExprs, Exprs, Holder

LEMMA RewriteFacts ==
    ASSUME NEW n, IsNode(n), NEW new, Replaces(new, n)
    PROVE  /\ IsNode(rewriteNodeExprs(n, new)) /\ rewriteNodeExprs(n, new).op = n.op
           /\ Children(rewriteNodeExprs(n, new)) = Children(n)
           /\ Exprs(rewriteNodeExprs(n, new)) = new
<1> DEFINE r == rewriteNodeExprs(n, new)
<1>1. CASE n.op \in DOMAIN Holder
  <2> DEFINE f == Holder[n.op]
             v == Value(n.op, new)
             s == Put(n, f, v)
  <2>1. /\ f \in Fields[n.op] \ (Links \cup {"op"}) /\ r = s
        /\ Exprs(n) = IF n.op \in {"filter", "withcol"} THEN <<n[f]>> ELSE n[f]
    BY <1>1, HolderFacts
  <2> HIDE DEF f, v, r
  <2>2. IsNode(s) /\ s.op = n.op /\ s[f] = v /\ Children(s) = Children(n)
    BY <2>1, OneDatum
  <2> HIDE DEF s
  <2>3. Exprs(r) = IF r.op \in {"filter", "withcol"} THEN <<r[f]>> ELSE r[f]
    BY <1>1, <2>1, <2>2, HolderFacts DEF f
  <2>4. CASE n.op \in {"filter", "withcol"}
    <3>1. DOMAIN Exprs(n) = 1..1
      BY <2>1, <2>4
    <3>2. new = [i \in 1..1 |-> new[i]]
      BY <3>1 DEF Replaces
    <3>3. new = <<new[1]>>
      BY <3>2
    <3> QED BY <2>1, <2>2, <2>3, <2>4, <3>3 DEF r, v, Value
  <2>5. CASE n.op \notin {"filter", "withcol"}
    BY <2>1, <2>2, <2>3, <2>5 DEF r, v, Value
  <2> QED BY <2>4, <2>5
<1>2. CASE n.op \notin DOMAIN Holder
  <2>1. r = n /\ Exprs(n) = <<>>
    BY <1>2, NoHolder
  <2>2. new = <<>>
    BY <2>1 DEF Replaces
  <2> QED BY <2>1, <2>2
<1> QED
  BY <1>1, <1>2

\* What a node says with new expressions depends on what it said, not on its children.
LEMMA RewriteSays ==
    ASSUME NEW n, IsNode(n), NEW m, IsNode(m), Data(m) = Data(n), NEW new
    PROVE  Data(rewriteNodeExprs(m, new)) = Data(rewriteNodeExprs(n, new))
<1>1. m.op = n.op
  BY DataTells
<1>2. CASE n.op \in DOMAIN Holder
  <2> DEFINE f == Holder[n.op]
             v == Value(n.op, new)
  <2>1. /\ f \in Fields[n.op] \ (Links \cup {"op"})
        /\ rewriteNodeExprs(n, new) = Put(n, f, v)
        /\ rewriteNodeExprs(m, new) = Put(m, f, v)
    BY <1>1, <1>2, HolderFacts
  <2> HIDE DEF f, v
  <2> QED BY <1>1, <2>1, SameDatum
<1>3. CASE n.op \notin DOMAIN Holder
  BY <1>1, <1>3, NoHolder
<1> QED
  BY <1>2, <1>3

\* The expressions a node has, put in, leave it as it is; so nothing else does.
LEMMA OwnExprs ==
    ASSUME NEW n, IsNode(n)
    PROVE  rewriteNodeExprs(n, Exprs(n)) = n
<1>1. CASE n.op \in DOMAIN Holder
  <2> DEFINE f == Holder[n.op]
             v == Value(n.op, Exprs(n))
             s == Put(n, f, v)
  <2>1. /\ f \in Fields[n.op] \ (Links \cup {"op"}) /\ rewriteNodeExprs(n, Exprs(n)) = s
        /\ Exprs(n) = IF n.op \in {"filter", "withcol"} THEN <<n[f]>> ELSE n[f]
    BY <1>1, HolderFacts
  <2>2. v = n[f]
    <3> HIDE DEF f
    <3> QED BY <2>1 DEF Value
  <2> HIDE DEF f, v
  <2>3. /\ IsNode(s) /\ s.op = n.op /\ s[f] = v /\ Children(s) = Children(n)
        /\ \A g \in Fields[n.op] : g # f => s[g] = n[g]
    BY <2>1, OneDatum
  <2> HIDE DEF s
  <2>4. Data(s) = Data(n)
    BY <2>2, <2>3, SameData
  <2> QED BY <2>1, <2>3, <2>4, SameNode
<1>2. CASE n.op \notin DOMAIN Holder
  BY <1>2, NoHolder
<1> QED
  BY <1>1, <1>2

-----------------------------------------------------------------------------
\* Heaps: nodes at addresses, each above its children, and the trees at the addresses.

WellFormed(h) ==
    /\ IsSeq(h)
    /\ \A a \in 1..Len(h) : /\ IsNode(h[a])
                            /\ \A k \in 1..Len(Children(h[a])) : Children(h[a])[k] \in 1..a - 1

\* g has the nodes of h at their addresses, and perhaps more.
Extends(h, g) == Len(h) <= Len(g) /\ \A a \in 1..Len(h) : g[a] = h[a]

Unfolded(h, s) == [k \in DOMAIN s |-> Unfold(h, s[k])]

LEMMA UnfoldRule ==
    ASSUME NEW h, WellFormed(h)
    PROVE  /\ Unfold(h, 0) = Nothing
           /\ \A a \in 1..Len(h) : Unfold(h, a) = mapChildren(h[a], Unfolded(h, Children(h[a])))
<1> DEFINE body(f, x) == IF x = 0 THEN Nothing
                         ELSE mapChildren(h[x], [k \in DOMAIN Children(h[x]) |-> f[Children(h[x])[k]]])
           IsTree(f, n) == f = [x \in 0..n |-> body(f, x)]
           N == Len(h)
<1>1. N \in Nat
  BY SeqFacts DEF WellFormed
<1>2. ASSUME NEW n \in 0..N, NEW f, NEW g, \A x \in 0..n - 1 : f[x] = g[x]
      PROVE  body(f, n) = body(g, n)
  <2>1. CASE n = 0
    BY <2>1
  <2>2. CASE n # 0
    <3> DEFINE c == Children(h[n])
    <3>0. n \in 1..Len(h)
      BY <1>1, <2>2
    <3>1. IsSeq(c) /\ \A k \in 1..Len(c) : c[k] \in 1..n - 1
      BY <3>0, ChildrenFacts DEF WellFormed
    <3> HIDE DEF c
    <3>2. DOMAIN c = 1..Len(c)
      BY <3>1, SeqFacts
    <3>3. \A k \in DOMAIN c : c[k] \in 0..n - 1
      BY <1>1, <3>1, <3>2
    <3>4. [k \in DOMAIN c |-> f[c[k]]] = [k \in DOMAIN c |-> g[c[k]]]
      BY <1>2, <3>3
    <3> QED
      BY <2>2, <3>4 DEF c
  <2> QED BY <2>1, <2>2
<1>3. ASSUME NEW n \in 0..N, NEW f, IsTree(f, n)
      PROVE  \A x \in 0..n : f[x] = body(f, x)
  <2> HIDE DEF body
  <2> QED BY <1>3
<1>4. \A n \in 0..N : \E f : IsTree(f, n)
  <2> DEFINE Bad == {n \in 0..N : ~ \E f : IsTree(f, n)}
  <2> SUFFICES ASSUME Bad # {} PROVE FALSE
    OBVIOUS
  <2>1. PICK m \in Bad : \A n \in Bad : m <= n
    <3>1. Bad \subseteq Nat
      BY <1>1
    <3> HIDE DEF Bad
    <3> QED BY <3>1, LeastNumber
  <2>2. m \in 0..N /\ ~ \E f : IsTree(f, m)
    OBVIOUS
  <2>3. CASE m = 0
    <3> DEFINE f == [x \in 0..0 |-> Nothing]
    <3>1. IsTree(f, 0)
      <4>1. \A x \in 0..0 : body(f, x) = Nothing
        OBVIOUS
      <4> HIDE DEF body
      <4> QED BY <4>1
    <3> QED BY <2>2, <2>3, <3>1
  <2>4. CASE m # 0
    <3>1. m - 1 \in 0..N /\ ~ (m <= m - 1) /\ m \in Nat
      BY <1>1, <2>2, <2>4
    <3>2. m - 1 \notin Bad
      BY <2>1, <3>1
    <3>3. PICK g : IsTree(g, m - 1)
      BY <3>1, <3>2
    <3> DEFINE f == [x \in 0..m |-> IF x = m THEN body(g, m) ELSE g[x]]
    <3>4. ASSUME NEW x \in 0..m PROVE f[x] = body(f, x)
      <4>1. \A y \in 0..m - 1 : y # m /\ y \in 0..m
        BY <3>1
      <4>2. \A y \in 0..x - 1 : f[y] = g[y]
        <5>1. \A y \in 0..x - 1 : y \in 0..m - 1
          BY <3>1
        <5> QED BY <4>1, <5>1
      <4>3. x \in 0..N
        BY <1>1, <2>2
      <4>4. body(f, x) = body(g, x)
        <5> HIDE DEF body, f, IsTree
        <5> QED BY <1>2, <4>2, <4>3
      <4>5. CASE x = m
        <5> HIDE DEF body
        <5> QED BY <4>4, <4>5
      <4>6. CASE x # m
        <5>1. x \in 0..m - 1
          BY <3>1, <4>6
        <5>2. g[x] = body(g, x)
          <6> HIDE DEF body, IsTree
          <6> QED BY <1>3, <3>1, <3>3, <5>1
        <5> HIDE DEF body
        <5> QED BY <4>4, <4>6, <5>2
      <4> QED BY <4>5, <4>6
    <3>5. IsTree(f, m)
      <4>1. f = [x \in 0..m |-> f[x]]
        <5> HIDE DEF body
        <5> QED OBVIOUS
      <4> HIDE DEF f, body
      <4> QED BY <3>4, <4>1
    <3> QED
      <4> HIDE DEF f, IsTree
      <4> QED BY <2>2, <3>5
  <2> QED BY <2>3, <2>4
<1> DEFINE T == CHOOSE f : f = [x \in 0..N |-> body(f, x)]
<1>5. IsTree(T, N)
  <2>1. \E f : IsTree(f, N)
    <3>1. N \in 0..N
      BY <1>1
    <3> HIDE DEF IsTree, N
    <3> QED BY <1>4, <3>1
  <2> HIDE DEF body
  <2> QED BY <2>1
<1>6. \A x \in 0..N : T[x] = body(T, x)
  <2>1. N \in 0..N
    BY <1>1
  <2> HIDE DEF IsTree, N, T, body
  <2> QED BY <1>3, <1>5, <2>1
<1>7. \A a : Unfold(h, a) = T[a]
  BY DEF Unfold
<1> HIDE DEF T
<1>8. Unfold(h, 0) = Nothing
  <2>1. 0 \in 0..N
    BY <1>1
  <2>2. T[0] = body(T, 0)
    <3> HIDE DEF body
    <3> QED BY <1>6, <2>1
  <2> QED BY <1>7, <2>2
<1>9. ASSUME NEW a \in 1..Len(h)
      PROVE  Unfold(h, a) = mapChildren(h[a], Unfolded(h, Children(h[a])))
  <2>1. a \in 0..N /\ a # 0
    BY <1>1
  <2>2. T[a] = body(T, a)
    <3> HIDE DEF body
    <3> QED BY <1>6, <2>1
  <2>3. Unfolded(h, Children(h[a])) = [k \in DOMAIN Children(h[a]) |-> T[Children(h[a])[k]]]
    BY <1>7 DEF Unfolded
  <2> QED
    BY <1>7, <2>1, <2>2, <2>3
<1> QED
  BY <1>8, <1>9

LEMMA UnfoldedFacts ==
    ASSUME NEW h, NEW s, IsSeq(s)
    PROVE  /\ IsSeq(Unfolded(h, s)) /\ Len(Unfolded(h, s)) = Len(s)
           /\ \A k \in 1..Len(s) : Unfolded(h, s)[k] = Unfold(h, s[k])
<1> DEFINE u == Unfolded(h, s)
<1>1. Len(s) \in Nat /\ DOMAIN s = 1..Len(s)
  BY SeqFacts
<1>2. u = [k \in 1..Len(s) |-> Unfold(h, s[k])]
  BY <1>1 DEF Unfolded
<1> HIDE DEF u
<1>3. \A k \in 1..Len(s) : u[k] = Unfold(h, s[k])
  BY <1>2
<1>4. u = [k \in 1..Len(s) |-> u[k]]
  BY <1>2, <1>3
<1>5. IsSeq(u) /\ Len(u) = Len(s)
  BY <1>1, <1>4, MadeSeq
<1> QED
  BY <1>3, <1>5 DEF u

\* The tree at an address is the node there with the trees of its children.
LEMMA UnfoldFacts ==
    ASSUME NEW h, WellFormed(h), NEW a \in 1..Len(h)
    PROVE  /\ IsNode(h[a]) /\ IsNode(Unfold(h, a))
           /\ Unfold(h, a).op = h[a].op /\ Data(Unfold(h, a)) = Data(h[a])
           /\ Children(Unfold(h, a)) = Unfolded(h, Children(h[a]))
<1> DEFINE u == Unfolded(h, Children(h[a]))
<1>1. IsNode(h[a])
  BY DEF WellFormed
<1>2. Fits(h[a], u)
  BY <1>1, ChildrenFacts, UnfoldedFacts DEF Fits
<1>3. Unfold(h, a) = mapChildren(h[a], u)
  BY UnfoldRule
<1> HIDE DEF u
<1> QED
  BY <1>1, <1>2, <1>3, MapChildrenFacts DEF u

\* What a heap has more changes no tree of it.
LEMMA UnfoldExtends ==
    ASSUME NEW h, WellFormed(h), NEW g, WellFormed(g), Extends(h, g), NEW a \in 0..Len(h)
    PROVE  Unfold(g, a) = Unfold(h, a)
<1> DEFINE Bad == {x \in 0..Len(h) : Unfold(g, x) # Unfold(h, x)}
<1> SUFFICES ASSUME Bad # {} PROVE FALSE
  OBVIOUS
<1>1. Len(h) \in Nat /\ Len(g) \in Nat
  BY SeqFacts DEF WellFormed
<1>2. PICK m \in Bad : \A x \in Bad : m <= x
  <2>1. Bad \subseteq Nat
    BY <1>1
  <2> HIDE DEF Bad
  <2> QED BY <2>1, LeastNumber
<1>3. m \in 0..Len(h) /\ Unfold(g, m) # Unfold(h, m)
  OBVIOUS
<1>4. m # 0
  <2> HIDE DEF Bad
  <2> QED BY <1>3, UnfoldRule
<1>5. m \in 1..Len(h) /\ m \in 1..Len(g) /\ g[m] = h[m]
  <2> HIDE DEF Bad
  <2> QED BY <1>1, <1>3, <1>4 DEF Extends
<1> DEFINE c == Children(h[m])
<1>6. IsSeq(c) /\ \A k \in 1..Len(c) : c[k] \in 1..m - 1
  BY <1>5, ChildrenFacts DEF WellFormed
<1>7. \A x \in 0..Len(h) : ~ (m <= x) => Unfold(g, x) = Unfold(h, x)
  BY <1>2
<1>8. \A k \in 1..Len(c) : c[k] \in 0..Len(h) /\ ~ (m <= c[k])
  <2> HIDE DEF c, Bad
  <2> QED BY <1>1, <1>5, <1>6
<1> HIDE DEF Bad
<1>9. Unfolded(g, c) = Unfolded(h, c)
  <2> HIDE DEF c
  <2>1. DOMAIN c = 1..Len(c)
    BY <1>6, SeqFacts
  <2> QED BY <1>7, <1>8, <2>1 DEF Unfolded
<1> QED
  BY <1>3, <1>5, <1>9, UnfoldRule

LEMMA UnfoldedExtends ==
    ASSUME NEW h, WellFormed(h), NEW g, WellFormed(g), Extends(h, g),
           NEW s, IsSeq(s), \A k \in 1..Len(s) : s[k] \in 0..Len(h)
    PROVE  Unfolded(g, s) = Unfolded(h, s)
<1>1. DOMAIN s = 1..Len(s)
  BY SeqFacts
<1>2. \A k \in DOMAIN s : Unfold(g, s[k]) = Unfold(h, s[k])
  BY <1>1, UnfoldExtends
<1> QED
  BY <1>2 DEF Unfolded

LEMMA ExtendsTransitive ==
    ASSUME NEW h, WellFormed(h), NEW g, WellFormed(g), NEW i, WellFormed(i),
           Extends(h, g), Extends(g, i)
    PROVE  Extends(h, i)
<1>1. Len(h) \in Nat /\ Len(g) \in Nat /\ Len(i) \in Nat
  BY SeqFacts DEF WellFormed
<1> QED
  BY <1>1 DEF Extends

LEMMA ExtendsSelf == ASSUME NEW h, WellFormed(h) PROVE Extends(h, h)
<1>1. Len(h) \in Nat
  BY SeqFacts DEF WellFormed
<1> QED
  BY <1>1 DEF Extends

\* The result r of a helper on the heap h: the tree, made without changing a node.
Makes(h, r, tree) ==
    /\ WellFormed(r.heap) /\ Extends(h, r.heap)
    /\ r.at \in 1..Len(r.heap) /\ Unfold(r.heap, r.at) = tree

LEMMA AtMakes ==
    ASSUME NEW h, WellFormed(h), NEW a \in 1..Len(h)
    PROVE  Makes(h, At(h, a), Unfold(h, a))
<1>1. At(h, a).heap = h /\ At(h, a).at = a
  BY DEF At
<1> QED
  BY <1>1, ExtendsSelf DEF Makes

\* A new node above its children: the tree is the node with the trees of its children.
LEMMA AllocMakes ==
    ASSUME NEW h, WellFormed(h), NEW n, IsNode(n),
           \A k \in 1..Len(Children(n)) : Children(n)[k] \in 1..Len(h)
    PROVE  Makes(h, Alloc(h, n), mapChildren(n, Unfolded(h, Children(n))))
<1> DEFINE g == Append(h, n)
           b == Len(h) + 1
<1>1. Alloc(h, n).heap = g /\ Alloc(h, n).at = b
  BY DEF Alloc, At
<1>2. /\ IsSeq(g) /\ Len(g) = b /\ g[b] = n
      /\ \A a \in 1..Len(h) : g[a] = h[a]
  BY Appended DEF WellFormed
<1>3. Len(h) \in Nat
  BY SeqFacts DEF WellFormed
<1> HIDE DEF g
<1>4. WellFormed(g)
  <2>1. ASSUME NEW a \in 1..Len(g)
        PROVE  /\ IsNode(g[a])
               /\ \A k \in 1..Len(Children(g[a])) : Children(g[a])[k] \in 1..a - 1
    <3>1. CASE a \in 1..Len(h)
      BY <1>2, <3>1 DEF WellFormed
    <3>2. CASE a = b
      BY <1>2, <1>3, <3>2
    <3>3. a \in 1..Len(h) \/ a = b
      BY <1>2, <1>3
    <3> QED BY <3>1, <3>2, <3>3
  <2> QED BY <1>2, <2>1 DEF WellFormed
<1>5. Extends(h, g)
  BY <1>2, <1>3 DEF Extends
<1>6. b \in 1..Len(g)
  BY <1>2, <1>3
<1>7. Unfolded(g, Children(n)) = Unfolded(h, Children(n))
  <2>1. \A k \in 1..Len(Children(n)) : Children(n)[k] \in 0..Len(h)
    BY <1>3
  <2> QED BY <1>4, <1>5, <2>1, ChildrenFacts, UnfoldedExtends
<1>8. Unfold(g, b) = mapChildren(n, Unfolded(h, Children(n)))
  BY <1>2, <1>4, <1>6, <1>7, UnfoldRule
<1> QED
  BY <1>1, <1>4, <1>5, <1>6, <1>8 DEF Makes

LEMMA AllocTree ==
    ASSUME NEW h, WellFormed(h), NEW n, IsNode(n),
           \A k \in 1..Len(Children(n)) : Children(n)[k] \in 1..Len(h),
           NEW tree, IsNode(tree), Data(tree) = Data(n), Children(tree) = Unfolded(h, Children(n))
    PROVE  Makes(h, Alloc(h, n), tree)
<1> DEFINE u == Unfolded(h, Children(n))
<1>1. Fits(n, u)
  BY ChildrenFacts, UnfoldedFacts DEF Fits
<1>2. Children(tree) = u
  OBVIOUS
<1> HIDE DEF u
<1>3. mapChildren(n, u) = tree
  BY <1>1, <1>2, MapChildrenFacts, SameNode
<1> QED
  BY <1>3, AllocMakes DEF u

LEMMA MakesTransitive ==
    ASSUME NEW h, WellFormed(h), NEW g, WellFormed(g), Extends(h, g), NEW r, NEW tree,
           Makes(g, r, tree)
    PROVE  Makes(h, r, tree)
  BY ExtendsTransitive DEF Makes

LEMMA UnfoldedReplaced ==
    ASSUME NEW h, NEW s, IsSeq(s), NEW k \in 1..Len(s), NEW b
    PROVE  Unfolded(h, Put(s, k, b)) = Put(Unfolded(h, s), k, Unfold(h, b))
<1>1. DOMAIN s = 1..Len(s)
  BY SeqFacts
<1> QED
  BY <1>1 DEF Unfolded, Put

-----------------------------------------------------------------------------
\* Each helper that makes nodes makes the tree that the rule on trees makes.

LEMMA WithKidsMakes ==
    ASSUME NEW h, WellFormed(h), NEW a \in 1..Len(h),
           NEW kids, Fits(h[a], kids), \A k \in 1..Len(kids) : kids[k] \in 1..Len(h)
    PROVE  Makes(h, WithKids(h, a, kids), mapChildren(Unfold(h, a), Unfolded(h, kids)))
<1> DEFINE n == h[a]
           U == Unfold(h, a)
           v == Unfolded(h, kids)
<1>1. IsNode(n) /\ IsNode(U) /\ Data(U) = Data(n) /\ Children(U) = Unfolded(h, Children(n))
  BY UnfoldFacts
<1>2. IsSeq(kids) /\ Len(kids) = Len(Children(n))
  BY DEF Fits
<1>3. CASE kids = Children(n)
  <2>1. WithKids(h, a, kids) = At(h, a)
    BY <1>3 DEF WithKids
  <2>2. mapChildren(U, v) = U
    <3>1. v = Children(U)
      BY <1>1, <1>3
    <3> HIDE DEF U, v
    <3> QED BY <1>1, <3>1, OwnChildren
  <2> QED BY <2>1, <2>2, AtMakes
<1>4. CASE kids # Children(n)
  <2> DEFINE m == mapChildren(n, kids)
             T == mapChildren(U, v)
  <2>1. WithKids(h, a, kids) = Alloc(h, m)
    BY <1>4 DEF WithKids
  <2>2. IsNode(m) /\ Data(m) = Data(n) /\ Children(m) = kids
    BY <1>1, MapChildrenFacts
  <2>3. Fits(U, v)
    <3>1. IsSeq(v) /\ Len(v) = Len(kids)
      BY <1>2, UnfoldedFacts
    <3>2. Len(Children(U)) = Len(Children(n))
      BY <1>1, DataTells
    <3> QED BY <1>2, <3>1, <3>2 DEF Fits
  <2>4. IsNode(T) /\ Data(T) = Data(U) /\ Children(T) = v
    <3> HIDE DEF U, v
    <3> QED BY <1>1, <2>3, MapChildrenFacts
  <2>5. \A k \in 1..Len(Children(m)) : Children(m)[k] \in 1..Len(h)
    BY <2>2
  <2>6. Children(T) = Unfolded(h, Children(m))
    BY <2>2, <2>4
  <2> HIDE DEF m, T
  <2>7. Makes(h, Alloc(h, m), T)
    BY <1>1, <2>2, <2>4, <2>5, <2>6, AllocTree
  <2> QED BY <2>1, <2>7 DEF T
<1> QED
  BY <1>3, <1>4

LEMMA WithExprsMakes ==
    ASSUME NEW h, WellFormed(h), NEW a \in 1..Len(h), NEW new, Replaces(new, h[a])
    PROVE  Makes(h, WithExprs(h, a, new), rewriteNodeExprs(Unfold(h, a), new))
<1> DEFINE n == h[a]
           U == Unfold(h, a)
<1>1. IsNode(n) /\ IsNode(U) /\ Data(U) = Data(n) /\ Children(U) = Unfolded(h, Children(n))
  BY UnfoldFacts
<1>2. Exprs(U) = Exprs(n)
  <2> HIDE DEF U
  <2> QED BY <1>1, SameExprs
<1>3. CASE new = Exprs(n)
  <2>1. WithExprs(h, a, new) = At(h, a)
    BY <1>3 DEF WithExprs
  <2>2. rewriteNodeExprs(U, new) = U
    BY <1>1, <1>2, <1>3, OwnExprs
  <2> QED BY <2>1, <2>2, AtMakes
<1>4. CASE new # Exprs(n)
  <2> DEFINE m == rewriteNodeExprs(n, new)
             T == rewriteNodeExprs(U, new)
  <2>1. WithExprs(h, a, new) = Alloc(h, m)
    BY <1>4 DEF WithExprs
  <2>2. IsNode(m) /\ Children(m) = Children(n)
    BY <1>1, RewriteFacts
  <2>3. Replaces(new, U)
    BY <1>2 DEF Replaces
  <2>4. IsNode(T) /\ Children(T) = Children(U)
    BY <1>1, <2>3, RewriteFacts
  <2>5. Data(T) = Data(m)
    BY <1>1, RewriteSays
  <2>6. \A k \in 1..Len(Children(m)) : Children(m)[k] \in 1..Len(h)
    <3>1. Len(h) \in Nat
      BY SeqFacts DEF WellFormed
    <3>2. \A k \in 1..Len(Children(n)) : Children(n)[k] \in 1..a - 1
      BY DEF WellFormed
    <3> QED BY <2>2, <3>1, <3>2
  <2> HIDE DEF m, T
  <2>7. Makes(h, Alloc(h, m), T)
    BY <1>1, <2>2, <2>4, <2>5, <2>6, AllocTree
  <2> QED BY <2>1, <2>7 DEF T
<1> QED
  BY <1>3, <1>4

\* A copy of a node above another first child.
LEMMA OverMakes ==
    ASSUME NEW h, WellFormed(h), NEW c \in 1..Len(h), h[c].op # "scan",
           NEW f, NEW tree, Makes(h, f, tree)
    PROVE  Makes(h, Alloc(f.heap, [h[c] EXCEPT !.child = f.at]),
                 [Unfold(h, c) EXCEPT !.child = tree])
<1> DEFINE n == h[c]
           U == Unfold(h, c)
           g == f.heap
           m == [n EXCEPT !.child = f.at]
           T == [U EXCEPT !.child = tree]
           s == Children(n)
<1>1. /\ IsNode(n) /\ IsNode(U) /\ U.op = n.op /\ Data(U) = Data(n)
      /\ Children(U) = Unfolded(h, s)
  BY UnfoldFacts
<1>2. WellFormed(g) /\ Extends(h, g) /\ f.at \in 1..Len(g) /\ Unfold(g, f.at) = tree
  BY DEF Makes
<1>3. Len(h) \in Nat /\ Len(g) \in Nat /\ Len(h) <= Len(g)
  BY <1>2, SeqFacts DEF WellFormed, Extends
<1>4. IsSeq(s) /\ 1 \in 1..Len(s)
  BY <1>1, ChildrenFacts
<1>5. \A k \in 1..Len(s) : s[k] \in 1..Len(h)
  <2>1. \A k \in 1..Len(s) : s[k] \in 1..c - 1
    BY DEF WellFormed
  <2> HIDE DEF s
  <2> QED BY <1>3, <2>1
<1>6. IsNode(m) /\ Data(m) = Data(n) /\ Children(m) = [s EXCEPT ![1] = f.at]
  BY <1>1, OneChild
<1>7. IsNode(T) /\ Data(T) = Data(U) /\ Children(T) = [Children(U) EXCEPT ![1] = tree]
  BY <1>1, OneChild
<1> HIDE DEF m, T, n, U, s, g
<1>8. Unfolded(g, s) = Unfolded(h, s)
  <2>1. \A k \in 1..Len(s) : s[k] \in 0..Len(h)
    BY <1>3, <1>5
  <2> QED BY <1>2, <1>4, <2>1, UnfoldedExtends
<1>9. Children(T) = Unfolded(g, Children(m))
  <2> DEFINE b == f.at
  <2>1. Children(m) = [s EXCEPT ![1] = b] /\ Unfold(g, b) = tree
    BY <1>2, <1>6
  <2> HIDE DEF b
  <2>2. Unfolded(g, Put(s, 1, b)) = Put(Unfolded(g, s), 1, Unfold(g, b))
    BY <1>4, UnfoldedReplaced
  <2> QED BY <1>1, <1>7, <1>8, <2>1, <2>2 DEF Put
<1>10. \A k \in 1..Len(Children(m)) : Children(m)[k] \in 1..Len(g)
  <2> DEFINE b == f.at
             t == Put(s, 1, b)
  <2>1. Len(t) = Len(s) /\ t[1] = b /\ \A x \in 1..Len(s) : x # 1 => t[x] = s[x]
    <3> HIDE DEF b
    <3> QED BY <1>4, Replaced
  <2>2. \A k \in 1..Len(s) : s[k] \in 1..Len(g)
    BY <1>3, <1>5
  <2>3. Children(m) = t /\ b \in 1..Len(g)
    BY <1>2, <1>6 DEF Put
  <2> HIDE DEF t, b
  <2> QED BY <2>1, <2>2, <2>3
<1>11. Makes(g, Alloc(g, m), T)
  BY <1>1, <1>2, <1>6, <1>7, <1>9, <1>10, AllocTree
<1>12. Makes(h, Alloc(g, m), T)
  BY <1>2, <1>11, MakesTransitive
<1> QED
  BY <1>12 DEF g, m, T, n, U

LEMMA RightMakes ==
    ASSUME NEW h, WellFormed(h), NEW c \in 1..Len(h), h[c].op = "join",
           NEW f, NEW tree, Makes(h, f, tree)
    PROVE  Makes(h, Alloc(f.heap, [h[c] EXCEPT !.right = f.at]),
                 [Unfold(h, c) EXCEPT !.right = tree])
<1> DEFINE n == h[c]
           U == Unfold(h, c)
           g == f.heap
           m == [n EXCEPT !.right = f.at]
           T == [U EXCEPT !.right = tree]
           s == Children(n)
<1>1. /\ IsNode(n) /\ IsNode(U) /\ U.op = n.op /\ Data(U) = Data(n)
      /\ Children(U) = Unfolded(h, s)
  BY UnfoldFacts
<1>2. WellFormed(g) /\ Extends(h, g) /\ f.at \in 1..Len(g) /\ Unfold(g, f.at) = tree
  BY DEF Makes
<1>3. Len(h) \in Nat /\ Len(g) \in Nat /\ Len(h) <= Len(g)
  BY <1>2, SeqFacts DEF WellFormed, Extends
<1>4. IsSeq(s) /\ 2 \in 1..Len(s)
  BY <1>1, ChildrenFacts
<1>5. \A k \in 1..Len(s) : s[k] \in 1..Len(h)
  <2>1. \A k \in 1..Len(s) : s[k] \in 1..c - 1
    BY DEF WellFormed
  <2> HIDE DEF s
  <2> QED BY <1>3, <2>1
<1>6. IsNode(m) /\ Data(m) = Data(n) /\ Children(m) = [s EXCEPT ![2] = f.at]
  BY <1>1, OtherChild
<1>7. IsNode(T) /\ Data(T) = Data(U) /\ Children(T) = [Children(U) EXCEPT ![2] = tree]
  BY <1>1, OtherChild
<1> HIDE DEF m, T, n, U, s, g
<1>8. Unfolded(g, s) = Unfolded(h, s)
  <2>1. \A k \in 1..Len(s) : s[k] \in 0..Len(h)
    BY <1>3, <1>5
  <2> QED BY <1>2, <1>4, <2>1, UnfoldedExtends
<1>9. Children(T) = Unfolded(g, Children(m))
  <2> DEFINE b == f.at
  <2>1. Children(m) = [s EXCEPT ![2] = b] /\ Unfold(g, b) = tree
    BY <1>2, <1>6
  <2> HIDE DEF b
  <2>2. Unfolded(g, Put(s, 2, b)) = Put(Unfolded(g, s), 2, Unfold(g, b))
    BY <1>4, UnfoldedReplaced
  <2> QED BY <1>1, <1>7, <1>8, <2>1, <2>2 DEF Put
<1>10. \A k \in 1..Len(Children(m)) : Children(m)[k] \in 1..Len(g)
  <2> DEFINE b == f.at
             t == Put(s, 2, b)
  <2>1. Len(t) = Len(s) /\ t[2] = b /\ \A x \in 1..Len(s) : x # 2 => t[x] = s[x]
    <3> HIDE DEF b
    <3> QED BY <1>4, Replaced
  <2>2. \A k \in 1..Len(s) : s[k] \in 1..Len(g)
    BY <1>3, <1>5
  <2>3. Children(m) = t /\ b \in 1..Len(g)
    BY <1>2, <1>6 DEF Put
  <2> HIDE DEF t, b
  <2> QED BY <2>1, <2>2, <2>3
<1>11. Makes(g, Alloc(g, m), T)
  BY <1>1, <1>2, <1>6, <1>7, <1>9, <1>10, AllocTree
<1>12. Makes(h, Alloc(g, m), T)
  BY <1>2, <1>11, MakesTransitive
<1> QED
  BY <1>12 DEF g, m, T, n, U

\* A node with one child at least is above it, and its tree above that child's tree.
LEMMA FirstChild ==
    ASSUME NEW h, WellFormed(h), NEW a \in 1..Len(h), h[a].op # "scan"
    PROVE  /\ h[a].child \in 1..Len(h) /\ h[a].child < a
           /\ Unfold(h, a).child = Unfold(h, h[a].child)
<1> DEFINE n == h[a]
           U == Unfold(h, a)
           s == Children(n)
<1>1. IsNode(n) /\ IsNode(U) /\ U.op = n.op /\ Children(U) = Unfolded(h, s)
  BY UnfoldFacts
<1>2. IsSeq(s) /\ 1 \in 1..Len(s) /\ s[1] = n.child /\ Children(U)[1] = U.child
  <2> HIDE DEF U
  <2> QED BY <1>1, ChildrenFacts
<1>3. s[1] \in 1..a - 1
  BY <1>2 DEF WellFormed
<1>4. Len(h) \in Nat
  BY SeqFacts DEF WellFormed
<1>5. Unfolded(h, s)[1] = Unfold(h, s[1])
  BY <1>2, UnfoldedFacts
<1> HIDE DEF n, U, s
<1>6. n.child \in 1..Len(h) /\ n.child < a
  BY <1>2, <1>3, <1>4
<1> QED
  BY <1>1, <1>2, <1>5, <1>6 DEF n, U

LEMMA SecondChild ==
    ASSUME NEW h, WellFormed(h), NEW a \in 1..Len(h), h[a].op = "join"
    PROVE  /\ h[a].right \in 1..Len(h) /\ h[a].right < a
           /\ Unfold(h, a).right = Unfold(h, h[a].right)
<1> DEFINE n == h[a]
           U == Unfold(h, a)
           s == Children(n)
<1>1. IsNode(n) /\ IsNode(U) /\ U.op = n.op /\ Children(U) = Unfolded(h, s)
  BY UnfoldFacts
<1>2. IsSeq(s) /\ 2 \in 1..Len(s) /\ s[2] = n.right /\ Children(U)[2] = U.right
  <2> HIDE DEF U
  <2> QED BY <1>1, ChildrenFacts
<1>3. s[2] \in 1..a - 1
  BY <1>2 DEF WellFormed
<1>4. Len(h) \in Nat
  BY SeqFacts DEF WellFormed
<1>5. Unfolded(h, s)[2] = Unfold(h, s[2])
  BY <1>2, UnfoldedFacts
<1> HIDE DEF n, U, s
<1>6. n.right \in 1..Len(h) /\ n.right < a
  BY <1>2, <1>3, <1>4
<1> QED
  BY <1>1, <1>2, <1>5, <1>6 DEF n, U

\* The tree of a scan is the scan.
LEMMA ScanTree ==
    ASSUME NEW h, WellFormed(h), NEW a \in 1..Len(h), h[a].op = "scan"
    PROVE  Unfold(h, a) = h[a] /\ Children(h[a]) = <<>>
<1> DEFINE n == h[a]
           U == Unfold(h, a)
<1>1. IsNode(n) /\ IsNode(U) /\ U.op = n.op /\ Data(U) = Data(n)
  BY UnfoldFacts
<1> HIDE DEF U, n
<1>2. n.op = "scan"
  BY DEF n
<1>3. Children(n) = <<>> /\ Children(U) = <<>>
  BY <1>1, <1>2 DEF Children
<1> QED
  BY <1>1, <1>3, SameNode DEF U, n

LEMMA UnfoldedPair ==
    ASSUME NEW h, NEW x, NEW y
    PROVE  /\ Unfolded(h, <<x>>) = <<Unfold(h, x)>>
           /\ Unfolded(h, <<x, y>>) = <<Unfold(h, x), Unfold(h, y)>>
<1> DEFINE s == <<x>>
           t == <<x, y>>
           u == Unfold(h, x)
           v == Unfold(h, y)
<1>1. /\ IsSeq(s) /\ Len(s) = 1 /\ s[1] = x
      /\ IsSeq(t) /\ Len(t) = 2 /\ t[1] = x /\ t[2] = y
  BY PairFacts
<1>2. (\A k \in 1..1 : k = 1) /\ (\A k \in 1..2 : k = 1 \/ k = 2) /\ 1 \in 1..1 /\ {1, 2} \subseteq 1..2
  OBVIOUS
<1> HIDE DEF s, t, u, v
<1>3. IsSeq(Unfolded(h, s)) /\ Len(Unfolded(h, s)) = 1 /\ Unfolded(h, s)[1] = u
  BY <1>1, <1>2, UnfoldedFacts DEF u
<1>4. /\ IsSeq(Unfolded(h, t)) /\ Len(Unfolded(h, t)) = 2
      /\ Unfolded(h, t)[1] = u /\ Unfolded(h, t)[2] = v
  BY <1>1, <1>2, UnfoldedFacts DEF u, v
<1>5. /\ IsSeq(<<u>>) /\ Len(<<u>>) = 1 /\ <<u>>[1] = u
      /\ IsSeq(<<u, v>>) /\ Len(<<u, v>>) = 2 /\ <<u, v>>[1] = u /\ <<u, v>>[2] = v
  BY PairFacts
<1>6. Unfolded(h, s) = <<u>>
  BY <1>2, <1>3, <1>5, SameSeq
<1>7. Unfolded(h, t) = <<u, v>>
  BY <1>2, <1>4, <1>5, SameSeq
<1> QED
  BY <1>6, <1>7 DEF s, t, u, v

\* A new node above one that is there.
LEMMA AboveMakes ==
    ASSUME NEW h, WellFormed(h), NEW d \in 1..Len(h), NEW n, IsNode(n), Children(n) = <<d>>,
           NEW tree, IsNode(tree), Data(tree) = Data(n), Children(tree) = <<Unfold(h, d)>>
    PROVE  Makes(h, Alloc(h, n), tree)
<1>1. IsSeq(<<d>>) /\ Len(<<d>>) = 1 /\ <<d>>[1] = d
  BY PairFacts
<1>2. Unfolded(h, <<d>>) = <<Unfold(h, d)>>
  BY UnfoldedPair
<1>3. \A k \in 1..Len(Children(n)) : Children(n)[k] \in 1..Len(h)
  BY <1>1
<1>4. Children(tree) = Unfolded(h, Children(n))
  BY <1>2
<1> QED
  BY <1>3, <1>4, AllocTree

LEMMA PushFilterMakes ==
    ASSUME NEW h, WellFormed(h), NEW a \in 1..Len(h), h[a].op = "filter"
    PROVE  Makes(h, PushFilterAt(h, a), PushFilter(Unfold(h, a)))
<1> DEFINE n == h[a]
           U == Unfold(h, a)
           c == n.child
           C == Unfold(h, c)
           p == n.predicate
           side == FilterGoes(C, p)
<1>1. /\ IsNode(n) /\ IsNode(U) /\ U.op = n.op /\ Data(U) = Data(n)
  BY UnfoldFacts
<1>2. c \in 1..Len(h) /\ U.child = C
  BY FirstChild
<1>3. U.predicate = p
  <2>1. "predicate" \in Fields[n.op] \ Links
    BY DEF Fields, Links
  <2> HIDE DEF U, n
  <2> QED BY <1>1, <2>1, DataTells DEF p
<1>4. IsNode(h[c]) /\ IsNode(C) /\ C.op = h[c].op
  BY <1>2, UnfoldFacts
<1> HIDE DEF n, U, c, C, p
<1>5. CASE side = "left"
  <2>1. C.op \in {"join", "groupby"}
    BY <1>5 DEF FilterGoes
  <2> DEFINE d == h[c].child
             f == Alloc(h, Filter(d, p))
             t == Filter(C.child, p)
  <2>2. PushFilterAt(h, a) = Alloc(f.heap, [h[c] EXCEPT !.child = f.at])
    BY <1>5 DEF PushFilterAt, n, c, C, p
  <2>3. PushFilter(U) = [C EXCEPT !.child = t]
    BY <1>2, <1>3, <1>5 DEF PushFilter
  <2>4. d \in 1..Len(h) /\ C.child = Unfold(h, d)
    BY <1>2, <1>4, <2>1, FirstChild DEF C
  <2>5. Makes(h, f, t)
    <3> HIDE DEF d
    <3>1. IsNode(Filter(d, p)) /\ IsNode(t) /\ Children(Filter(d, p)) = <<d>>
          /\ Children(t) = <<Unfold(h, d)>>
      BY <2>4, Made
    <3>2. Data(t) = Data(Filter(d, p))
      BY SaysOf
    <3> HIDE DEF t
    <3> QED BY <2>4, <3>1, <3>2, AboveMakes
  <2> HIDE DEF f, t, d
  <2>6. Makes(h, Alloc(f.heap, [h[c] EXCEPT !.child = f.at]), [C EXCEPT !.child = t])
    BY <1>2, <1>4, <2>1, <2>5, OverMakes DEF C
  <2> QED BY <2>2, <2>3, <2>6 DEF U
<1>6. CASE side = "right"
  <2>1. C.op = "join"
    BY <1>6 DEF FilterGoes
  <2> DEFINE d == h[c].right
             f == Alloc(h, Filter(d, p))
             t == Filter(C.right, p)
  <2>2. PushFilterAt(h, a) = Alloc(f.heap, [h[c] EXCEPT !.right = f.at])
    BY <1>6 DEF PushFilterAt, n, c, C, p
  <2>3. PushFilter(U) = [C EXCEPT !.right = t]
    BY <1>2, <1>3, <1>6 DEF PushFilter
  <2>4. d \in 1..Len(h) /\ C.right = Unfold(h, d)
    BY <1>2, <1>4, <2>1, SecondChild DEF C
  <2>5. Makes(h, f, t)
    <3> HIDE DEF d
    <3>1. IsNode(Filter(d, p)) /\ IsNode(t) /\ Children(Filter(d, p)) = <<d>>
          /\ Children(t) = <<Unfold(h, d)>>
      BY <2>4, Made
    <3>2. Data(t) = Data(Filter(d, p))
      BY SaysOf
    <3> HIDE DEF t
    <3> QED BY <2>4, <3>1, <3>2, AboveMakes
  <2> HIDE DEF f, t, d
  <2>6. Makes(h, Alloc(f.heap, [h[c] EXCEPT !.right = f.at]), [C EXCEPT !.right = t])
    BY <1>2, <1>4, <2>1, <2>5, RightMakes DEF C
  <2> QED BY <2>2, <2>3, <2>6 DEF U
<1>7. CASE side \notin {"left", "right"}
  <2>1. PushFilterAt(h, a) = At(h, a)
    BY <1>7 DEF PushFilterAt, n, c, C, p
  <2>2. PushFilter(U) = U
    BY <1>2, <1>3, <1>7 DEF PushFilter
  <2> QED BY <2>1, <2>2, AtMakes DEF U
<1> QED
  BY <1>5, <1>6, <1>7

\* A copy of a scan with another field.
LEMMA ScanMakes ==
    ASSUME NEW h, WellFormed(h), NEW n, IsNode(n), n.op = "scan"
    PROVE  Makes(h, Alloc(h, n), n)
<1>1. IsSeq(<<>>) /\ Len(<<>>) = 0
  BY PairFacts
<1>2. Children(n) = <<>>
  BY DEF Children
<1>3. Unfolded(h, <<>>) = <<>>
  BY DEF Unfolded
<1> QED
  BY <1>1, <1>2, <1>3, AllocTree

LEMMA ProjectScanNode ==
    ASSUME NEW n, IsNode(n), n.op = "scan", NEW required
    PROVE  IsNode(ProjectScan(n, required)) /\ ProjectScan(n, required).op = "scan"
<1> DEFINE w == inOrder((UNION required) \cap headerOf(n.path))
           m == Put(n, "projected", w)
<1>1. ProjectScan(n, required) \in {n, m}
  BY DEF ProjectScan, Put
<1>2. "projected" \in Fields[n.op] \ {"op"}
  BY DEF Fields
<1> HIDE DEF w
<1>3. IsNode(m) /\ m.op = n.op
  BY <1>2, OneField
<1> HIDE DEF m
<1> QED
  BY <1>1, <1>3

LEMMA ProjectScanMakes ==
    ASSUME NEW h, WellFormed(h), NEW a \in 1..Len(h), h[a].op = "scan", NEW required
    PROVE  Makes(h, ProjectScanAt(h, a, required), ProjectScan(Unfold(h, a), required))
<1> DEFINE n == h[a]
           m == ProjectScan(n, required)
<1>1. Unfold(h, a) = n /\ IsNode(n)
  BY ScanTree, UnfoldFacts
<1>2. IsNode(m) /\ m.op = "scan"
  BY <1>1, ProjectScanNode
<1>3. ProjectScanAt(h, a, required) = IF m = n THEN At(h, a) ELSE Alloc(h, m)
  BY DEF ProjectScanAt
<1> HIDE DEF m
<1> QED
  BY <1>1, <1>2, <1>3, AtMakes, ScanMakes DEF m

LEMMA PushLimitMakes ==
    ASSUME NEW h, WellFormed(h), NEW a \in 1..Len(h), h[a].op = "limit"
    PROVE  Makes(h, PushLimitAt(h, a), PushLimit(Unfold(h, a)))
<1> DEFINE n == h[a]
           U == Unfold(h, a)
           c == n.child
           C == Unfold(h, c)
           v == n.n
<1>1. /\ IsNode(n) /\ IsNode(U) /\ U.op = n.op /\ Data(U) = Data(n)
  BY UnfoldFacts
<1>2. c \in 1..Len(h) /\ U.child = C
  BY FirstChild
<1>3. U.n = v
  <2>1. "n" \in Fields[n.op] \ Links
    BY DEF Fields, Links
  <2> HIDE DEF U, n
  <2> QED BY <1>1, <2>1, DataTells DEF v
<1>4. IsNode(h[c]) /\ IsNode(C) /\ C.op = h[c].op
  BY <1>2, UnfoldFacts
<1> HIDE DEF n, U, c, C, v
<1>5. CASE C.op \in {"select", "withcol"}
  <2> DEFINE d == h[c].child
             f == Alloc(h, Limit(d, v))
             t == Limit(C.child, v)
  <2>2. PushLimitAt(h, a) = Alloc(f.heap, [h[c] EXCEPT !.child = f.at])
    BY <1>4, <1>5 DEF PushLimitAt, n, c, v
  <2>3. PushLimit(U) = [C EXCEPT !.child = t]
    BY <1>2, <1>3, <1>5 DEF PushLimit
  <2>4. d \in 1..Len(h) /\ C.child = Unfold(h, d)
    BY <1>2, <1>4, <1>5, FirstChild DEF C
  <2>5. Makes(h, f, t)
    <3> HIDE DEF d
    <3>1. IsNode(Limit(d, v)) /\ IsNode(t) /\ Children(Limit(d, v)) = <<d>>
          /\ Children(t) = <<Unfold(h, d)>>
      BY <2>4, Made
    <3>2. Data(t) = Data(Limit(d, v))
      BY SaysOf
    <3> HIDE DEF t
    <3> QED BY <2>4, <3>1, <3>2, AboveMakes
  <2> HIDE DEF f, t, d
  <2>6. Makes(h, Alloc(f.heap, [h[c] EXCEPT !.child = f.at]), [C EXCEPT !.child = t])
    BY <1>2, <1>4, <1>5, <2>5, OverMakes DEF C
  <2> QED BY <2>2, <2>3, <2>6 DEF U
<1>6. CASE C.op = "scan"
  <2> DEFINE l == TighterLimit(C, v)
             m == Put(C, "row_limit", l)
  <2>1. C = h[c]
    BY <1>2, <1>4, <1>6, ScanTree DEF C
  <2>2. "row_limit" \in Fields[C.op] \ (Links \cup {"op"})
    BY <1>6 DEF Fields, Links
  <2>3. PushLimitAt(h, a) = IF C.row_limit = l THEN At(h, c) ELSE Alloc(h, m)
    BY <1>6, <2>1 DEF PushLimitAt, n, c, v, Put
  <2>4. PushLimit(U) = m
    BY <1>2, <1>3, <1>6 DEF PushLimit, Put
  <2> HIDE DEF l
  <2>5. /\ IsNode(m) /\ m.op = C.op /\ m["row_limit"] = l /\ Children(m) = Children(C)
        /\ \A g \in Fields[C.op] : g # "row_limit" => m[g] = C[g]
    BY <1>4, <2>2, OneDatum
  <2> HIDE DEF m
  <2>6. C.row_limit = l => m = C
    <3> SUFFICES ASSUME C.row_limit = l PROVE m = C
      OBVIOUS
    <3>1. \A g \in Fields[C.op] : m[g] = C[g]
      BY <2>5
    <3>2. Data(m) = Data(C)
      BY <2>5, <3>1, SameData
    <3> QED BY <1>4, <2>5, <3>2, SameNode
  <2>7. Makes(h, At(h, c), C)
    BY <1>2, AtMakes DEF C
  <2>8. Makes(h, Alloc(h, m), m)
    BY <1>6, <2>5, ScanMakes
  <2> QED BY <2>3, <2>4, <2>6, <2>7, <2>8 DEF U
<1>7. CASE C.op \notin {"select", "withcol", "scan"}
  <2>1. PushLimitAt(h, a) = At(h, a)
    BY <1>4, <1>7 DEF PushLimitAt, n, c
  <2>2. PushLimit(U) = U
    BY <1>2, <1>7 DEF PushLimit
  <2> QED BY <2>1, <2>2, AtMakes DEF U
<1> QED
  BY <1>5, <1>6, <1>7

LEMMA RewrittenMakes ==
    ASSUME NEW h, WellFormed(h), NEW a \in 1..Len(h), NEW pass, NEW required
    PROVE  Makes(h, RewrittenAt(pass, h, a, required), Rewritten(pass, Unfold(h, a), required))
<1> DEFINE n == h[a]
           U == Unfold(h, a)
<1>1. IsNode(n) /\ IsNode(U) /\ U.op = n.op /\ Data(U) = Data(n)
  BY UnfoldFacts
<1> HIDE DEF n, U
<1>2. Exprs(U) = Exprs(n)
  BY <1>1, SameExprs
<1>3. CASE pass = "fold"
  <2>1. Folded(U) = Folded(n)
    BY <1>2 DEF Folded
  <2>2. Replaces(Folded(n), n)
    BY DEF Replaces, Folded
  <2>3. RewrittenAt(pass, h, a, required) = WithExprs(h, a, Folded(n))
    BY <1>3 DEF RewrittenAt, n
  <2>4. Rewritten(pass, U, required) = rewriteNodeExprs(U, Folded(n))
    BY <1>3, <2>1 DEF Rewritten
  <2> QED BY <2>2, <2>3, <2>4, WithExprsMakes DEF U, n
<1>4. CASE pass = "simplify"
  <2>1. Simplified(U) = Simplified(n)
    BY <1>2 DEF Simplified
  <2>2. Replaces(Simplified(n), n)
    BY DEF Replaces, Simplified
  <2>3. RewrittenAt(pass, h, a, required) = WithExprs(h, a, Simplified(n))
    BY <1>4 DEF RewrittenAt, n
  <2>4. Rewritten(pass, U, required) = rewriteNodeExprs(U, Simplified(n))
    BY <1>4, <2>1 DEF Rewritten
  <2> QED BY <2>2, <2>3, <2>4, WithExprsMakes DEF U, n
<1>5. CASE pass = "predicates" /\ n.op = "filter"
  BY <1>1, <1>5, PushFilterMakes DEF RewrittenAt, Rewritten, U, n
<1>6. CASE pass = "projections" /\ n.op = "scan"
  BY <1>1, <1>6, ProjectScanMakes DEF RewrittenAt, Rewritten, U, n
<1>7. CASE pass = "limits" /\ n.op = "limit"
  BY <1>1, <1>7, PushLimitMakes DEF RewrittenAt, Rewritten, U, n
<1>8. CASE /\ pass \notin {"fold", "simplify"} /\ ~(pass = "predicates" /\ n.op = "filter")
           /\ ~(pass = "projections" /\ n.op = "scan") /\ ~(pass = "limits" /\ n.op = "limit")
  BY <1>1, <1>8, AtMakes DEF RewrittenAt, Rewritten, U, n
<1> QED
  BY <1>3, <1>4, <1>5, <1>6, <1>7, <1>8 DEF U

-----------------------------------------------------------------------------
\* Nothing is copied that comes out the same.

\* A filter that moves below its child, and a limit, leave a node of another type on top.
LEMMA FilterStays ==
    ASSUME NEW U, U.op = "filter", IsNode(U.child), PushFilter(U).op = "filter"
    PROVE  FilterGoes(U.child, U.predicate) \notin {"left", "right"}
<1> DEFINE C == U.child
<1>1. ASSUME FilterGoes(C, U.predicate) = "left" PROVE FALSE
  <2>1. C.op \in {"join", "groupby"}
    BY <1>1 DEF FilterGoes
  <2> HIDE DEF C
  <2>2. \A t : [C EXCEPT !.child = t].op = C.op
    BY <2>1, OneChild DEF C
  <2> DEFINE t == Filter(C.child, U.predicate)
  <2>3. PushFilter(U) = [C EXCEPT !.child = t]
    BY <1>1 DEF PushFilter, C
  <2> HIDE DEF t
  <2> QED BY <2>1, <2>2, <2>3
<1>2. ASSUME FilterGoes(C, U.predicate) = "right" PROVE FALSE
  <2>1. C.op = "join"
    BY <1>2 DEF FilterGoes
  <2> HIDE DEF C
  <2>2. \A t : [C EXCEPT !.right = t].op = C.op
    BY <2>1, OtherChild DEF C
  <2> DEFINE t == Filter(C.right, U.predicate)
  <2>3. PushFilter(U) = [C EXCEPT !.right = t]
    BY <1>2 DEF PushFilter, C
  <2> HIDE DEF t
  <2> QED BY <2>1, <2>2, <2>3
<1> QED
  BY <1>1, <1>2

LEMMA LimitStays ==
    ASSUME NEW U, U.op = "limit", IsNode(U.child), PushLimit(U).op = "limit"
    PROVE  U.child.op \notin {"select", "withcol", "scan"}
<1> DEFINE C == U.child
<1>1. ASSUME C.op \in {"select", "withcol"} PROVE FALSE
  <2> HIDE DEF C
  <2>1. \A t : [C EXCEPT !.child = t].op = C.op
    BY <1>1, OneChild DEF C
  <2> DEFINE t == Limit(C.child, U.n)
  <2>2. PushLimit(U) = [C EXCEPT !.child = t]
    BY <1>1 DEF PushLimit, C
  <2> HIDE DEF t
  <2> QED BY <1>1, <2>1, <2>2
<1>2. ASSUME C.op = "scan" PROVE FALSE
  <2> DEFINE l == TighterLimit(C, U.n)
  <2>1. PushLimit(U) = Put(C, "row_limit", l)
    BY <1>2 DEF PushLimit, C, Put
  <2>2. "row_limit" \in Fields[C.op] \ {"op"}
    BY <1>2 DEF Fields
  <2> HIDE DEF l, C
  <2>3. PushLimit(U).op = C.op
    BY <2>1, <2>2, OneField DEF C
  <2> QED BY <1>2, <2>3
<1> QED
  BY <1>1, <1>2

\* What a pass puts in place of a node is of another type, or has its children.
LEMMA ChildrenStay ==
    ASSUME NEW h, WellFormed(h), NEW a \in 1..Len(h), NEW pass, NEW required,
           Rewritten(pass, Unfold(h, a), required).op = Unfold(h, a).op
    PROVE  Children(Rewritten(pass, Unfold(h, a), required)) = Children(Unfold(h, a))
<1> DEFINE U == Unfold(h, a)
           T == Rewritten(pass, U, required)
<1>0. IsNode(U) /\ U.op = h[a].op
  BY UnfoldFacts
<1>1. CASE pass = "fold"
  <2>1. Replaces(Folded(U), U) /\ T = rewriteNodeExprs(U, Folded(U))
    BY <1>1 DEF Replaces, Folded, Rewritten
  <2> HIDE DEF U, T
  <2> QED BY <1>0, <2>1, RewriteFacts DEF U, T
<1>2. CASE pass = "simplify"
  <2>1. Replaces(Simplified(U), U) /\ T = rewriteNodeExprs(U, Simplified(U))
    BY <1>2 DEF Replaces, Simplified, Rewritten
  <2> HIDE DEF U, T
  <2> QED BY <1>0, <2>1, RewriteFacts DEF U, T
<1>3. CASE pass = "predicates" /\ U.op = "filter"
  <2>1. T = PushFilter(U)
    BY <1>3 DEF Rewritten
  <2>2. IsNode(U.child)
    BY <1>0, <1>3, FirstChild, UnfoldFacts
  <2>3. FilterGoes(U.child, U.predicate) \notin {"left", "right"}
    <3> HIDE DEF U, T
    <3> QED BY <1>3, <2>1, <2>2, FilterStays DEF T, U
  <2> QED BY <2>1, <2>3 DEF PushFilter
<1>4. CASE pass = "projections" /\ U.op = "scan"
  <2>1. T = ProjectScan(U, required)
    BY <1>4 DEF Rewritten
  <2> HIDE DEF U, T
  <2>2. T.op = "scan"
    BY <1>0, <1>4, <2>1, ProjectScanNode
  <2>3. Children(T) = <<>> /\ Children(U) = <<>>
    BY <1>4, <2>2 DEF Children
  <2> QED BY <2>3 DEF U, T
<1>5. CASE pass = "limits" /\ U.op = "limit"
  <2>1. T = PushLimit(U)
    BY <1>5 DEF Rewritten
  <2>2. IsNode(U.child)
    BY <1>0, <1>5, FirstChild, UnfoldFacts
  <2>3. U.child.op \notin {"select", "withcol", "scan"}
    <3> HIDE DEF U, T
    <3> QED BY <1>5, <2>1, <2>2, LimitStays DEF T, U
  <2> QED BY <2>1, <2>3 DEF PushLimit
<1>6. CASE /\ pass \notin {"fold", "simplify"} /\ ~(pass = "predicates" /\ U.op = "filter")
           /\ ~(pass = "projections" /\ U.op = "scan") /\ ~(pass = "limits" /\ U.op = "limit")
  BY <1>6 DEF Rewritten
<1> QED
  BY <1>1, <1>2, <1>3, <1>4, <1>5, <1>6

\* A node whose tree the pass leaves alone is returned as it is.
LEMMA UnchangedAt ==
    ASSUME NEW h, WellFormed(h), NEW a \in 1..Len(h), NEW pass, NEW required,
           Rewritten(pass, Unfold(h, a), required) = Unfold(h, a)
    PROVE  RewrittenAt(pass, h, a, required) = At(h, a)
<1> DEFINE n == h[a]
           U == Unfold(h, a)
<1>1. IsNode(n) /\ IsNode(U) /\ U.op = n.op /\ Data(U) = Data(n)
  BY UnfoldFacts
<1>2. Exprs(U) = Exprs(n)
  <2> HIDE DEF n, U
  <2> QED BY <1>1, SameExprs
<1>3. CASE pass = "fold"
  <2>1. Replaces(Folded(U), U) /\ U = rewriteNodeExprs(U, Folded(U)) /\ Folded(U) = Folded(n)
    BY <1>2, <1>3 DEF Replaces, Folded, Rewritten
  <2>2. Exprs(n) = Folded(n)
    <3> HIDE DEF n, U
    <3> QED BY <1>1, <1>2, <2>1, RewriteFacts
  <2> QED BY <1>3, <2>2 DEF RewrittenAt, WithExprs
<1>4. CASE pass = "simplify"
  <2>1. /\ Replaces(Simplified(U), U) /\ U = rewriteNodeExprs(U, Simplified(U))
        /\ Simplified(U) = Simplified(n)
    BY <1>2, <1>4 DEF Replaces, Simplified, Rewritten
  <2>2. Exprs(n) = Simplified(n)
    <3> HIDE DEF n, U
    <3> QED BY <1>1, <1>2, <2>1, RewriteFacts
  <2> QED BY <1>4, <2>2 DEF RewrittenAt, WithExprs
<1>5. CASE pass = "predicates" /\ n.op = "filter"
  <2>1. U = PushFilter(U)
    BY <1>1, <1>5 DEF Rewritten
  <2>2. U.child = Unfold(h, n.child) /\ IsNode(U.child)
    BY <1>5, FirstChild, UnfoldFacts
  <2>3. U.predicate = n.predicate
    <3>1. "predicate" \in Fields[n.op] \ Links
      BY <1>5 DEF Fields, Links
    <3> HIDE DEF n, U
    <3> QED BY <1>1, <3>1, DataTells
  <2>4. FilterGoes(U.child, U.predicate) \notin {"left", "right"}
    <3> HIDE DEF n, U
    <3> QED BY <1>1, <1>5, <2>1, <2>2, FilterStays
  <2> QED BY <1>5, <2>2, <2>3, <2>4 DEF RewrittenAt, PushFilterAt
<1>6. CASE pass = "projections" /\ n.op = "scan"
  <2>1. U = n
    BY <1>6, ScanTree
  <2>2. ProjectScan(n, required) = n
    BY <1>6, <2>1 DEF Rewritten
  <2> QED BY <1>6, <2>2 DEF RewrittenAt, ProjectScanAt
<1>7. CASE pass = "limits" /\ n.op = "limit"
  <2>1. U = PushLimit(U)
    BY <1>1, <1>7 DEF Rewritten
  <2>2. IsNode(U.child) /\ U.child.op = h[n.child].op
    BY <1>7, FirstChild, UnfoldFacts
  <2>3. U.child.op \notin {"select", "withcol", "scan"}
    <3> HIDE DEF n, U
    <3> QED BY <1>1, <1>7, <2>1, <2>2, LimitStays
  <2> QED BY <1>7, <2>2, <2>3 DEF RewrittenAt, PushLimitAt
<1>8. CASE /\ pass \notin {"fold", "simplify"} /\ ~(pass = "predicates" /\ n.op = "filter")
           /\ ~(pass = "projections" /\ n.op = "scan") /\ ~(pass = "limits" /\ n.op = "limit")
  BY <1>8 DEF RewrittenAt
<1> QED
  BY <1>3, <1>4, <1>5, <1>6, <1>7, <1>8

-----------------------------------------------------------------------------
\* The calls of a pass: a path from the plan down, at each node as many children done as
\* the call has results, and a child whose tree came out the same came out as the same node.

Fit(h, c) ==
    /\ c = [at |-> c.at, required |-> c.required, kids |-> c.kids]
    /\ c.at \in 1..Len(h) /\ IsSeq(c.kids) /\ Len(c.kids) <= Len(Children(h[c.at]))
    /\ \A k \in 1..Len(c.kids) :
          /\ c.kids[k] \in 1..Len(h)
          /\ Unfold(h, c.kids[k]) = Unfold(h, Children(h[c.at])[k])
                => c.kids[k] = Children(h[c.at])[k]

\* The call d is on the next child of c's node.
Chained(h, c, d) ==
    /\ Len(c.kids) < Len(Children(h[c.at]))
    /\ d.at = Children(h[c.at])[Len(c.kids) + 1]

CallsFit(h, cs, plan) ==
    /\ IsSeq(cs)
    /\ \A x \in 1..Len(cs) : Fit(h, cs[x])
    /\ \A x \in 1..Len(cs) - 1 : Chained(h, cs[x], cs[x + 1])
    /\ cs # <<>> => cs[1].at = plan

Working == pc \in DOMAIN Following \cup {"compare"}

FramesFit ==
    /\ IsSeq(frames) /\ Len(frames) \in 1..MaxFrames
    /\ \A f \in 1..Len(frames) : frames[f] \in 0..Len(heap)

OptimizeFits ==
    /\ pc \in DOMAIN Following \cup {"idle", "compare", "optimized", "drawing"}
    /\ current \in 0..Len(heap) /\ next \in 0..Len(heap) /\ iter \in 0..MaxRounds
    /\ Working => current # 0 /\ next # 0 /\ iter < MaxRounds
    /\ calls # <<>> => pc \in DOMAIN Following

\* Nothing is drawn but by explain(), and then what PlanGraphProofs says holds.
Drawing ==
    /\ pc # "drawing" => Blank
    /\ Typed /\ Path /\ LinesExact /\ Edges

IInv ==
    /\ WellFormed(heap)
    /\ FramesFit
    /\ OptimizeFits
    /\ CallsFit(heap, calls, next)
    /\ Drawing

-----------------------------------------------------------------------------
\* Heaps that grow, or lose what is above the frames, keep what was below.

LEMMA Cut ==
    ASSUME NEW h, WellFormed(h), NEW n \in 0..Len(h)
    PROVE  /\ WellFormed(SubSeq(h, 1, n)) /\ Len(SubSeq(h, 1, n)) = n
           /\ Extends(SubSeq(h, 1, n), h)
<1> DEFINE g == SubSeq(h, 1, n)
<1>1. IsSeq(g) /\ Len(g) = n /\ \A x \in 1..n : g[x] = h[x]
  BY Fronted DEF WellFormed
<1>2. Len(h) \in Nat
  BY SeqFacts DEF WellFormed
<1> HIDE DEF g
<1>3. \A a \in 1..Len(g) : a \in 1..Len(h) /\ g[a] = h[a]
  BY <1>1, <1>2
<1>4. WellFormed(g)
  BY <1>1, <1>3 DEF WellFormed
<1>5. Extends(g, h)
  BY <1>1, <1>2, <1>3 DEF Extends
<1> QED
  BY <1>1, <1>4, <1>5 DEF g

LEMMA ChildAddresses ==
    ASSUME NEW h, WellFormed(h), NEW a \in 1..Len(h)
    PROVE  /\ IsSeq(Children(h[a])) /\ Len(Children(h[a])) \in 0..2
           /\ \A k \in 1..Len(Children(h[a])) : Children(h[a])[k] \in 1..Len(h)
<1> DEFINE c == Children(h[a])
<1>1. IsSeq(c) /\ Len(c) \in 0..2
  BY ChildrenFacts DEF WellFormed
<1>2. \A k \in 1..Len(c) : c[k] \in 1..a - 1
  BY DEF WellFormed
<1>3. Len(h) \in Nat
  BY SeqFacts DEF WellFormed
<1> HIDE DEF c
<1>4. \A k \in 1..Len(c) : c[k] \in 1..Len(h)
  BY <1>2, <1>3
<1> QED
  BY <1>1, <1>4 DEF c

LEMMA FitExtends ==
    ASSUME NEW h, WellFormed(h), NEW g, WellFormed(g), Extends(h, g), NEW c, Fit(h, c)
    PROVE  Fit(g, c) /\ g[c.at] = h[c.at]
<1> DEFINE s == Children(h[c.at])
<1>1. g[c.at] = h[c.at] /\ c.at \in 1..Len(g)
  <2>1. Len(h) \in Nat /\ Len(g) \in Nat
    BY SeqFacts DEF WellFormed
  <2> QED BY <2>1 DEF Fit, Extends
<1>2. \A x \in 1..Len(h) : x \in 1..Len(g) /\ Unfold(g, x) = Unfold(h, x)
  <2>1. Len(h) \in Nat /\ Len(g) \in Nat
    BY SeqFacts DEF WellFormed
  <2>2. \A x \in 1..Len(h) : x \in 0..Len(h) /\ x \in 1..Len(g)
    BY <2>1 DEF Extends
  <2> QED BY <2>2, UnfoldExtends
<1>3. IsSeq(s) /\ Len(s) \in 0..2 /\ \A k \in 1..Len(s) : s[k] \in 1..Len(h)
  BY ChildAddresses DEF Fit
<1>4. IsSeq(c.kids) /\ Len(c.kids) <= Len(s)
  BY DEF Fit
<1>5. \A k \in 1..Len(c.kids) : k \in 1..Len(s)
  <2> HIDE DEF s
  <2>1. Len(c.kids) \in Nat
    BY <1>4, SeqFacts
  <2> QED BY <1>3, <1>4, <2>1
<1>6. \A k \in 1..Len(c.kids) :
         /\ c.kids[k] \in 1..Len(g)
         /\ Unfold(g, c.kids[k]) = Unfold(g, s[k]) => c.kids[k] = s[k]
  <2> SUFFICES ASSUME NEW k \in 1..Len(c.kids)
               PROVE  /\ c.kids[k] \in 1..Len(g)
                      /\ Unfold(g, c.kids[k]) = Unfold(g, s[k]) => c.kids[k] = s[k]
    OBVIOUS
  <2>1. c.kids[k] \in 1..Len(h) /\ (Unfold(h, c.kids[k]) = Unfold(h, s[k]) => c.kids[k] = s[k])
    BY DEF Fit
  <2>2. s[k] \in 1..Len(h)
    BY <1>3, <1>5
  <2> HIDE DEF s
  <2> QED BY <1>2, <2>1, <2>2
<1> QED
  BY <1>1, <1>6 DEF Fit

LEMMA CallsFitExtends ==
    ASSUME NEW h, WellFormed(h), NEW g, WellFormed(g), Extends(h, g),
           NEW cs, NEW plan, CallsFit(h, cs, plan)
    PROVE  CallsFit(g, cs, plan)
<1>1. \A x \in 1..Len(cs) : Fit(g, cs[x]) /\ g[cs[x].at] = h[cs[x].at]
  BY FitExtends DEF CallsFit
<1>2. Len(cs) \in Nat
  BY SeqFacts DEF CallsFit
<1>3. \A x \in 1..Len(cs) - 1 : x \in 1..Len(cs)
  BY <1>2
<1>4. \A x \in 1..Len(cs) - 1 : Chained(g, cs[x], cs[x + 1])
  BY <1>1, <1>3 DEF CallsFit, Chained
<1> QED
  BY <1>1, <1>4 DEF CallsFit

\* A call on the next child.
LEMMA CallsFitMore ==
    ASSUME NEW h, WellFormed(h), NEW cs, NEW plan, CallsFit(h, cs, plan), cs # <<>>,
           NEW d, Fit(h, d), Chained(h, cs[Len(cs)], d)
    PROVE  CallsFit(h, Append(cs, d), plan)
<1> DEFINE L  == Len(cs)
           ds == Append(cs, d)
<1>1. L \in Nat /\ L # 0
  BY SeqFacts DEF CallsFit
<1>2. IsSeq(ds) /\ Len(ds) = L + 1 /\ ds[L + 1] = d /\ \A x \in 1..L : ds[x] = cs[x]
  BY Appended DEF CallsFit
<1> HIDE DEF ds
<1>3. ds # <<>> /\ ds[1].at = plan
  <2>1. ds # <<>>
    BY <1>1, <1>2, SeqFacts
  <2>2. 1 \in 1..L
    BY <1>1
  <2> QED BY <1>2, <2>1, <2>2 DEF CallsFit
<1>4. \A x \in 1..Len(ds) : Fit(h, ds[x])
  <2>1. \A x \in 1..Len(ds) : x \in 1..L \/ x = L + 1
    BY <1>1, <1>2
  <2> QED BY <1>2, <2>1 DEF CallsFit
<1>5. \A x \in 1..Len(ds) - 1 : Chained(h, ds[x], ds[x + 1])
  <2> SUFFICES ASSUME NEW x \in 1..Len(ds) - 1 PROVE Chained(h, ds[x], ds[x + 1])
    OBVIOUS
  <2>1. x \in 1..L /\ (x = L \/ (x \in 1..L - 1 /\ x + 1 \in 1..L))
    BY <1>1, <1>2
  <2>2. CASE x = L
    BY <1>2, <2>1, <2>2
  <2>3. CASE x \in 1..L - 1 /\ x + 1 \in 1..L
    BY <1>2, <2>1, <2>3 DEF CallsFit
  <2> QED BY <2>1, <2>2, <2>3
<1> QED
  BY <1>2, <1>3, <1>4, <1>5 DEF CallsFit, ds

\* The trees that a call and its results are.
Tree(h, c) == [tree |-> Unfold(h, c.at), required |-> c.required, kids |-> Unfolded(h, c.kids)]

\* What a call returns when its node's children are done.
Returned(pass, h, c) ==
    LET here == WithKids(h, c.at, c.kids) IN RewrittenAt(pass, here.heap, here.at, c.required)

\* It is the tree that the pass makes of the call's tree, and, if that is the call's tree, it
\* is the call's node.
LEMMA CallReturns ==
    ASSUME NEW h, WellFormed(h), NEW c, Fit(h, c), Len(c.kids) = Len(Children(h[c.at])), NEW pass
    PROVE  LET t == Rewritten(pass, mapChildren(Unfold(h, c.at), Unfolded(h, c.kids)), c.required)
               r == Returned(pass, h, c)
           IN  /\ Makes(h, r, t)
               /\ t = Unfold(h, c.at) => r.at = c.at
<1> DEFINE a    == c.at
           kids == c.kids
           U    == Unfold(h, a)
           v    == Unfolded(h, kids)
           M    == mapChildren(U, v)
           here == WithKids(h, a, kids)
           t    == Rewritten(pass, M, c.required)
           r    == Returned(pass, h, c)
           s    == Children(h[a])
<1>1. /\ a \in 1..Len(h) /\ IsSeq(kids) /\ Len(kids) = Len(s)
      /\ \A k \in 1..Len(kids) : /\ kids[k] \in 1..Len(h)
                                 /\ Unfold(h, kids[k]) = Unfold(h, s[k]) => kids[k] = s[k]
  BY DEF Fit
<1>2. r = RewrittenAt(pass, here.heap, here.at, c.required)
  BY DEF Returned
<1>3. Makes(h, here, M)
  <2>1. Fits(h[a], kids)
    BY <1>1 DEF Fits
  <2> HIDE DEF a, kids, s
  <2> QED BY <1>1, <2>1, WithKidsMakes DEF s
<1> DEFINE g == here.heap
           b == here.at
<1>4. WellFormed(g) /\ Extends(h, g) /\ b \in 1..Len(g) /\ Unfold(g, b) = M
  BY <1>3 DEF Makes
<1> HIDE DEF here, g, b
<1>5. Makes(g, r, t)
  <2>1. Makes(g, RewrittenAt(pass, g, b, c.required), Rewritten(pass, Unfold(g, b), c.required))
    BY <1>4, RewrittenMakes
  <2> QED BY <1>2, <1>4, <2>1 DEF g, b
<1>6. Makes(h, r, t)
  <2> HIDE DEF r, t
  <2> QED BY <1>4, <1>5, MakesTransitive
<1>7. ASSUME t = U PROVE r.at = a
  <2>1. IsNode(h[a]) /\ IsNode(U) /\ U.op = h[a].op /\ Children(U) = Unfolded(h, s)
    BY <1>1, UnfoldFacts
  <2>2. IsSeq(v) /\ Len(v) = Len(s) /\ \A k \in 1..Len(s) : v[k] = Unfold(h, kids[k])
    <3> HIDE DEF kids
    <3> QED BY <1>1, UnfoldedFacts
  <2>3. IsSeq(s) /\ Len(s) \in Nat
    BY <2>1, ChildrenFacts
  <2>4. /\ IsSeq(Children(U)) /\ Len(Children(U)) = Len(s)
        /\ \A k \in 1..Len(s) : Children(U)[k] = Unfold(h, s[k])
    <3> HIDE DEF s, U
    <3> QED BY <2>1, <2>3, UnfoldedFacts
  <2>5. IsNode(M) /\ M.op = U.op /\ Children(M) = v
    <3>1. Fits(U, v)
      BY <2>2, <2>4 DEF Fits
    <3> HIDE DEF U, v
    <3> QED BY <2>1, <3>1, MapChildrenFacts
  <2>6. Children(t) = Children(M)
    <3>1. Rewritten(pass, Unfold(g, b), c.required).op = Unfold(g, b).op
      BY <1>4, <1>7, <2>5
    <3>2. Children(Rewritten(pass, Unfold(g, b), c.required)) = Children(Unfold(g, b))
      BY <1>4, <3>1, ChildrenStay
    <3> QED BY <1>4, <3>2
  <2>7. kids = s
    <3>1. \A k \in 1..Len(s) : v[k] = Children(U)[k]
      BY <1>7, <2>5, <2>6
    <3> HIDE DEF t, M, U, v, s, kids, a
    <3>2. \A k \in 1..Len(s) : kids[k] = s[k]
      BY <1>1, <2>2, <2>4, <3>1
    <3> QED BY <1>1, <2>3, <3>2, SameSeq
  <2>8. here = At(h, a)
    BY <2>7 DEF here, WithKids
  <2>9. g = h /\ b = a
    BY <2>8 DEF g, b, At
  <2>10. M = U
    BY <1>4, <2>9
  <2>11. Rewritten(pass, Unfold(h, a), c.required) = Unfold(h, a)
    BY <1>7, <2>10
  <2>12. RewrittenAt(pass, h, a, c.required) = At(h, a)
    <3> HIDE DEF a
    <3> QED BY <1>1, <2>11, UnchangedAt
  <2>13. r = At(h, a)
    BY <1>2, <2>9, <2>12 DEF g, b
  <2> QED BY <2>13 DEF At
<1> QED
  BY <1>6, <1>7

LEMMA KidsPut ==
    ASSUME NEW c, c = [at |-> c.at, required |-> c.required, kids |-> c.kids], NEW x
    PROVE  [c EXCEPT !.kids = x] = [at |-> c.at, required |-> c.required, kids |-> x]
<1> DEFINE a == c.at
           r == c.required
           k == c.kids
<1>1. c = [at |-> a, required |-> r, kids |-> k]
  OBVIOUS
<1> HIDE DEF a, r, k
<1>2. [c EXCEPT !.kids = x] = [at |-> a, required |-> r, kids |-> x]
  BY <1>1
<1> QED
  BY <1>2 DEF a, r

\* The call's result goes to its caller.
LEMMA CallsFitLess ==
    ASSUME NEW h, WellFormed(h), NEW cs, NEW plan, CallsFit(h, cs, plan), Front(cs) # <<>>,
           NEW g, WellFormed(g), Extends(h, g), NEW b \in 1..Len(g),
           cs # <<>>, Unfold(g, b) = Unfold(h, Last(cs).at) => b = Last(cs).at
    PROVE  CallsFit(g, [Front(cs) EXCEPT ![Len(Front(cs))].kids = Append(@, b)], plan)
<1> DEFINE n  == Len(cs) - 1
           B  == Front(cs)
           u  == cs[n]
           w  == [at |-> u.at, required |-> u.required, kids |-> Append(u.kids, b)]
           ds == Put(B, n, w)
           s  == Children(h[u.at])
           K  == Len(u.kids) + 1
<1>1. IsSeq(cs) /\ Len(cs) \in Nat /\ Len(cs) # 0
  BY SeqFacts DEF CallsFit
<1>2. IsSeq(B) /\ Len(B) = n /\ (\A x \in 1..n : B[x] = cs[x]) /\ n \in Nat
  <2>1. n \in 0..Len(cs) /\ n \in Nat
    BY <1>1
  <2>2. B = SubSeq(cs, 1, n)
    BY DEF Front
  <2> HIDE DEF n, B
  <2> QED BY <1>1, <2>1, <2>2, Fronted
<1>3. n # 0
  <2> HIDE DEF n
  <2> QED BY <1>2, SeqFacts DEF B
<1>4. n \in 1..n /\ n \in 1..Len(cs) /\ n \in 1..Len(cs) - 1 /\ n + 1 = Len(cs)
  BY <1>1, <1>2, <1>3
<1>5. Last(cs) = cs[n + 1]
  BY <1>4 DEF Last
<1>6. Fit(h, u) /\ Chained(h, u, cs[n + 1])
  BY <1>4 DEF CallsFit
<1>7. /\ u = [at |-> u.at, required |-> u.required, kids |-> u.kids]
      /\ IsSeq(u.kids) /\ Len(u.kids) \in Nat /\ u.at \in 1..Len(h)
  BY <1>6, SeqFacts DEF Fit
<1>8. [B EXCEPT ![Len(B)].kids = Append(@, b)] = ds
  <2>1. B[n] = u
    BY <1>2, <1>4
  <2>2. [u EXCEPT !.kids = Append(u.kids, b)] = w
    <3> DEFINE x == Append(u.kids, b)
    <3> HIDE DEF u, x
    <3>1. [u EXCEPT !.kids = x] = [at |-> u.at, required |-> u.required, kids |-> x]
      BY <1>7, KidsPut
    <3> QED BY <3>1 DEF x
  <2> HIDE DEF u, w
  <2>3. [B EXCEPT ![Len(B)].kids = Append(@, b)] = [B EXCEPT ![n] = [u EXCEPT !.kids = Append(u.kids, b)]]
    <3> HIDE DEF n, B
    <3> QED BY <1>2, <2>1
  <2> QED BY <2>2, <2>3 DEF Put
<1>9. /\ w = [at |-> w.at, required |-> w.required, kids |-> w.kids]
      /\ w.at = u.at /\ w.kids = Append(u.kids, b)
  OBVIOUS
<1>10. /\ IsSeq(w.kids) /\ Len(w.kids) = K /\ w.kids[K] = b
       /\ \A k \in 1..K - 1 : w.kids[k] = u.kids[k]
  <2> DEFINE q == u.kids
  <2>1. IsSeq(q) /\ w.kids = Append(q, b) /\ K = Len(q) + 1 /\ Len(q) \in Nat
    BY <1>7, <1>9
  <2> HIDE DEF q, w
  <2>2. K - 1 = Len(q)
    BY <2>1
  <2> QED BY <2>1, <2>2, Appended DEF q
<1> HIDE DEF w
<1>11. Fit(g, u) /\ g[u.at] = h[u.at]
  BY <1>6, FitExtends
<1>12. IsSeq(s) /\ Len(s) \in 0..2 /\ \A k \in 1..Len(s) : s[k] \in 1..Len(h)
  BY <1>7, ChildAddresses
<1>13. K \in 1..Len(s) /\ K <= Len(s) /\ cs[n + 1].at = s[K]
  <2>1. Len(u.kids) < Len(s) /\ cs[n + 1].at = s[K]
    BY <1>6 DEF Chained
  <2> HIDE DEF s
  <2> QED BY <1>7, <1>12, <2>1
<1>14. Unfold(g, b) = Unfold(g, s[K]) => b = s[K]
  <2>1. s[K] \in 0..Len(h)
    <3>1. s[K] \in 1..Len(h) /\ Len(h) \in Nat
      BY <1>12, <1>13, SeqFacts DEF WellFormed
    <3> HIDE DEF s
    <3> QED BY <3>1
  <2>2. Unfold(g, s[K]) = Unfold(h, s[K])
    <3> HIDE DEF s
    <3> QED BY <2>1, UnfoldExtends
  <2> HIDE DEF s, K, n
  <2> QED BY <1>5, <1>13, <2>2
<1>15. Fit(g, w)
  <2>1. \A k \in 1..K : k \in 1..Len(u.kids) \/ k = K
    BY <1>7
  <2>2. \A k \in 1..Len(u.kids) : w.kids[k] = u.kids[k]
    BY <1>7, <1>10
  <2>3. \A k \in 1..Len(u.kids) : u.kids[k] \in 1..Len(g) /\ (Unfold(g, u.kids[k]) = Unfold(g, s[k]) => u.kids[k] = s[k])
    BY <1>11 DEF Fit
  <2>4. w.at \in 1..Len(g) /\ Children(g[w.at]) = s
    BY <1>9, <1>11 DEF Fit
  <2> HIDE DEF s, K, u
  <2>5. \A k \in 1..Len(w.kids) :
          /\ w.kids[k] \in 1..Len(g)
          /\ Unfold(g, w.kids[k]) = Unfold(g, Children(g[w.at])[k]) => w.kids[k] = Children(g[w.at])[k]
    <3> SUFFICES ASSUME NEW k \in 1..K
                 PROVE  /\ w.kids[k] \in 1..Len(g)
                        /\ Unfold(g, w.kids[k]) = Unfold(g, s[k]) => w.kids[k] = s[k]
      BY <1>10, <2>4
    <3>1. CASE k \in 1..Len(u.kids)
      BY <2>2, <2>3, <3>1
    <3>2. CASE k = K
      BY <1>10, <1>14, <3>2
    <3> QED BY <2>1, <3>1, <3>2
  <2> QED BY <1>9, <1>10, <1>13, <2>4, <2>5 DEF Fit
<1>16. IsSeq(ds) /\ Len(ds) = n /\ ds[n] = w /\ \A x \in 1..n : x # n => ds[x] = cs[x]
  <2> HIDE DEF B, n, w
  <2> QED BY <1>2, <1>4, Replaced
<1>17. CallsFit(g, cs, plan)
  BY CallsFitExtends
<1> HIDE DEF ds, u, s, K
<1>18. \A x \in 1..Len(ds) : Fit(g, ds[x]) /\ ds[x].at = cs[x].at
  <2>1. \A x \in 1..n : x \in 1..Len(cs)
    BY <1>1
  <2> HIDE DEF n
  <2> QED BY <1>9, <1>15, <1>16, <1>17, <2>1 DEF CallsFit, u
<1>19. \A x \in 1..Len(ds) - 1 : Chained(g, ds[x], ds[x + 1])
  <2>1. \A x \in 1..n - 1 : x \in 1..n /\ x # n /\ x + 1 \in 1..n /\ x \in 1..Len(cs) - 1
    BY <1>1, <1>2
  <2> HIDE DEF n
  <2> QED BY <1>16, <1>17, <1>18, <2>1 DEF CallsFit, Chained
<1>20. ds # <<>> => ds[1].at = plan
  <2>1. 1 \in 1..n
    BY <1>2, <1>3
  <2> HIDE DEF n
  <2> QED BY <1>16, <1>18, <2>1 DEF CallsFit
<1> QED
  BY <1>8, <1>16, <1>18, <1>19, <1>20 DEF CallsFit

\* The trees of the calls follow the calls.
Treed(h, cs) == [x \in DOMAIN cs |-> Tree(h, cs[x])]

LEMMA TreedFacts ==
    ASSUME NEW h, NEW cs, IsSeq(cs)
    PROVE  /\ IsSeq(Treed(h, cs)) /\ Len(Treed(h, cs)) = Len(cs)
           /\ \A x \in 1..Len(cs) : Treed(h, cs)[x] = Tree(h, cs[x])
<1> DEFINE u == Treed(h, cs)
<1>1. Len(cs) \in Nat /\ DOMAIN cs = 1..Len(cs)
  BY SeqFacts
<1>2. u = [x \in 1..Len(cs) |-> Tree(h, cs[x])]
  BY <1>1 DEF Treed
<1> HIDE DEF u
<1>3. \A x \in 1..Len(cs) : u[x] = Tree(h, cs[x])
  BY <1>2
<1>4. u = [x \in 1..Len(cs) |-> u[x]]
  BY <1>2, <1>3
<1>5. IsSeq(u) /\ Len(u) = Len(cs)
  BY <1>1, <1>4, MadeSeq
<1> QED
  BY <1>3, <1>5 DEF u

LEMMA TreeExtends ==
    ASSUME NEW h, WellFormed(h), NEW g, WellFormed(g), Extends(h, g), NEW c, Fit(h, c)
    PROVE  Tree(g, c) = Tree(h, c)
<1>1. Len(h) \in Nat
  BY SeqFacts DEF WellFormed
<1>2. c.at \in 0..Len(h) /\ IsSeq(c.kids) /\ \A k \in 1..Len(c.kids) : c.kids[k] \in 0..Len(h)
  BY <1>1 DEF Fit
<1>3. Unfold(g, c.at) = Unfold(h, c.at)
  BY <1>2, UnfoldExtends
<1>4. Unfolded(g, c.kids) = Unfolded(h, c.kids)
  <2> DEFINE s == c.kids
  <2>1. IsSeq(s) /\ \A k \in 1..Len(s) : s[k] \in 0..Len(h)
    BY <1>2
  <2> HIDE DEF s
  <2>2. Unfolded(g, s) = Unfolded(h, s)
    BY <2>1, UnfoldedExtends
  <2> QED BY <2>2 DEF s
<1> QED
  BY <1>3, <1>4 DEF Tree

LEMMA TreedExtends ==
    ASSUME NEW h, WellFormed(h), NEW g, WellFormed(g), Extends(h, g),
           NEW cs, NEW plan, CallsFit(h, cs, plan)
    PROVE  Treed(g, cs) = Treed(h, cs)
<1>1. DOMAIN cs = 1..Len(cs)
  BY SeqFacts DEF CallsFit
<1>2. \A x \in DOMAIN cs : Tree(g, cs[x]) = Tree(h, cs[x])
  BY <1>1, TreeExtends DEF CallsFit
<1> QED
  BY <1>2 DEF Treed

LEMMA TreedMore ==
    ASSUME NEW h, NEW cs, IsSeq(cs), NEW d
    PROVE  Treed(h, Append(cs, d)) = Append(Treed(h, cs), Tree(h, d))
<1> DEFINE L == Len(cs)
           t == Treed(h, cs)
           e == Tree(h, d)
           ds == Append(cs, d)
<1>1. L \in Nat
  BY SeqFacts
<1>2. IsSeq(t) /\ Len(t) = L /\ \A x \in 1..L : t[x] = Tree(h, cs[x])
  BY TreedFacts
<1>3. IsSeq(ds) /\ Len(ds) = L + 1 /\ ds[L + 1] = d /\ \A x \in 1..L : ds[x] = cs[x]
  BY Appended
<1> HIDE DEF t, e, ds
<1>4. /\ IsSeq(Append(t, e)) /\ Len(Append(t, e)) = L + 1 /\ Append(t, e)[L + 1] = e
      /\ \A x \in 1..L : Append(t, e)[x] = t[x]
  BY <1>2, Appended
<1>5. /\ IsSeq(Treed(h, ds)) /\ Len(Treed(h, ds)) = L + 1
      /\ \A x \in 1..L + 1 : Treed(h, ds)[x] = Tree(h, ds[x])
  BY <1>3, TreedFacts
<1>6. \A x \in 1..L + 1 : x \in 1..L \/ x = L + 1
  BY <1>1
<1>7. \A x \in 1..L + 1 : Treed(h, ds)[x] = Append(t, e)[x]
  BY <1>2, <1>3, <1>4, <1>5, <1>6 DEF e
<1>8. Treed(h, ds) = Append(t, e)
  BY <1>4, <1>5, <1>7, SameSeq
<1> QED
  BY <1>8 DEF t, e, ds

LEMMA UnfoldedMore ==
    ASSUME NEW h, NEW s, IsSeq(s), NEW b
    PROVE  Unfolded(h, Append(s, b)) = Append(Unfolded(h, s), Unfold(h, b))
<1> DEFINE L == Len(s)
           t == Unfolded(h, s)
           e == Unfold(h, b)
           r == Append(s, b)
<1>1. L \in Nat
  BY SeqFacts
<1>2. IsSeq(t) /\ Len(t) = L /\ \A x \in 1..L : t[x] = Unfold(h, s[x])
  BY UnfoldedFacts
<1>3. IsSeq(r) /\ Len(r) = L + 1 /\ r[L + 1] = b /\ \A x \in 1..L : r[x] = s[x]
  BY Appended
<1> HIDE DEF t, e, r
<1>4. /\ IsSeq(Append(t, e)) /\ Len(Append(t, e)) = L + 1 /\ Append(t, e)[L + 1] = e
      /\ \A x \in 1..L : Append(t, e)[x] = t[x]
  BY <1>2, Appended
<1>5. /\ IsSeq(Unfolded(h, r)) /\ Len(Unfolded(h, r)) = L + 1
      /\ \A x \in 1..L + 1 : Unfolded(h, r)[x] = Unfold(h, r[x])
  BY <1>3, UnfoldedFacts
<1>6. \A x \in 1..L + 1 : x \in 1..L \/ x = L + 1
  BY <1>1
<1>7. \A x \in 1..L + 1 : Unfolded(h, r)[x] = Append(t, e)[x]
  BY <1>2, <1>3, <1>4, <1>5, <1>6 DEF e
<1>8. Unfolded(h, r) = Append(t, e)
  BY <1>4, <1>5, <1>7, SameSeq
<1> QED
  BY <1>8 DEF t, e, r

\* With the innermost call gone, the trees are those of the calls below, and its result one
\* more of its caller's.
Grown(cs, x) == [cs EXCEPT ![Len(cs)].kids = Append(@, x)]

LEMMA TreedLess ==
    ASSUME NEW h, WellFormed(h), NEW cs, NEW plan, CallsFit(h, cs, plan), cs # <<>>,
           Front(cs) # <<>>, NEW g, WellFormed(g), Extends(h, g), NEW b
    PROVE  LET T == Treed(h, cs) IN
           Front(T) # <<>> /\ Treed(g, Grown(Front(cs), b)) = Grown(Front(T), Unfold(g, b))
<1> DEFINE n  == Len(cs) - 1
           B  == Front(cs)
           u  == cs[n]
           T  == Treed(h, cs)
           e  == Unfold(g, b)
           w  == [at |-> u.at, required |-> u.required, kids |-> Append(u.kids, b)]
           tu == Tree(h, u)
           tw == [tree |-> tu.tree, required |-> tu.required, kids |-> Append(tu.kids, e)]
<1>1. IsSeq(cs) /\ Len(cs) \in Nat /\ Len(cs) # 0
  BY SeqFacts DEF CallsFit
<1>2. n \in 0..Len(cs) /\ n \in Nat
  BY <1>1
<1>3. IsSeq(B) /\ Len(B) = n /\ \A x \in 1..n : B[x] = cs[x]
  <2>1. B = SubSeq(cs, 1, n)
    BY DEF Front
  <2> HIDE DEF n, B
  <2> QED BY <1>1, <1>2, <2>1, Fronted
<1>4. n # 0
  <2> HIDE DEF n
  <2> QED BY <1>3, SeqFacts DEF B
<1>5. n \in 1..n /\ n \in 1..Len(cs) /\ \A x \in 1..n : x \in 1..Len(cs)
  <2> HIDE DEF n
  <2> QED BY <1>1, <1>2, <1>4
<1>6. IsSeq(T) /\ Len(T) = Len(cs) /\ \A x \in 1..Len(cs) : T[x] = Tree(h, cs[x])
  BY <1>1, TreedFacts
<1>7. /\ IsSeq(Front(T)) /\ Len(Front(T)) = n
      /\ \A x \in 1..n : Front(T)[x] = Tree(h, cs[x])
  <2>1. Front(T) = SubSeq(T, 1, n)
    BY <1>6 DEF Front
  <2> HIDE DEF T, n
  <2>2. IsSeq(Front(T)) /\ Len(Front(T)) = n /\ \A x \in 1..n : Front(T)[x] = T[x]
    BY <1>2, <1>6, <2>1, Fronted
  <2> QED BY <1>5, <1>6, <2>2
<1>8. Front(T) # <<>>
  <2> HIDE DEF n, T
  <2> QED BY <1>4, <1>7, SeqFacts
<1>9. Fit(h, u) /\ \A x \in 1..n : Fit(h, cs[x])
  BY <1>5 DEF CallsFit
<1>10. [B EXCEPT ![Len(B)].kids = Append(@, b)] = Put(B, n, w)
  <2>1. B[n] = u
    BY <1>3, <1>5
  <2>2. [u EXCEPT !.kids = Append(u.kids, b)] = w
    <3> DEFINE x == Append(u.kids, b)
    <3>0. u = [at |-> u.at, required |-> u.required, kids |-> u.kids]
      BY <1>9 DEF Fit
    <3> HIDE DEF u, x
    <3>1. [u EXCEPT !.kids = x] = [at |-> u.at, required |-> u.required, kids |-> x]
      BY <3>0, KidsPut
    <3> QED BY <3>1 DEF x
  <2> HIDE DEF u, w
  <2>3. [B EXCEPT ![Len(B)].kids = Append(@, b)] = [B EXCEPT ![n] = [u EXCEPT !.kids = Append(u.kids, b)]]
    <3> HIDE DEF n, B
    <3> QED BY <1>3, <2>1
  <2> QED BY <2>2, <2>3 DEF Put
<1>11. [Front(T) EXCEPT ![Len(Front(T))].kids = Append(@, e)] = Put(Front(T), n, tw)
  <2>1. Front(T)[n] = tu
    BY <1>5, <1>7
  <2>2. [tu EXCEPT !.kids = Append(tu.kids, e)] = tw
    BY DEF Tree
  <2> HIDE DEF tu, tw
  <2>3. [Front(T) EXCEPT ![Len(Front(T))].kids = Append(@, e)]
           = [Front(T) EXCEPT ![n] = [tu EXCEPT !.kids = Append(tu.kids, e)]]
    <3> HIDE DEF n, T, e
    <3> QED BY <1>7, <2>1
  <2> QED BY <2>2, <2>3 DEF Put
<1>12. Tree(g, w) = tw
  <2>1. Tree(g, u) = Tree(h, u)
    BY <1>9, TreeExtends
  <2>2. Unfold(g, u.at) = tu.tree /\ Unfolded(g, u.kids) = tu.kids /\ tu.required = u.required
    BY <2>1 DEF Tree
  <2>3. Unfolded(g, Append(u.kids, b)) = Append(Unfolded(g, u.kids), e)
    <3> DEFINE q == u.kids
    <3>1. IsSeq(q)
      BY <1>9 DEF Fit
    <3> HIDE DEF q
    <3>2. Unfolded(g, Append(q, b)) = Append(Unfolded(g, q), Unfold(g, b))
      BY <3>1, UnfoldedMore
    <3> QED BY <3>2 DEF q
  <2>4. Tree(g, w) = [tree |-> Unfold(g, u.at), required |-> u.required,
                      kids |-> Unfolded(g, Append(u.kids, b))]
    BY DEF Tree
  <2> HIDE DEF tu, u, e, w
  <2> QED BY <2>2, <2>3, <2>4
<1> HIDE DEF B, n, w, tw, T, e, u, tu
<1>13. /\ IsSeq(Put(B, n, w)) /\ Len(Put(B, n, w)) = n /\ Put(B, n, w)[n] = w
       /\ \A x \in 1..n : x # n => Put(B, n, w)[x] = cs[x]
  BY <1>3, <1>5, Replaced
<1>14. /\ IsSeq(Put(Front(T), n, tw)) /\ Len(Put(Front(T), n, tw)) = n /\ Put(Front(T), n, tw)[n] = tw
       /\ \A x \in 1..n : x # n => Put(Front(T), n, tw)[x] = Tree(h, cs[x])
  BY <1>5, <1>7, Replaced
<1> DEFINE D == Put(B, n, w)
           E == Put(Front(T), n, tw)
<1>15. /\ IsSeq(Treed(g, D)) /\ Len(Treed(g, D)) = n
       /\ \A x \in 1..n : Treed(g, D)[x] = Tree(g, D[x])
  <2> HIDE DEF D
  <2> QED BY <1>13, TreedFacts DEF D
<1>16. \A x \in 1..n : Tree(g, cs[x]) = Tree(h, cs[x])
  BY <1>9, TreeExtends
<1>17. \A x \in 1..n : Treed(g, D)[x] = E[x]
  BY <1>12, <1>13, <1>14, <1>15, <1>16
<1> HIDE DEF D, E
<1>18. Treed(g, D) = E
  BY <1>14, <1>15, <1>17, SameSeq DEF E
<1>19. Grown(B, b) = D /\ Grown(Front(T), e) = E
  <2> HIDE DEF B, n, w, tw, T, e, u, tu
  <2> QED BY <1>10, <1>11 DEF Grown, D, E
<1> QED
  BY <1>8, <1>18, <1>19 DEF B, T, e

-----------------------------------------------------------------------------
\* The invariant holds at first, and each step keeps it.

LEMMA HeapIs == WellFormed(heap) => IsHeap
<1> SUFFICES ASSUME WellFormed(heap) PROVE IsHeap
  OBVIOUS
<1>1. heap \in Seq({heap[a] : a \in DOMAIN heap})
  BY DEF WellFormed, IsSeq
<1>2. \A a \in Addresses : \A k \in 1..Len(Kids(a)) : Kids(a)[k] \in 1..a - 1
  BY DEF WellFormed, Kids, Addresses
<1> QED
  BY <1>1, <1>2 DEF IsHeap

\* With nothing drawn.
LEMMA BlankDraws == WellFormed(heap) /\ Blank => Drawing
  BY HeapIs, TypedInit DEF DrawInit, Drawing

LEMMA NoElements == IsSeq(<<>>) /\ Len(<<>>) = 0 /\ 1..0 = {}
<1>1. 1..0 = {}
  OBVIOUS
<1> QED
  BY <1>1, PairFacts

LEMMA NoCalls == \A h, plan : CallsFit(h, <<>>, plan)
<1>1. IsSeq(<<>>) /\ Len(<<>>) = 0
  BY PairFacts
<1> QED
  BY <1>1 DEF CallsFit

LEMMA InitIInv == Init => IInv
<1> SUFFICES ASSUME Init PROVE IInv
  OBVIOUS
<1>1. WellFormed(heap) /\ Len(heap) = 0
  <2>1. heap = <<>>
    BY DEF Init
  <2> QED BY <2>1, NoElements DEF WellFormed
<1>2. FramesFit
  <2>1. IsSeq(<<0>>) /\ Len(<<0>>) = 1 /\ <<0>>[1] = 0
    BY PairFacts
  <2>2. 1 \in 1..MaxFrames
    BY MaxAssumption
  <2>3. \A f \in 1..1 : f = 1
    OBVIOUS
  <2> QED BY <1>1, <2>1, <2>2, <2>3 DEF Init, FramesFit
<1>3. OptimizeFits
  BY <1>1, MaxAssumption DEF Init, OptimizeFits, Working, Following
<1>4. CallsFit(heap, calls, next)
  BY NoCalls DEF Init
<1>5. Drawing
  BY <1>1, BlankDraws DEF Init
<1> QED
  BY <1>1, <1>2, <1>3, <1>4, <1>5 DEF IInv

\* A node made above nodes that are there, and a frame whose plan it is.
LEMMA ExtendFacts ==
    ASSUME IInv, NEW node, IsNode(node),
           \A k \in 1..Len(Children(node)) : Children(node)[k] \in 1..Len(heap), extend(node)
    PROVE  /\ WellFormed(heap') /\ Extends(heap, heap')
           /\ Unfold(heap', Len(heap) + 1) = mapChildren(node, Unfolded(heap, Children(node)))
           /\ IInv'
<1>0. /\ WellFormed(heap) /\ FramesFit /\ OptimizeFits /\ Drawing /\ pc = "idle"
      /\ Len(frames) < MaxFrames
      /\ heap' = Append(heap, node) /\ frames' = Append(frames, Len(heap) + 1)
      /\ UNCHANGED <<drawn, pc, current, next, iter, calls>>
  BY DEF IInv, extend
<1>1. Makes(heap, Alloc(heap, node), mapChildren(node, Unfolded(heap, Children(node))))
  BY <1>0, AllocMakes
<1>2. /\ WellFormed(heap') /\ Extends(heap, heap') /\ Len(heap) + 1 \in 1..Len(heap')
      /\ Unfold(heap', Len(heap) + 1) = mapChildren(node, Unfolded(heap, Children(node)))
  BY <1>0, <1>1 DEF Makes, Alloc, At
<1>3. Len(heap) \in Nat /\ Len(heap') \in Nat /\ Len(heap) <= Len(heap')
  BY <1>0, <1>2, SeqFacts DEF WellFormed, Extends
<1>4. FramesFit'
  <2>1. IsSeq(frames) /\ Len(frames) \in Nat
    BY <1>0, SeqFacts DEF FramesFit
  <2>2. /\ IsSeq(frames') /\ Len(frames') = Len(frames) + 1
        /\ frames'[Len(frames) + 1] = Len(heap) + 1
        /\ \A x \in 1..Len(frames) : frames'[x] = frames[x]
    BY <1>0, <2>1, Appended
  <2>3. Len(frames') \in 1..MaxFrames
    BY <1>0, <2>1, <2>2, MaxAssumption DEF FramesFit
  <2>4. \A f \in 1..Len(frames') : f \in 1..Len(frames) \/ f = Len(frames) + 1
    BY <2>1, <2>2
  <2>5. \A x \in 0..Len(heap) : x \in 0..Len(heap')
    BY <1>3
  <2>6. Len(heap) + 1 \in 0..Len(heap')
    BY <1>2, <1>3
  <2> QED BY <1>0, <2>2, <2>3, <2>4, <2>5, <2>6 DEF FramesFit
<1>5. OptimizeFits'
  <2>1. \A x \in 0..Len(heap) : x \in 0..Len(heap')
    BY <1>3
  <2> QED BY <1>0, <2>1 DEF OptimizeFits, Working
<1>6. calls' = <<>>
  BY <1>0 DEF OptimizeFits, Following
<1>7. CallsFit(heap', calls', next')
  BY <1>6, NoCalls
<1>8. Drawing'
  <2>1. (WellFormed(heap) /\ Blank => Drawing)'
    BY BlankDraws, PTL
  <2>2. Blank'
    BY <1>0 DEF Drawing, Blank, drawn
  <2> QED BY <1>2, <2>1, <2>2
<1> QED
  BY <1>2, <1>4, <1>5, <1>7, <1>8 DEF IInv

\* The calls make nodes, above the plans of frames.
LEMMA ScanNode ==
    ASSUME NEW p
    PROVE  IsNode(Scan(p)) /\ Len(Children(Scan(p))) = 0
  BY Made, PairFacts

LEMMA CallNode ==
    ASSUME NEW c \in Calls, NEW x
    PROVE  /\ IsNode([c EXCEPT !.child = x]) /\ Data([c EXCEPT !.child = x]) = Data(c)
           /\ Children([c EXCEPT !.child = x]) = <<x>>
<1>1. IsNode(c) /\ c.op \notin {"scan", "join"}
  BY CallsAssumption
<1>2. /\ IsNode([c EXCEPT !.child = x]) /\ Data([c EXCEPT !.child = x]) = Data(c)
      /\ Children([c EXCEPT !.child = x]) = [Children(c) EXCEPT ![1] = x]
  BY <1>1, OneChild
<1>3. Children(c) = <<c.child>>
  BY <1>1 DEF Children
<1>4. [<<c.child>> EXCEPT ![1] = x] = <<x>>
  OBVIOUS
<1> QED
  BY <1>2, <1>3, <1>4

LEMMA JoinNode ==
    ASSUME NEW j \in Joins, NEW x, NEW y
    PROVE  /\ IsNode([j EXCEPT !.child = x, !.right = y])
           /\ Data([j EXCEPT !.child = x, !.right = y]) = Data(j)
           /\ Children([j EXCEPT !.child = x, !.right = y]) = <<x, y>>
<1> DEFINE m == [j EXCEPT !.child = x]
           n == [m EXCEPT !.right = y]
<1>1. IsNode(j) /\ j.op = "join"
  BY CallsAssumption
<1>2. IsNode(m) /\ Data(m) = Data(j) /\ m.op = j.op /\ Children(m) = [Children(j) EXCEPT ![1] = x]
  BY <1>1, OneChild
<1>3. [j EXCEPT !.child = x, !.right = y] = n
  OBVIOUS
<1> HIDE DEF m
<1>4. IsNode(n) /\ Data(n) = Data(m) /\ Children(n) = [Children(m) EXCEPT ![2] = y]
  BY <1>1, <1>2, OtherChild
<1>5. Children(j) = <<j.child, j.right>>
  BY <1>1 DEF Children
<1>6. [[<<j.child, j.right>> EXCEPT ![1] = x] EXCEPT ![2] = y] = <<x, y>>
  OBVIOUS
<1> QED
  BY <1>2, <1>3, <1>4, <1>5, <1>6

\* Each makes the tree that its node is with the trees of the frames under it.
LEMMA ScanAbove ==
    ASSUME NEW p
    PROVE  /\ \A k \in 1..Len(Children(Scan(p))) : Children(Scan(p))[k] \in 1..Len(heap)
           /\ mapChildren(Scan(p), Unfolded(heap, Children(Scan(p)))) = Scan(p)
<1>1. \A k \in 1..Len(Children(Scan(p))) : Children(Scan(p))[k] \in 1..Len(heap)
  BY ScanNode, NoElements
<1>2. Scan(p).op = "scan"
  BY Made
<1> QED
  BY <1>1, <1>2 DEF mapChildren

LEMMA CallAbove ==
    ASSUME IInv, NEW c \in Calls, NEW f \in DOMAIN frames, frames[f] # 0
    PROVE  LET n == [c EXCEPT !.child = frames[f]] IN
           /\ IsNode(n) /\ \A k \in 1..Len(Children(n)) : Children(n)[k] \in 1..Len(heap)
           /\ mapChildren(n, Unfolded(heap, Children(n)))
                 = [c EXCEPT !.child = Unfold(heap, frames[f])]
<1> DEFINE x == frames[f]
           u == Unfold(heap, x)
           n == [c EXCEPT !.child = x]
           t == [c EXCEPT !.child = u]
<1>0. x \in 1..Len(heap)
  BY SeqFacts DEF IInv, FramesFit, WellFormed
<1> HIDE DEF x, u
<1>1. IsNode(n) /\ Data(n) = Data(c) /\ Children(n) = <<x>>
  BY CallNode
<1>2. IsNode(t) /\ Data(t) = Data(c) /\ Children(t) = <<u>>
  BY CallNode
<1> HIDE DEF n, t
<1>3. \A k \in 1..Len(Children(n)) : Children(n)[k] \in 1..Len(heap)
  <2>1. Len(<<x>>) = 1 /\ <<x>>[1] = x /\ \A k \in 1..1 : k = 1
    BY PairFacts
  <2> QED BY <1>0, <1>1, <2>1
<1>4. Unfolded(heap, Children(n)) = <<u>>
  BY <1>1, UnfoldedPair DEF u
<1>5. Fits(n, <<u>>)
  BY <1>1, PairFacts DEF Fits
<1>6. mapChildren(n, <<u>>) = t
  BY <1>1, <1>2, <1>5, MapChildrenFacts, SameNode
<1> QED
  BY <1>1, <1>3, <1>4, <1>6 DEF n, t, x, u

JoinOf(j, x, y) == [j EXCEPT !.child = x, !.right = y]

LEMMA JoinAbove ==
    ASSUME IInv, NEW j \in Joins, NEW f \in DOMAIN frames, NEW other \in DOMAIN frames,
           frames[f] # 0, frames[other] # 0
    PROVE  LET n == JoinOf(j, frames[f], frames[other]) IN
           /\ IsNode(n) /\ \A k \in 1..Len(Children(n)) : Children(n)[k] \in 1..Len(heap)
           /\ mapChildren(n, Unfolded(heap, Children(n)))
                 = JoinOf(j, Unfold(heap, frames[f]), Unfold(heap, frames[other]))
<1> DEFINE x == frames[f]
           y == frames[other]
           u == Unfold(heap, x)
           v == Unfold(heap, y)
           n == JoinOf(j, x, y)
           t == JoinOf(j, u, v)
<1>0. x \in 1..Len(heap) /\ y \in 1..Len(heap)
  BY SeqFacts DEF IInv, FramesFit, WellFormed
<1> HIDE DEF x, y, u, v
<1>1. IsNode(n) /\ Data(n) = Data(j) /\ Children(n) = <<x, y>>
  BY JoinNode DEF JoinOf
<1>2. IsNode(t) /\ Data(t) = Data(j) /\ Children(t) = <<u, v>>
  BY JoinNode DEF JoinOf
<1> HIDE DEF n, t
<1>3. \A k \in 1..Len(Children(n)) : Children(n)[k] \in 1..Len(heap)
  <2>1. Len(<<x, y>>) = 2 /\ <<x, y>>[1] = x /\ <<x, y>>[2] = y /\ \A k \in 1..2 : k = 1 \/ k = 2
    BY PairFacts
  <2> QED BY <1>0, <1>1, <2>1
<1>4. Unfolded(heap, Children(n)) = <<u, v>>
  BY <1>1, UnfoldedPair DEF u, v
<1>5. Fits(n, <<u, v>>)
  BY <1>1, PairFacts DEF Fits
<1>6. mapChildren(n, <<u, v>>) = t
  BY <1>1, <1>2, <1>5, MapChildrenFacts, SameNode
<1> QED
  BY <1>1, <1>3, <1>4, <1>6 DEF n, t, x, y, u, v

LEMMA ExtendStep ==
    ASSUME IInv, ScanCall \/ NodeCall \/ JoinCall
    PROVE  IInv' /\ WellFormed(heap') /\ Extends(heap, heap')
<1>1. ASSUME NEW p \in Paths, extend(Scan(p))
      PROVE  IInv' /\ WellFormed(heap') /\ Extends(heap, heap')
  BY <1>1, ScanNode, ScanAbove, ExtendFacts
<1>2. ASSUME NEW c \in Calls, NEW f \in DOMAIN frames, frames[f] # 0,
             extend([c EXCEPT !.child = frames[f]])
      PROVE  IInv' /\ WellFormed(heap') /\ Extends(heap, heap')
  <2> DEFINE n == [c EXCEPT !.child = frames[f]]
  <2>1. /\ IsNode(n) /\ extend(n)
        /\ \A k \in 1..Len(Children(n)) : Children(n)[k] \in 1..Len(heap)
    BY <1>2, CallAbove
  <2> HIDE DEF n
  <2> QED BY <2>1, ExtendFacts
<1>3. ASSUME NEW j \in Joins, NEW f \in DOMAIN frames, NEW other \in DOMAIN frames,
             frames[f] # 0, frames[other] # 0,
             extend([j EXCEPT !.child = frames[f], !.right = frames[other]])
      PROVE  IInv' /\ WellFormed(heap') /\ Extends(heap, heap')
  <2> DEFINE n == JoinOf(j, frames[f], frames[other])
  <2>1. IsNode(n) /\ \A k \in 1..Len(Children(n)) : Children(n)[k] \in 1..Len(heap)
    BY <1>3, JoinAbove
  <2>2. extend(n)
    BY <1>3 DEF JoinOf
  <2> HIDE DEF n
  <2> QED BY <2>1, <2>2, ExtendFacts
<1> QED
  BY <1>1, <1>2, <1>3 DEF ScanCall, NodeCall, JoinCall

\* Steps that only move the optimizer, and leave the nodes and the drawing as they are.
LEMMA QuietStep ==
    ASSUME IInv, UNCHANGED <<heap, drawn, frames>>, pc # "drawing", pc' # "drawing"
    PROVE  WellFormed(heap') /\ FramesFit' /\ Drawing' /\ Len(heap') = Len(heap)
<1>1. WellFormed(heap') /\ Len(heap') = Len(heap)
  BY DEF IInv
<1>2. FramesFit'
  BY DEF IInv, FramesFit
<1>3. (WellFormed(heap) /\ Blank => Drawing)'
  BY BlankDraws, PTL
<1>4. Blank'
  BY DEF IInv, Drawing, Blank, drawn
<1> QED
  BY <1>1, <1>2, <1>3, <1>4

LEMMA OptimizeStep == ASSUME IInv, Optimize PROVE IInv'
<1>1. PICK f \in DOMAIN frames :
         /\ current' = frames[f] /\ next' = frames[f]
         /\ pc' = IF frames[f] = 0 THEN "optimized" ELSE "fold"
  BY DEF Optimize
<1>2. pc = "idle" /\ iter' = 0 /\ UNCHANGED <<heap, drawn, frames, calls>>
  BY DEF Optimize
<1>3. WellFormed(heap') /\ FramesFit' /\ Drawing' /\ Len(heap') = Len(heap)
  BY <1>1, <1>2, QuietStep
<1>4. frames[f] \in 0..Len(heap)
  BY SeqFacts DEF IInv, FramesFit
<1>5. calls' = <<>>
  BY <1>2 DEF IInv, OptimizeFits, Following
<1>6. OptimizeFits'
  <2>1. 0 \in 0..MaxRounds /\ 0 < MaxRounds
    BY MaxAssumption
  <2>2. frames[f] = 0 => ~ Working'
    BY <1>1 DEF Working, Following
  <2>3. pc' \in DOMAIN Following \cup {"optimized"}
    BY <1>1 DEF Following
  <2> QED BY <1>1, <1>2, <1>3, <1>4, <1>5, <2>1, <2>2, <2>3 DEF OptimizeFits
<1> QED
  BY <1>3, <1>5, <1>6, NoCalls DEF IInv

LEMMA StartStep == ASSUME IInv, StartPass PROVE IInv'
<1>1. /\ pc \in DOMAIN Following /\ calls = <<>> /\ calls' = <<Started(next, {})>>
      /\ UNCHANGED <<heap, drawn, frames, pc, current, next, iter>>
  BY DEF StartPass
<1>2. pc # "drawing"
  BY <1>1 DEF Following
<1>3. WellFormed(heap') /\ FramesFit' /\ Drawing' /\ Len(heap') = Len(heap)
  BY <1>1, <1>2, QuietStep
<1>4. OptimizeFits'
  BY <1>1 DEF IInv, OptimizeFits, Working
<1> DEFINE d == Started(next, {})
<1>5. next \in 1..Len(heap)
  <2>1. Len(heap) \in Nat
    BY SeqFacts DEF IInv, WellFormed
  <2> QED BY <1>1, <2>1 DEF IInv, OptimizeFits, Working
<1>6. Fit(heap, d) /\ d.at = next
  <2>1. d = [at |-> d.at, required |-> d.required, kids |-> d.kids] /\ d.at = next /\ d.kids = <<>>
    BY DEF Started
  <2> HIDE DEF d
  <2>2. IsSeq(<<>>) /\ Len(<<>>) = 0 /\ 1..0 = {}
    BY NoElements
  <2>3. 0 <= Len(Children(heap[next]))
    BY <1>5, ChildAddresses DEF IInv
  <2> QED BY <1>5, <2>1, <2>2, <2>3 DEF Fit
<1>7. CallsFit(heap, <<d>>, next)
  <2> HIDE DEF d
  <2>1. IsSeq(<<d>>) /\ Len(<<d>>) = 1 /\ <<d>>[1] = d
    BY PairFacts
  <2>2. (\A x \in 1..1 : x = 1) /\ 1..1 - 1 = {}
    OBVIOUS
  <2> QED BY <1>6, <2>1, <2>2 DEF CallsFit
<1> QED
  BY <1>1, <1>3, <1>4, <1>7 DEF IInv

LEMMA CallStep == ASSUME IInv, CallOnChild PROVE IInv'
<1> DEFINE top == Last(calls)
           k   == Len(top.kids) + 1
           s   == Children(heap[top.at])
           d   == Started(s[k], Asked(pc, Unfold(heap, top.at), k, top.required))
<1>1. /\ calls # <<>> /\ k \in DOMAIN s /\ calls' = Append(calls, d)
      /\ UNCHANGED <<heap, drawn, frames, pc, current, next, iter>>
  BY DEF CallOnChild, Kids
<1>2. pc \in DOMAIN Following /\ pc # "drawing"
  BY <1>1 DEF IInv, OptimizeFits, Following
<1>3. WellFormed(heap') /\ FramesFit' /\ Drawing' /\ Len(heap') = Len(heap)
  BY <1>1, <1>2, QuietStep
<1>4. OptimizeFits'
  BY <1>1, <1>2 DEF IInv, OptimizeFits, Working
<1>5. WellFormed(heap) /\ CallsFit(heap, calls, next)
  BY DEF IInv
<1>6. Fit(heap, top) /\ top = calls[Len(calls)]
  <2>1. Len(calls) \in 1..Len(calls)
    BY <1>1, <1>5, SeqFacts DEF CallsFit
  <2> QED BY <1>5, <2>1 DEF CallsFit, Last
<1>7. /\ IsSeq(s) /\ Len(s) \in Nat /\ DOMAIN s = 1..Len(s)
      /\ \A x \in 1..Len(s) : s[x] \in 1..Len(heap)
  BY <1>5, <1>6, ChildAddresses, SeqFacts DEF Fit
<1>8. IsSeq(top.kids) /\ Len(top.kids) \in Nat
  BY <1>6, SeqFacts DEF Fit
<1>9. d = [at |-> d.at, required |-> d.required, kids |-> d.kids] /\ d.at = s[k] /\ d.kids = <<>>
  BY DEF Started
<1> HIDE DEF d
<1>10. Fit(heap, d)
  <2>1. d.at \in 1..Len(heap)
    BY <1>1, <1>7, <1>9
  <2>2. IsSeq(<<>>) /\ Len(<<>>) = 0 /\ 1..0 = {}
    BY NoElements
  <2>3. 0 <= Len(Children(heap[d.at]))
    BY <1>5, <2>1, ChildAddresses
  <2> QED BY <1>9, <2>1, <2>2, <2>3 DEF Fit
<1>11. Chained(heap, top, d)
  <2>1. Len(top.kids) < Len(s)
    <3> HIDE DEF s, top
    <3> QED BY <1>1, <1>7, <1>8
  <2> QED BY <1>9, <2>1 DEF Chained
<1>12. CallsFit(heap, Append(calls, d), next)
  <2> HIDE DEF top
  <2> QED BY <1>1, <1>5, <1>6, <1>10, <1>11, CallsFitMore
<1> QED
  BY <1>1, <1>3, <1>4, <1>12 DEF IInv

\* What the innermost call returns, to its caller or to optimize().
LEMMA ReturnFromFacts ==
    ASSUME IInv, ReturnFromCall
    PROVE  LET top == Last(calls)
               r   == Returned(pc, heap, top)
               t   == Rewritten(pc, mapChildren(Unfold(heap, top.at), Unfolded(heap, top.kids)),
                                top.required)
           IN  /\ calls # <<>> /\ Fit(heap, top) /\ Len(top.kids) = Len(Children(heap[top.at]))
               /\ heap' = r.heap
               /\ Makes(heap, r, t) /\ (t = Unfold(heap, top.at) => r.at = top.at)
               /\ IF Front(calls) = <<>>
                  THEN /\ calls' = <<>> /\ next' = r.at /\ pc' = Following[pc]
                       /\ top.at = next
                  ELSE /\ calls' = [Front(calls) EXCEPT ![Len(Front(calls))].kids = Append(@, r.at)]
                       /\ UNCHANGED <<next, pc>>
               /\ UNCHANGED <<drawn, frames, current, iter>>
<1> DEFINE top == Last(calls)
           r   == Returned(pc, heap, top)
           t   == Rewritten(pc, mapChildren(Unfold(heap, top.at), Unfolded(heap, top.kids)),
                            top.required)
<1>1. /\ calls # <<>> /\ Len(top.kids) = Len(Children(heap[top.at])) /\ heap' = r.heap
      /\ IF Front(calls) = <<>>
         THEN calls' = <<>> /\ next' = r.at /\ pc' = Following[pc]
         ELSE /\ calls' = [Front(calls) EXCEPT ![Len(Front(calls))].kids = Append(@, r.at)]
              /\ UNCHANGED <<next, pc>>
      /\ UNCHANGED <<drawn, frames, current, iter>>
  BY DEF ReturnFromCall, Kids, Returned
<1>2. WellFormed(heap) /\ CallsFit(heap, calls, next)
  BY DEF IInv
<1>3. IsSeq(calls) /\ Len(calls) \in Nat /\ Len(calls) # 0
  BY <1>1, <1>2, SeqFacts DEF CallsFit
<1>4. Fit(heap, top)
  <2>1. Len(calls) \in 1..Len(calls)
    BY <1>3
  <2> QED BY <1>2, <2>1 DEF CallsFit, Last
<1>5. Makes(heap, r, t) /\ (t = Unfold(heap, top.at) => r.at = top.at)
  <2> HIDE DEF top
  <2> QED BY <1>1, <1>2, <1>4, CallReturns
<1>6. ASSUME Front(calls) = <<>> PROVE top.at = next
  <2> DEFINE n == Len(calls) - 1
  <2>1. n \in 0..Len(calls) /\ Front(calls) = SubSeq(calls, 1, n)
    BY <1>3 DEF Front
  <2>2. n = 0
    <3> HIDE DEF n
    <3>1. Len(SubSeq(calls, 1, n)) = n
      BY <1>3, <2>1, Fronted
    <3> QED BY <1>6, <2>1, <3>1, NoElements
  <2>3. Len(calls) = 1
    BY <1>3, <2>2
  <2> QED BY <1>1, <1>2, <2>3 DEF CallsFit, Last
<1> HIDE DEF top, r, t
<1> QED
  BY <1>1, <1>4, <1>5, <1>6 DEF top, r, t

LEMMA FollowingFacts ==
    ASSUME NEW p \in DOMAIN Following
    PROVE  Following[p] \in DOMAIN Following \cup {"compare"} /\ Following[p] # p /\ p # "drawing"
           /\ Following[p] # "drawing"
  BY DEF Following

\* Nodes are only added, by a pass.
LEMMA GrowStep ==
    ASSUME IInv, WellFormed(heap'), Extends(heap, heap'), UNCHANGED <<drawn, frames>>,
           pc # "drawing", pc' # "drawing"
    PROVE  FramesFit' /\ Drawing' /\ \A x \in 0..Len(heap) : x \in 0..Len(heap')
<1>1. Len(heap) \in Nat /\ Len(heap') \in Nat /\ Len(heap) <= Len(heap')
  BY SeqFacts DEF IInv, WellFormed, Extends
<1>2. \A x \in 0..Len(heap) : x \in 0..Len(heap')
  BY <1>1
<1>3. FramesFit'
  BY <1>2 DEF IInv, FramesFit
<1>4. (WellFormed(heap) /\ Blank => Drawing)'
  BY BlankDraws, PTL
<1>5. Blank'
  BY DEF IInv, Drawing, Blank, drawn
<1> QED
  BY <1>2, <1>3, <1>4, <1>5

LEMMA ReturnStep == ASSUME IInv, ReturnFromCall PROVE IInv'
<1> DEFINE top == Last(calls)
           r   == Returned(pc, heap, top)
           t   == Rewritten(pc, mapChildren(Unfold(heap, top.at), Unfolded(heap, top.kids)),
                            top.required)
<1>1. /\ calls # <<>> /\ heap' = r.heap
      /\ Makes(heap, r, t) /\ (t = Unfold(heap, top.at) => r.at = top.at)
      /\ IF Front(calls) = <<>>
         THEN calls' = <<>> /\ next' = r.at /\ pc' = Following[pc]
         ELSE /\ calls' = [Front(calls) EXCEPT ![Len(Front(calls))].kids = Append(@, r.at)]
              /\ UNCHANGED <<next, pc>>
      /\ UNCHANGED <<drawn, frames, current, iter>>
  BY ReturnFromFacts
<1> HIDE DEF r, t
<1>2. /\ WellFormed(heap') /\ Extends(heap, heap') /\ r.at \in 1..Len(heap')
      /\ Unfold(heap', r.at) = t
  BY <1>1 DEF Makes
<1>3. pc \in DOMAIN Following /\ Working
  BY <1>1 DEF IInv, OptimizeFits, Working
<1>4. pc # "drawing" /\ pc' \in DOMAIN Following \cup {"compare"} /\ pc' # "drawing"
  BY <1>1, <1>3, FollowingFacts
<1>5. FramesFit' /\ Drawing' /\ \A x \in 0..Len(heap) : x \in 0..Len(heap')
  BY <1>1, <1>2, <1>4, GrowStep
<1>6. r.at \in 0..Len(heap') /\ r.at # 0
  <2>1. Len(heap') \in Nat
    BY <1>2, SeqFacts DEF WellFormed
  <2> QED BY <1>2, <2>1
<1>7. WellFormed(heap) /\ CallsFit(heap, calls, next) /\ OptimizeFits
  BY DEF IInv
<1>8. CASE Front(calls) = <<>>
  <2>1. OptimizeFits'
    BY <1>1, <1>3, <1>4, <1>5, <1>6, <1>7, <1>8 DEF OptimizeFits, Working
  <2>2. CallsFit(heap', calls', next')
    BY <1>1, <1>8, NoCalls
  <2> QED BY <1>2, <1>5, <2>1, <2>2 DEF IInv
<1>9. CASE Front(calls) # <<>>
  <2>1. OptimizeFits'
    BY <1>1, <1>3, <1>4, <1>5, <1>7, <1>9 DEF OptimizeFits, Working
  <2>2. CallsFit(heap', calls', next')
    <3> DEFINE g == heap'
               b == r.at
    <3>1. Unfold(g, b) = Unfold(heap, top.at) => b = top.at
      BY <1>1, <1>2
    <3>2. WellFormed(g) /\ Extends(heap, g) /\ b \in 1..Len(g)
      BY <1>2
    <3>3. calls' = [Front(calls) EXCEPT ![Len(Front(calls))].kids = Append(@, b)] /\ next' = next
      BY <1>1, <1>9
    <3> HIDE DEF g, b
    <3>4. CallsFit(g, [Front(calls) EXCEPT ![Len(Front(calls))].kids = Append(@, b)], next)
      BY <1>1, <1>7, <1>9, <3>1, <3>2, CallsFitLess
    <3> QED BY <3>3, <3>4 DEF g
  <2> QED BY <1>2, <1>5, <2>1, <2>2 DEF IInv
<1> QED
  BY <1>8, <1>9

LEMMA CompareStep == ASSUME IInv, Compare PROVE IInv'
<1>1. /\ pc = "compare" /\ current' = next /\ iter' = iter + 1 /\ pc' \in {"optimized", "fold"}
      /\ (pc' = "fold" => iter' # MaxRounds)
      /\ UNCHANGED <<heap, drawn, frames, next, calls>>
  BY DEF Compare
<1>2. WellFormed(heap') /\ FramesFit' /\ Drawing' /\ Len(heap') = Len(heap)
  BY <1>1, QuietStep
<1>3. OptimizeFits
  BY DEF IInv
<1>4. calls' = <<>>
  BY <1>1, <1>3 DEF OptimizeFits, Following
<1>5. iter \in Nat /\ MaxRounds \in Nat /\ iter < MaxRounds /\ next # 0
  BY <1>1, <1>3, MaxAssumption DEF OptimizeFits, Working
<1>6. iter' \in 0..MaxRounds /\ (iter' # MaxRounds => iter' < MaxRounds)
  BY <1>1, <1>5
<1>7. pc' = "optimized" => ~ Working'
  BY DEF Working, Following
<1>8. OptimizeFits'
  BY <1>1, <1>2, <1>3, <1>4, <1>5, <1>6, <1>7 DEF OptimizeFits, Following
<1> QED
  BY <1>2, <1>4, <1>8, NoCalls DEF IInv

\* explain() draws: the steps of PlanGraph.
LEMMA DrawStep ==
    ASSUME IInv, [DrawNext]_drawVars, UNCHANGED <<heap, frames, current, next, iter, calls>>,
           pc' = "drawing", calls = <<>>
    PROVE  IInv'
<1>1. Typed /\ Path /\ LinesExact /\ Edges
  BY DEF IInv, Drawing
<1>2. Typed' /\ Path' /\ LinesExact' /\ Edges'
  BY <1>1, TypedStep, PathStep, LinesStep, EdgesStep
<1>3. Drawing'
  BY <1>2 DEF Drawing
<1>4. WellFormed(heap') /\ FramesFit'
  BY DEF IInv, FramesFit
<1>5. OptimizeFits'
  <2>1. ~ Working'
    BY DEF Working, Following
  <2> QED BY <2>1 DEF IInv, OptimizeFits
<1> QED
  BY <1>3, <1>4, <1>5, NoCalls DEF IInv

LEMMA ExplainStep == ASSUME IInv, Explain PROVE IInv'
<1>1. /\ pc = "optimized" /\ Draw(current) /\ pc' = "drawing"
      /\ UNCHANGED <<heap, frames, current, next, iter, calls>>
  BY DEF Explain, Draw
<1>2. current \in Addresses \cup {0} /\ calls = <<>>
  <2>1. Len(heap) \in Nat
    BY SeqFacts DEF IInv, WellFormed
  <2>2. current \in 0..Len(heap) /\ calls = <<>>
    BY <1>1 DEF IInv, OptimizeFits, Following
  <2> QED BY <2>1, <2>2 DEF Addresses
<1>3. [DrawNext]_drawVars
  BY <1>1, <1>2 DEF DrawNext
<1> QED
  BY <1>1, <1>2, <1>3, DrawStep

LEMMA WalkIStep == ASSUME IInv, WalkStep PROVE IInv'
<1>1. /\ pc = "drawing" /\ Walk /\ pc' = pc
      /\ UNCHANGED <<frames, current, next, iter, calls>>
  BY DEF WalkStep
<1>2. UNCHANGED heap
  BY <1>1 DEF Walk, Enter, Descend, Return
<1>3. calls = <<>>
  BY <1>1 DEF IInv, OptimizeFits, Following
<1> QED
  BY <1>1, <1>2, <1>3, DrawStep DEF DrawNext

\* The end of a call frees the nodes above those of frames.
LEMMA FinishFacts ==
    ASSUME IInv, NEW kept, IsSeq(kept), Len(kept) \in 1..MaxFrames,
           \A f \in 1..Len(kept) : kept[f] \in 0..Len(heap),
           pc \in {"optimized", "drawing"}, Finish(kept)
    PROVE  /\ WellFormed(heap') /\ Extends(heap', heap)
           /\ \A f \in 1..Len(kept) : kept[f] \in 0..Len(heap')
           /\ IInv'
<1> DEFINE T == ToSet(kept)
           m == Max(T)
<1>1. /\ pc' = "idle" /\ frames' = kept /\ heap' = SubSeq(heap, 1, m)
      /\ Blank' /\ current' = 0 /\ next' = 0 /\ iter' = 0 /\ calls' = calls
  BY DEF Finish, Blank
<1>2. WellFormed(heap) /\ Len(heap) \in Nat
  BY SeqFacts DEF IInv, WellFormed
<1>3. Len(kept) \in Nat /\ DOMAIN kept = 1..Len(kept) /\ 1 \in 1..Len(kept)
  BY SeqFacts
<1>4. T \subseteq 0..Len(heap) /\ T # {} /\ \A f \in 1..Len(kept) : kept[f] \in T
  BY <1>3 DEF ToSet
<1> HIDE DEF T
<1>5. m \in T /\ \A x \in T : x <= m
  BY <1>2, <1>4, GreatestNumber
<1> HIDE DEF m
<1>6. m \in 0..Len(heap)
  BY <1>4, <1>5
<1>7. WellFormed(heap') /\ Len(heap') = m /\ Extends(heap', heap)
  BY <1>1, <1>2, <1>6, Cut
<1>8. \A f \in 1..Len(kept) : kept[f] \in 0..Len(heap')
  <2>1. \A x \in T : x \in 0..m
    BY <1>2, <1>4, <1>5
  <2> QED BY <1>4, <1>7, <2>1
<1>9. FramesFit'
  BY <1>1, <1>8 DEF FramesFit
<1>10. calls' = <<>>
  BY <1>1 DEF IInv, OptimizeFits, Following
<1>11. OptimizeFits'
  <2>1. 0 \in 0..MaxRounds /\ 0 \in 0..Len(heap')
    BY <1>2, <1>6, <1>7, MaxAssumption
  <2>2. ~ Working'
    BY <1>1 DEF Working, Following
  <2> QED BY <1>1, <1>10, <2>1, <2>2 DEF OptimizeFits
<1>12. (WellFormed(heap) /\ Blank => Drawing)'
  BY BlankDraws, PTL
<1> QED
  BY <1>1, <1>7, <1>8, <1>9, <1>10, <1>11, <1>12, NoCalls DEF IInv

\* When explain() has drawn, the call is still under way.
LEMMA DropWhen == ASSUME IInv, Drop PROVE pc \in {"optimized", "drawing"} /\ Finish(frames)
  BY DEF IInv, Drawing, Blank, Drop

LEMMA DropStep == ASSUME IInv, Drop PROVE IInv' /\ WellFormed(heap') /\ Extends(heap', heap)
  BY DropWhen, FinishFacts DEF IInv, FramesFit

\* The frames with the one that Keep makes.
LEMMA Kept ==
    ASSUME IInv, Keep
    PROVE  /\ IsSeq(Append(frames, current)) /\ Len(Append(frames, current)) \in 1..MaxFrames
           /\ \A f \in 1..Len(Append(frames, current)) :
                 Append(frames, current)[f] \in 0..Len(heap)
           /\ \A f \in 1..Len(frames) : Append(frames, current)[f] = frames[f]
           /\ Len(Append(frames, current)) = Len(frames) + 1
<1> DEFINE kept == Append(frames, current)
<1>1. IsSeq(frames) /\ Len(frames) \in Nat /\ Len(frames) < MaxFrames
  BY SeqFacts DEF IInv, FramesFit, Keep
<1>2. /\ IsSeq(kept) /\ Len(kept) = Len(frames) + 1 /\ kept[Len(frames) + 1] = current
      /\ \A f \in 1..Len(frames) : kept[f] = frames[f]
  BY <1>1, Appended
<1> HIDE DEF kept
<1>3. Len(kept) \in 1..MaxFrames
  BY <1>1, <1>2, MaxAssumption
<1>4. \A f \in 1..Len(kept) : f \in 1..Len(frames) \/ f = Len(frames) + 1
  BY <1>1, <1>2
<1>5. \A f \in 1..Len(kept) : kept[f] \in 0..Len(heap)
  BY <1>2, <1>4 DEF IInv, FramesFit, OptimizeFits
<1> QED
  BY <1>2, <1>3, <1>5 DEF kept

LEMMA KeepStep ==
    ASSUME IInv, Keep
    PROVE  /\ IInv' /\ WellFormed(heap') /\ Extends(heap', heap)
           /\ \A f \in 1..Len(frames) : frames[f] \in 0..Len(heap')
<1> DEFINE kept == Append(frames, current)
<1>1. /\ IsSeq(kept) /\ Len(kept) \in 1..MaxFrames
      /\ \A f \in 1..Len(kept) : kept[f] \in 0..Len(heap)
      /\ \A f \in 1..Len(frames) : kept[f] = frames[f]
      /\ Len(kept) = Len(frames) + 1
  BY Kept
<1>2. pc = "optimized" /\ Finish(kept)
  BY DEF Keep
<1> HIDE DEF kept
<1>3. /\ IInv' /\ WellFormed(heap') /\ Extends(heap', heap)
      /\ \A f \in 1..Len(kept) : kept[f] \in 0..Len(heap')
  BY <1>1, <1>2, FinishFacts
<1>4. \A f \in 1..Len(frames) : f \in 1..Len(kept)
  <2>1. Len(frames) \in Nat
    BY SeqFacts DEF IInv, FramesFit
  <2> QED BY <1>1, <2>1
<1> QED
  BY <1>1, <1>3, <1>4

LEMMA StutterStep == ASSUME IInv, UNCHANGED vars PROVE IInv'
<1>1. /\ UNCHANGED <<heap, frames, pc, current, next, iter, calls>>
      /\ UNCHANGED <<root, stack, emitted, ids, nodes_out, edges_out, drawing>>
  BY DEF vars, drawn
<1>2. [DrawNext]_drawVars
  BY <1>1 DEF drawVars, drawn
<1>3. Typed' /\ Path' /\ LinesExact' /\ Edges'
  BY <1>2, TypedStep, PathStep, LinesStep, EdgesStep DEF IInv, Drawing
<1>4. Drawing'
  BY <1>1, <1>3 DEF IInv, Drawing, Blank
<1>5. WellFormed(heap') /\ FramesFit' /\ OptimizeFits' /\ CallsFit(heap', calls', next')
  BY <1>1 DEF IInv, FramesFit, OptimizeFits, Working
<1> QED
  BY <1>4, <1>5 DEF IInv

LEMMA IStep == IInv /\ [Next]_vars => IInv'
<1> SUFFICES ASSUME IInv, [Next]_vars PROVE IInv'
  OBVIOUS
<1>1. CASE ScanCall \/ NodeCall \/ JoinCall
  BY <1>1, ExtendStep
<1>2. CASE Optimize
  BY <1>2, OptimizeStep
<1>3. CASE StartPass
  BY <1>3, StartStep
<1>4. CASE CallOnChild
  BY <1>4, CallStep
<1>5. CASE ReturnFromCall
  BY <1>5, ReturnStep
<1>6. CASE Compare
  BY <1>6, CompareStep
<1>7. CASE Explain
  BY <1>7, ExplainStep
<1>8. CASE WalkStep
  BY <1>8, WalkIStep
<1>9. CASE Drop
  BY <1>9, DropStep
<1>10. CASE Keep
  BY <1>10, KeepStep
<1>11. CASE UNCHANGED vars
  BY <1>11, StutterStep
<1> QED
  BY <1>1, <1>2, <1>3, <1>4, <1>5, <1>6, <1>7, <1>8, <1>9, <1>10, <1>11 DEF Next

LEMMA Invariant == Spec => []IInv
  BY InitIInv, IStep, PTL DEF Spec

LEMMA IInvTypes == IInv => TypeOK
<1> SUFFICES ASSUME IInv PROVE TypeOK
  OBVIOUS
<1>1. /\ WellFormed(heap) /\ FramesFit /\ OptimizeFits /\ CallsFit(heap, calls, next)
      /\ Len(heap) \in Nat
  BY SeqFacts DEF IInv, WellFormed
<1>2. \A x \in 0..Len(heap) : x \in Addresses \cup {0}
  BY <1>1 DEF Addresses
<1>3. \A a \in Addresses : \A k \in DOMAIN Kids(a) : Kids(a)[k] \in 1..a - 1
  <2> SUFFICES ASSUME NEW a \in Addresses PROVE \A k \in DOMAIN Kids(a) : Kids(a)[k] \in 1..a - 1
    OBVIOUS
  <2>1. DOMAIN Children(heap[a]) = 1..Len(Children(heap[a]))
    BY <1>1, ChildAddresses, SeqFacts DEF Addresses
  <2>2. \A k \in 1..Len(Children(heap[a])) : Children(heap[a])[k] \in 1..a - 1
    BY <1>1 DEF WellFormed, Addresses
  <2> QED BY <2>1, <2>2 DEF Kids
<1>4. {current, next} \cup ToSet(frames) \subseteq Addresses \cup {0}
  <2>1. DOMAIN frames = 1..Len(frames)
    BY <1>1, SeqFacts DEF FramesFit
  <2> QED BY <1>1, <1>2, <2>1 DEF FramesFit, OptimizeFits, ToSet
<1>5. Len(frames) <= MaxFrames
  BY <1>1, MaxAssumption DEF FramesFit
<1>6. ASSUME NEW x \in DOMAIN calls
      PROVE  /\ calls[x].at \in Addresses /\ ToSet(calls[x].kids) \subseteq Addresses
             /\ Len(calls[x].kids) <= Len(Kids(calls[x].at))
  <2>1. Fit(heap, calls[x])
    BY <1>1, SeqFacts DEF CallsFit
  <2>2. DOMAIN calls[x].kids = 1..Len(calls[x].kids)
    BY <2>1, SeqFacts DEF Fit
  <2> QED BY <2>1, <2>2 DEF Fit, Addresses, Kids, ToSet
<1> QED
  BY <1>1, <1>3, <1>4, <1>5, <1>6 DEF TypeOK, OptimizeFits

-----------------------------------------------------------------------------
\* Plans have no cycle, and frames, the optimizer and its calls hold nodes that are there:
\* for any calls on frames, any passes over any plans, and plans of any depth.
THEOREM FramesTyped == Spec => []TypeOK
  BY Invariant, IInvTypes, PTL

\* What explain() writes of an optimized plan, among all other calls, has one line for each
\* node, numbered in order, and none for a node that the plan does not reach.
THEOREM FramesLinesExact == Spec => []LinesExact
<1>1. IInv => LinesExact
  BY DEF IInv, Drawing
<1> QED
  BY Invariant, <1>1, PTL

\* And in the end every edge, once.
THEOREM FramesDrawingExact == Spec => []DrawingExact
<1>1. IInv => DrawingExact
  BY DrawnIsExact DEF IInv, Drawing
<1> QED
  BY Invariant, <1>1, PTL

-----------------------------------------------------------------------------
\* Steps of the whole: nodes are added, or freed from the top down to those of frames.

LEMMA HeapStep ==
    ASSUME IInv, [Next]_vars
    PROVE  /\ WellFormed(heap') /\ (Extends(heap, heap') \/ Extends(heap', heap))
           /\ \A f \in 1..Len(frames) : frames[f] \in 0..Len(heap')
<1>0. /\ WellFormed(heap) /\ Extends(heap, heap) /\ Len(heap) \in Nat
      /\ \A f \in 1..Len(frames) : frames[f] \in 0..Len(heap)
  BY SeqFacts, ExtendsSelf DEF IInv, FramesFit, WellFormed
<1>1. ASSUME WellFormed(heap'), Extends(heap, heap')
      PROVE  \A f \in 1..Len(frames) : frames[f] \in 0..Len(heap')
  <2>1. Len(heap') \in Nat /\ Len(heap) <= Len(heap')
    BY <1>1, SeqFacts DEF WellFormed, Extends
  <2>2. \A x \in 0..Len(heap) : x \in 0..Len(heap')
    BY <1>0, <2>1
  <2> QED BY <1>0, <2>2
<1>2. CASE ScanCall \/ NodeCall \/ JoinCall
  BY <1>1, <1>2, ExtendStep
<1>3. CASE UNCHANGED heap
  BY <1>0, <1>3
<1>4. CASE ReturnFromCall
  BY <1>1, <1>4, ReturnFromFacts DEF Makes
<1>5. CASE Drop
  BY <1>5, DropWhen, FinishFacts DEF IInv, FramesFit
<1>6. CASE Keep
  BY <1>6, KeepStep
<1>7. ASSUME Optimize \/ StartPass \/ CallOnChild \/ Compare \/ Explain \/ WalkStep \/ UNCHANGED vars
      PROVE  UNCHANGED heap
  BY <1>7 DEF Optimize, StartPass, CallOnChild, Compare, Explain, Draw, WalkStep, Walk, Enter,
              Descend, Return, vars
<1> QED
  BY <1>2, <1>3, <1>4, <1>5, <1>6, <1>7 DEF Next

\* No step writes to a node that is there, and no node that a frame holds is freed: a pass that
\* rewrote a node in place would change the plans of other frames, and other threads read them.
THEOREM NodesAreFinal == Spec => NodesFinal
<1>1. ASSUME IInv, [Next]_vars
      PROVE  /\ \A a \in DOMAIN heap \cap DOMAIN heap' : heap'[a] = heap[a]
             /\ ToSet(frames) \subseteq DOMAIN heap' \cup {0}
  <2>1. /\ WellFormed(heap') /\ (Extends(heap, heap') \/ Extends(heap', heap))
        /\ \A f \in 1..Len(frames) : frames[f] \in 0..Len(heap')
    BY <1>1, HeapStep
  <2>2. /\ DOMAIN heap = 1..Len(heap) /\ DOMAIN heap' = 1..Len(heap') /\ Len(heap') \in Nat
        /\ DOMAIN frames = 1..Len(frames)
    BY <1>1, <2>1, SeqFacts DEF WellFormed, IInv, FramesFit
  <2>3. \A a \in DOMAIN heap \cap DOMAIN heap' : heap'[a] = heap[a]
    BY <2>1, <2>2 DEF Extends
  <2>4. \A x \in 0..Len(heap') : x \in DOMAIN heap' \cup {0}
    BY <2>2
  <2> QED BY <2>1, <2>2, <2>3, <2>4 DEF ToSet
<1>2. IInv /\ [Next]_vars
        => [/\ \A a \in DOMAIN heap \cap DOMAIN heap' : heap'[a] = heap[a]
            /\ ToSet(frames) \subseteq DOMAIN heap' \cup {0}]_vars
  BY <1>1
<1> QED
  BY <1>2, Invariant, PTL DEF Spec, NodesFinal

\* Each pass returns the pointer it was given when the plan comes out as it was: for every
\* pass, every plan and whatever the rewriters do with an expression.
THEOREM PassesCopyOnlyChanges == Spec => PassCopiesOnlyChanges
<1>1. ASSUME IInv, [Next]_vars, PassReturns, Unfold(heap', next') = Unfold(heap, next)
      PROVE  next' = next
  <2>1. pc \in DOMAIN Following /\ pc' # pc
    BY <1>1 DEF PassReturns
  <2>2. pc \notin {"idle", "compare", "optimized", "drawing"}
    BY <2>1 DEF Following
  <2>3. ReturnFromCall
    <3>1. ~ (ScanCall \/ NodeCall \/ JoinCall)
      BY <2>2 DEF ScanCall, NodeCall, JoinCall, extend
    <3>2. ~ (Optimize \/ StartPass \/ CallOnChild \/ Compare \/ Explain \/ WalkStep \/ Keep)
      BY <2>1, <2>2 DEF Optimize, StartPass, CallOnChild, Compare, Explain, WalkStep, Keep
    <3>3. ~ Drop
      BY <1>1, <2>2, DropWhen
    <3>4. ~ UNCHANGED vars
      BY <2>1 DEF vars
    <3> QED BY <1>1, <3>1, <3>2, <3>3, <3>4 DEF Next
  <2> DEFINE top == Last(calls)
             r   == Returned(pc, heap, top)
             t   == Rewritten(pc, mapChildren(Unfold(heap, top.at), Unfolded(heap, top.kids)),
                              top.required)
  <2>4. /\ heap' = r.heap /\ Makes(heap, r, t) /\ (t = Unfold(heap, top.at) => r.at = top.at)
        /\ IF Front(calls) = <<>> THEN next' = r.at /\ top.at = next ELSE UNCHANGED <<next, pc>>
    BY <1>1, <2>3, ReturnFromFacts
  <2> HIDE DEF top, r, t
  <2>5. next' = r.at /\ top.at = next
    BY <2>1, <2>4
  <2>6. t = Unfold(heap, next)
    BY <1>1, <2>4, <2>5 DEF Makes
  <2> QED BY <2>4, <2>5, <2>6
<1>2. IInv /\ [Next]_vars
        => [PassReturns /\ Unfold(heap', next') = Unfold(heap, next) => next' = next]_vars
  BY <1>1
<1> QED
  BY <1>2, Invariant, PTL DEF Spec, PassCopiesOnlyChanges

-----------------------------------------------------------------------------
\* The refinement.  PlanTrees has the rules of PlanRules for its own.

LEMMA TreeNodes ==
    \A x, y, z : /\ Trees!Scan(x) = Scan(x) /\ Trees!Filter(x, y) = Filter(x, y)
                 /\ Trees!Limit(x, y) = Limit(x, y)
                 /\ Trees!Children(x) = Children(x) /\ Trees!mapChildren(x, y) = mapChildren(x, y)
                 /\ Trees!Exprs(x) = Exprs(x) /\ Trees!rewriteNodeExprs(x, y) = rewriteNodeExprs(x, y)
  BY DEF Trees!Scan, Scan, Trees!Filter, Filter, Trees!Limit, Limit, Trees!Children, Children,
         Trees!mapChildren, mapChildren, Trees!Exprs, Exprs, Trees!rewriteNodeExprs,
         rewriteNodeExprs
LEMMA TreeSides ==
    \A x, y : /\ Trees!ToSet(x) = ToSet(x) /\ Trees!SideOf(x, y) = SideOf(x, y)
              /\ Trees!TighterLimit(x, y) = TighterLimit(x, y)
              /\ Trees!Augment(x, y) = Augment(x, y) /\ Trees!ExprRefs(x) = ExprRefs(x)
              /\ Trees!Folded(x) = Folded(x) /\ Trees!Simplified(x) = Simplified(x)
<1>1. ASSUME NEW x, NEW y PROVE Trees!ToSet(x) = ToSet(x)
  BY DEF Trees!ToSet, ToSet
<1>2. ASSUME NEW x, NEW y PROVE Trees!SideOf(x, y) = SideOf(x, y)
  BY DEF Trees!SideOf, SideOf
<1>3. ASSUME NEW x, NEW y PROVE Trees!TighterLimit(x, y) = TighterLimit(x, y)
  BY DEF Trees!TighterLimit, TighterLimit
<1>4. ASSUME NEW x, NEW y PROVE Trees!Augment(x, y) = Augment(x, y)
  BY DEF Trees!Augment, Augment
<1>5. ASSUME NEW x PROVE Trees!ExprRefs(x) = ExprRefs(x)
  BY TreeNodes DEF Trees!ExprRefs, ExprRefs
<1>6. ASSUME NEW x PROVE Trees!Folded(x) = Folded(x)
  BY TreeNodes DEF Trees!Folded, Folded
<1>7. ASSUME NEW x PROVE Trees!Simplified(x) = Simplified(x)
  BY TreeNodes DEF Trees!Simplified, Simplified
<1> QED  BY <1>1, <1>2, <1>3, <1>4, <1>5, <1>6, <1>7
LEMMA TreeRules ==
    \A x, y, z, w : /\ Trees!Rewritten(x, y, z) = Rewritten(x, y, z)
                    /\ y.op \in DOMAIN Fields \ {"scan"}
                         => Trees!Asked(x, y, z, w) = Asked(x, y, z, w)
<1>1. ASSUME NEW x, NEW y PROVE Trees!FilterGoes(x, y) = FilterGoes(x, y)
  BY TreeSides DEF Trees!FilterGoes, FilterGoes
<1>2. ASSUME NEW x PROVE Trees!PushFilter(x) = PushFilter(x)
  BY <1>1, TreeNodes DEF Trees!PushFilter, PushFilter
<1>3. ASSUME NEW x, NEW y PROVE Trees!ProjectScan(x, y) = ProjectScan(x, y)
  BY DEF Trees!ProjectScan, ProjectScan
<1>4. ASSUME NEW x PROVE Trees!PushLimit(x) = PushLimit(x)
  BY TreeSides, TreeNodes DEF Trees!PushLimit, PushLimit
<1>5. ASSUME NEW x, NEW y, NEW z PROVE Trees!SideRequired(x, y, z) = SideRequired(x, y, z)
  BY TreeSides DEF Trees!SideRequired, SideRequired
<1>6. ASSUME NEW x, NEW y, NEW z, x.op \in DOMAIN Fields \ {"scan"}
      PROVE  Trees!ChildRequired(x, y, z) = ChildRequired(x, y, z)
  <2>1. x.op \in {"filter", "select", "withcol", "groupby", "agg", "join", "sort", "limit"}
    BY <1>6 DEF Fields
  <2>2. CASE x.op = "join"
    BY <2>2, <1>5, TreeNodes DEF Trees!ChildRequired, ChildRequired
  <2>3. CASE x.op \in {"select", "agg", "limit"}
    BY <2>3, TreeSides DEF Trees!ChildRequired, ChildRequired
  <2>4. CASE x.op \in {"filter", "sort", "groupby"}
    BY <2>4, TreeSides DEF Trees!ChildRequired, ChildRequired
  <2>5. CASE x.op = "withcol"
    BY <2>5, TreeSides DEF Trees!ChildRequired, ChildRequired
  <2> QED BY <2>1, <2>2, <2>3, <2>4, <2>5
<1>7. ASSUME NEW x, NEW y, NEW z PROVE Trees!Rewritten(x, y, z) = Rewritten(x, y, z)
  BY <1>2, <1>3, <1>4, TreeSides, TreeNodes DEF Trees!Rewritten, Rewritten
<1>8. ASSUME NEW x, NEW y, NEW z, NEW w, y.op \in DOMAIN Fields \ {"scan"}
      PROVE  Trees!Asked(x, y, z, w) = Asked(x, y, z, w)
  BY <1>6, <1>8 DEF Trees!Asked, Asked
<1> QED  BY <1>7, <1>8
\* The variables of PlanTrees, as the trees of the addresses here.
LEMMA Mapped ==
    /\ [f \in DOMAIN frames |-> Unfold(heap, frames[f])] = Unfolded(heap, frames)
    /\ [x \in DOMAIN calls |->
           [tree |-> Unfold(heap, calls[x].at), required |-> calls[x].required,
            kids |-> [k \in DOMAIN calls[x].kids |-> Unfold(heap, calls[x].kids[k])]]]
          = Treed(heap, calls)
  BY DEF Unfolded, Treed, Tree

\* Nodes that are added change no tree that is there.
LEMMA TreesKept ==
    ASSUME IInv, WellFormed(heap'), Extends(heap, heap')
    PROVE  /\ \A a \in 0..Len(heap) : Unfold(heap', a) = Unfold(heap, a)
           /\ Unfold(heap', current) = Unfold(heap, current)
           /\ Unfold(heap', next) = Unfold(heap, next)
           /\ Unfolded(heap', frames) = Unfolded(heap, frames)
           /\ Treed(heap', calls) = Treed(heap, calls)
<1>0. WellFormed(heap) /\ CallsFit(heap, calls, next)
  BY DEF IInv
<1>1. \A a \in 0..Len(heap) : Unfold(heap', a) = Unfold(heap, a)
  BY <1>0, UnfoldExtends
<1>2. current \in 0..Len(heap) /\ next \in 0..Len(heap)
  BY DEF IInv, OptimizeFits
<1>3. Unfolded(heap', frames) = Unfolded(heap, frames)
  BY <1>0, UnfoldedExtends DEF IInv, FramesFit
<1>4. Treed(heap', calls) = Treed(heap, calls)
  BY <1>0, TreedExtends
<1> QED BY <1>1, <1>2, <1>3, <1>4

\* The plans that frames have are there to be built on.
LEMMA GivenTrees ==
    ASSUME IInv, NEW f \in DOMAIN frames, frames[f] # 0
    PROVE  Unfold(heap, frames[f]) \in Trees!Given
<1>1. WellFormed(heap) /\ Len(heap) \in Nat /\ DOMAIN frames = 1..Len(frames)
      /\ frames[f] \in 0..Len(heap)
  BY SeqFacts DEF IInv, FramesFit, WellFormed
<1>2. frames[f] \in 1..Len(heap)
  BY <1>1
<1>3. Unfold(heap, frames[f]) # Nothing
  BY <1>1, <1>2, UnfoldFacts, NothingAssumption
<1>4. Unfold(heap, frames[f]) \in Trees!ToSet(Unfolded(heap, frames))
  BY DEF Trees!ToSet, Unfolded
<1> QED BY <1>3, <1>4, Mapped DEF Trees!Given

\* A call that makes a node builds the tree that its node is.
LEMMA ExtendBuilds ==
    ASSUME IInv, NEW node, IsNode(node),
           \A k \in 1..Len(Children(node)) : Children(node)[k] \in 1..Len(heap), extend(node),
           NEW tree, tree = mapChildren(node, Unfolded(heap, Children(node)))
    PROVE  Trees!Build(tree)
<1>1. /\ pc = "idle" /\ pc' = "idle" /\ Len(frames) < MaxFrames
      /\ frames' = Append(frames, Len(heap) + 1)
      /\ UNCHANGED <<current, next, iter, calls>>
  BY DEF extend
<1>2. WellFormed(heap') /\ Extends(heap, heap') /\ Unfold(heap', Len(heap) + 1) = tree
  BY ExtendFacts
<1>3. /\ Unfold(heap', current') = Unfold(heap, current)
      /\ Unfold(heap', next') = Unfold(heap, next)
      /\ Unfolded(heap', frames) = Unfolded(heap, frames)
      /\ Treed(heap', calls') = Treed(heap, calls)
  BY <1>1, <1>2, TreesKept
<1>4. IsSeq(frames)
  BY DEF IInv, FramesFit
<1>5. Unfolded(heap', frames') = Append(Unfolded(heap, frames), tree)
  BY <1>1, <1>2, <1>3, <1>4, UnfoldedMore
<1>6. Len(Unfolded(heap, frames)) = Len(frames)
  BY <1>4, UnfoldedFacts
<1> QED BY <1>1, <1>3, <1>5, <1>6, Mapped DEF Trees!Build, Unfolded, Treed, Tree

LEMMA CallsBuild ==
    ASSUME IInv, ScanCall \/ NodeCall \/ JoinCall
    PROVE  \/ \E p \in Paths : Trees!Build(Trees!Scan(p))
           \/ \E c \in Calls, t \in Trees!Given : Trees!Build([c EXCEPT !.child = t])
           \/ \E j \in Joins, t, u \in Trees!Given :
                  Trees!Build([j EXCEPT !.child = t, !.right = u])
<1>1. CASE ScanCall
  <2>1. PICK p \in Paths : extend(Scan(p))
    BY <1>1 DEF ScanCall
  <2>2. Trees!Build(Scan(p))
    BY <2>1, ScanNode, ScanAbove, ExtendBuilds
  <2> QED BY <2>2, TreeNodes
<1>2. CASE NodeCall
  <2>1. PICK c \in Calls : \E f \in DOMAIN frames :
            frames[f] # 0 /\ extend([c EXCEPT !.child = frames[f]])
    BY <1>2 DEF NodeCall
  <2>2. PICK f \in DOMAIN frames : frames[f] # 0 /\ extend([c EXCEPT !.child = frames[f]])
    BY <2>1
  <2> DEFINE n == [c EXCEPT !.child = frames[f]]
  <2>3. /\ IsNode(n) /\ \A k \in 1..Len(Children(n)) : Children(n)[k] \in 1..Len(heap)
        /\ mapChildren(n, Unfolded(heap, Children(n))) = [c EXCEPT !.child = Unfold(heap, frames[f])]
    BY <2>2, CallAbove
  <2>4. extend(n)
    BY <2>2
  <2> HIDE DEF n
  <2>5. Trees!Build([c EXCEPT !.child = Unfold(heap, frames[f])])
    BY <2>3, <2>4, ExtendBuilds
  <2>6. Unfold(heap, frames[f]) \in Trees!Given
    BY <2>2, GivenTrees
  <2> QED BY <2>5, <2>6
<1>3. CASE JoinCall
  <2>1. PICK j \in Joins : \E f, other \in DOMAIN frames :
            /\ frames[f] # 0 /\ frames[other] # 0
            /\ extend([j EXCEPT !.child = frames[f], !.right = frames[other]])
    BY <1>3 DEF JoinCall
  <2>2. PICK f, other \in DOMAIN frames :
            /\ frames[f] # 0 /\ frames[other] # 0
            /\ extend([j EXCEPT !.child = frames[f], !.right = frames[other]])
    BY <2>1
  <2> DEFINE n == JoinOf(j, frames[f], frames[other])
             t == Unfold(heap, frames[f])
             u == Unfold(heap, frames[other])
  <2>3. /\ IsNode(n) /\ \A k \in 1..Len(Children(n)) : Children(n)[k] \in 1..Len(heap)
        /\ mapChildren(n, Unfolded(heap, Children(n))) = JoinOf(j, t, u)
    BY <2>2, JoinAbove
  <2>4. extend(n)
    BY <2>2 DEF JoinOf
  <2>5. t \in Trees!Given /\ u \in Trees!Given
    BY <2>2, GivenTrees
  <2> HIDE DEF n, t, u
  <2>6. Trees!Build(JoinOf(j, t, u))
    BY <2>3, <2>4, ExtendBuilds
  <2> QED BY <2>5, <2>6 DEF JoinOf
<1> QED BY <1>1, <1>2, <1>3

\* The steps of the optimizer are the steps over trees.
LEMMA StartsTrees ==
    ASSUME IInv, Init
    PROVE  Trees!Init
<1>1. heap = <<>> /\ frames = <<0>> /\ pc = "idle" /\ current = 0 /\ next = 0 /\ iter = 0
      /\ calls = <<>>
  BY DEF Init
<1>2. Unfold(heap, 0) = Nothing
  BY UnfoldRule DEF IInv
<1>3. Unfolded(heap, frames) = <<Nothing>>
  BY <1>1, <1>2, UnfoldedPair
<1>4. Treed(heap, calls) = <<>>
  <2>1. IsSeq(calls) /\ Len(calls) = 0
    BY <1>1, NoElements
  <2>2. IsSeq(Treed(heap, calls)) /\ Len(Treed(heap, calls)) = 0
    BY <2>1, TreedFacts
  <2> QED BY <2>2, SeqFacts
<1> QED BY <1>1, <1>2, <1>3, <1>4, Mapped DEF Trees!Init

\* Addresses of nodes have trees, other than that of the empty plan.
LEMMA NodesHaveTrees ==
    ASSUME WellFormed(heap), NEW a \in 0..Len(heap)
    PROVE  (Unfold(heap, a) = Nothing) <=> (a = 0)
<1>1. Len(heap) \in Nat
  BY SeqFacts DEF WellFormed
<1>2. CASE a = 0
  BY <1>2, UnfoldRule
<1>3. CASE a \in 1..Len(heap)
  BY <1>1, <1>3, UnfoldFacts, NothingAssumption
<1> QED BY <1>1, <1>2, <1>3

LEMMA OptimizesTrees == ASSUME IInv, Optimize PROVE Trees!Optimize
<1>1. PICK f \in DOMAIN frames :
          /\ current' = frames[f] /\ next' = frames[f]
          /\ pc' = IF frames[f] = 0 THEN "optimized" ELSE "fold"
  BY DEF Optimize
<1>2. pc = "idle" /\ iter' = 0 /\ UNCHANGED <<heap, frames, calls>>
  BY DEF Optimize
<1>3. WellFormed(heap) /\ frames[f] \in 0..Len(heap)
  BY SeqFacts DEF IInv, FramesFit
<1>4. (Unfold(heap, frames[f]) = Nothing) <=> (frames[f] = 0)
  BY <1>3, NodesHaveTrees
<1>5. /\ f \in DOMAIN Unfolded(heap, frames)
      /\ Unfolded(heap, frames)[f] = Unfold(heap, frames[f])
  BY DEF Unfolded
<1> DEFINE P == Unfolded(heap, frames)
<1>6. Unfold(heap', current') = P[f] /\ Unfold(heap', next') = P[f]
  BY <1>1, <1>2, <1>5
<1>7. (IF pc' = "drawing" THEN "optimized" ELSE pc') = IF P[f] = Nothing THEN "optimized" ELSE "fold"
  BY <1>1, <1>4, <1>5
<1>8. Unfolded(heap', frames') = P /\ Treed(heap', calls') = Treed(heap, calls)
  BY <1>2
<1>9. f \in DOMAIN P
  BY <1>5
<1> HIDE DEF P
<1>10. P = [x \in DOMAIN frames |-> Unfold(heap, frames[x])]
  BY Mapped DEF P
<1> QED BY <1>2, <1>6, <1>7, <1>8, <1>9, <1>10, Mapped DEF Trees!Optimize, Unfolded, Treed, Tree

LEMMA TreeConstants ==
    /\ Trees!Following = Following
    /\ \A x, y : Trees!Started(x, y) = [tree |-> x, required |-> y, kids |-> <<>>]
    /\ \A x : Trees!Last(x) = Last(x) /\ Trees!Front(x) = Front(x)
    /\ \A x, y : Trees!planEquals(x, y) = (x = y)
  BY DEF Trees!Following, Following, Trees!Started, Trees!Last, Last, Trees!Front, Front,
         Trees!planEquals

\* A call that has returned nothing yet.
LEMMA FreshTree ==
    ASSUME NEW h, NEW a, NEW required
    PROVE  Tree(h, Started(a, required)) = Trees!Started(Unfold(h, a), required)
<1>1. Unfolded(h, <<>>) = <<>>
  <2>1. IsSeq(Unfolded(h, <<>>)) /\ Len(Unfolded(h, <<>>)) = 0
    BY NoElements, UnfoldedFacts
  <2> QED BY <2>1, SeqFacts
<1> QED BY <1>1, TreeConstants DEF Tree, Started

LEMMA StartsPassOnTrees == ASSUME IInv, StartPass PROVE Trees!StartPass
<1>1. /\ pc \in DOMAIN Following /\ pc # "drawing" /\ calls = <<>>
      /\ calls' = <<Started(next, {})>>
      /\ UNCHANGED <<heap, frames, pc, current, next, iter>>
  BY FollowingFacts DEF StartPass
<1>2. Treed(heap, calls) = <<>>
  <2>1. IsSeq(Treed(heap, calls)) /\ Len(Treed(heap, calls)) = 0
    BY <1>1, NoElements, TreedFacts
  <2> QED BY <2>1, SeqFacts
<1>3. Treed(heap', calls') = <<Trees!Started(Unfold(heap, next), {})>>
  <2>1. calls' = Append(<<>>, Started(next, {}))
    BY <1>1
  <2>2. Treed(heap, Append(<<>>, Started(next, {})))
           = Append(Treed(heap, <<>>), Tree(heap, Started(next, {})))
    BY NoElements, TreedMore
  <2>3. Append(<<>>, Trees!Started(Unfold(heap, next), {})) = <<Trees!Started(Unfold(heap, next), {})>>
    OBVIOUS
  <2> QED BY <1>1, <1>2, <2>1, <2>2, <2>3, FreshTree
<1>4. Unfolded(heap', frames') = Unfolded(heap, frames)
  BY <1>1
<1> QED
  BY <1>1, <1>2, <1>3, <1>4, Mapped, TreeConstants DEF Trees!StartPass, Unfolded, Treed, Tree

\* The trees of the calls, by their last one and the others.
LEMMA LastTree ==
    ASSUME IInv, calls # <<>>
    PROVE  /\ Treed(heap, calls) # <<>> /\ Fit(heap, Last(calls))
           /\ Last(Treed(heap, calls)) = Tree(heap, Last(calls))
           /\ (Front(Treed(heap, calls)) = <<>>) <=> (Front(calls) = <<>>)
<1>1. IsSeq(calls) /\ \A x \in 1..Len(calls) : Fit(heap, calls[x])
  BY DEF IInv, CallsFit
<1>2. Len(calls) \in Nat \ {0}
  BY <1>1, SeqFacts
<1>3. Len(calls) \in 1..Len(calls)
  BY <1>2
<1>4. /\ IsSeq(Treed(heap, calls)) /\ Len(Treed(heap, calls)) = Len(calls)
      /\ Treed(heap, calls)[Len(calls)] = Tree(heap, calls[Len(calls)])
  BY <1>1, <1>3, TreedFacts
<1>5. Treed(heap, calls) # <<>>
  BY <1>2, <1>4, SeqFacts
<1>6. \A s : IsSeq(s) /\ Len(s) = Len(calls) => (Front(s) = <<>> <=> Len(calls) = 1)
  <2>1. ASSUME NEW s, IsSeq(s), Len(s) = Len(calls)
        PROVE  Front(s) = <<>> <=> Len(calls) = 1
    <3>1. s \in Seq({s[x] : x \in DOMAIN s})
      BY <2>1 DEF IsSeq
    <3>2. Front(s) \in Seq({s[x] : x \in DOMAIN s}) /\ Len(Front(s)) = Len(calls) - 1
      BY <2>1, <3>1, <1>2 DEF Front
    <3> QED BY <1>2, <3>2
  <2> QED BY <2>1
<1> QED BY <1>1, <1>3, <1>4, <1>5, <1>6 DEF Last

LEMMA CallsOnTrees == ASSUME IInv, CallOnChild PROVE Trees!CallOnChild
<1> DEFINE top == Last(calls)
           k   == Len(top.kids) + 1
           s   == Children(heap[top.at])
           T   == Treed(heap, calls)
           u   == Tree(heap, top)
           q   == Asked(pc, Unfold(heap, top.at), k, top.required)
<1>1. /\ calls # <<>> /\ k \in DOMAIN s /\ calls' = Append(calls, Started(s[k], q))
      /\ UNCHANGED <<heap, frames, pc, current, next, iter>>
  BY DEF CallOnChild, Kids
<1>2. pc # "drawing"
  BY <1>1 DEF IInv, OptimizeFits, Following
<1>3. /\ T # <<>> /\ Last(T) = u /\ Fit(heap, top) /\ WellFormed(heap)
  BY <1>1, LastTree DEF IInv
<1>4. Len(u.kids) + 1 = k /\ u.tree = Unfold(heap, top.at) /\ u.required = top.required
  BY <1>3, UnfoldedFacts DEF Tree, Fit
<1>5. /\ Children(u.tree) = Unfolded(heap, s)
      /\ k \in DOMAIN Children(u.tree) /\ Children(u.tree)[k] = Unfold(heap, s[k])
  <2>1. Children(u.tree) = Unfolded(heap, s)
    BY <1>3, <1>4, UnfoldFacts DEF Fit
  <2> QED BY <1>1, <2>1 DEF Unfolded
<1>6. Treed(heap', calls') = Append(T, Trees!Started(Children(u.tree)[k], q))
  <2>1. Treed(heap, Append(calls, Started(s[k], q))) = Append(T, Tree(heap, Started(s[k], q)))
    BY TreedMore DEF IInv, CallsFit
  <2> QED BY <1>1, <1>5, <2>1, FreshTree
<1>7. Trees!Asked(pc, u.tree, k, u.required) = q
  <2>1. IsNode(u.tree)
    BY <1>3, <1>4, UnfoldFacts DEF Fit
  <2>2. u.tree.op # "scan"
    <3> HIDE DEF u, k
    <3> QED BY <1>5 DEF Children
  <2>3. u.tree.op \in DOMAIN Fields \ {"scan"}
    BY <2>1, <2>2 DEF IsNode
  <2> HIDE DEF u, k
  <2>4. Trees!Asked(pc, u.tree, k, u.required) = Asked(pc, u.tree, k, u.required)
    BY <2>3, TreeRules
  <2> QED BY <1>4, <2>4
<1>8. Unfolded(heap', frames') = Unfolded(heap, frames)
  BY <1>1
<1>9. (IF pc = "drawing" THEN "optimized" ELSE pc) = pc
  BY <1>2
<1>10. /\ Trees!Last(T) = u /\ k = Len(u.kids) + 1 /\ k \in DOMAIN Trees!Children(u.tree)
       /\ Treed(heap', calls')
             = Append(T, Trees!Started(Trees!Children(u.tree)[k],
                                       Trees!Asked(pc, u.tree, k, u.required)))
  BY <1>3, <1>4, <1>5, <1>6, <1>7, TreeConstants, TreeNodes
<1>11. /\ T = [x \in DOMAIN calls |->
                 [tree |-> Unfold(heap, calls[x].at), required |-> calls[x].required,
                  kids |-> [i \in DOMAIN calls[x].kids |-> Unfold(heap, calls[x].kids[i])]]]
       /\ Treed(heap', calls')
             = [x \in DOMAIN calls' |->
                 [tree |-> Unfold(heap', calls'[x].at), required |-> calls'[x].required,
                  kids |-> [i \in DOMAIN calls'[x].kids |-> Unfold(heap', calls'[x].kids[i])]]]
       /\ [f \in DOMAIN frames |-> Unfold(heap, frames[f])]
             = [f \in DOMAIN frames' |-> Unfold(heap', frames'[f])]
  BY <1>8 DEF Treed, Tree, Unfolded
<1> HIDE DEF top, k, s, T, u, q
<1> QED BY <1>1, <1>3, <1>9, <1>10, <1>11 DEF Trees!CallOnChild

LEMMA ReturnsTrees == ASSUME IInv, ReturnFromCall PROVE Trees!ReturnFromCall
<1> DEFINE top == Last(calls)
           r   == Returned(pc, heap, top)
           t   == Rewritten(pc, mapChildren(Unfold(heap, top.at), Unfolded(heap, top.kids)),
                            top.required)
           T   == Treed(heap, calls)
           u   == Tree(heap, top)
<1>1. /\ calls # <<>> /\ Fit(heap, top) /\ Len(top.kids) = Len(Children(heap[top.at]))
      /\ heap' = r.heap /\ Makes(heap, r, t)
      /\ IF Front(calls) = <<>>
         THEN calls' = <<>> /\ next' = r.at /\ pc' = Following[pc]
         ELSE /\ calls' = [Front(calls) EXCEPT ![Len(Front(calls))].kids = Append(@, r.at)]
              /\ UNCHANGED <<next, pc>>
      /\ UNCHANGED <<frames, current, iter>>
  BY ReturnFromFacts
<1>2. pc \in DOMAIN Following
  BY <1>1 DEF IInv, OptimizeFits
<1>3. /\ WellFormed(heap) /\ WellFormed(heap') /\ Extends(heap, heap')
      /\ Unfold(heap', r.at) = t
  BY <1>1 DEF Makes, IInv
<1>4. T # <<>> /\ Last(T) = u /\ ((Front(T) = <<>>) <=> (Front(calls) = <<>>))
  BY <1>1, LastTree
<1>5. /\ u.tree = Unfold(heap, top.at) /\ u.required = top.required
      /\ u.kids = Unfolded(heap, top.kids)
      /\ Len(u.kids) = Len(Children(u.tree))
  <2>1. /\ u.tree = Unfold(heap, top.at) /\ u.required = top.required
        /\ u.kids = Unfolded(heap, top.kids)
    BY DEF Tree
  <2>2. Len(u.kids) = Len(top.kids)
    BY <1>1, <2>1, UnfoldedFacts DEF Fit
  <2>3. Children(u.tree) = Unfolded(heap, Children(heap[top.at]))
    BY <1>1, <1>3, <2>1, UnfoldFacts DEF Fit
  <2>4. IsSeq(Children(heap[top.at]))
    BY <1>1, <1>3, ChildAddresses DEF Fit
  <2>5. Len(Children(u.tree)) = Len(Children(heap[top.at]))
    BY <2>3, <2>4, UnfoldedFacts
  <2> QED BY <1>1, <2>1, <2>2, <2>5
<1>6. t = Rewritten(pc, mapChildren(u.tree, u.kids), u.required)
  BY <1>5
<1>7. /\ Unfold(heap', next) = Unfold(heap, next)
      /\ Unfold(heap', current') = Unfold(heap, current)
      /\ Unfolded(heap', frames') = Unfolded(heap, frames)
  BY <1>1, <1>3, TreesKept
<1>10. /\ T = [x \in DOMAIN calls |->
                 [tree |-> Unfold(heap, calls[x].at), required |-> calls[x].required,
                  kids |-> [i \in DOMAIN calls[x].kids |-> Unfold(heap, calls[x].kids[i])]]]
       /\ Treed(heap', calls')
             = [x \in DOMAIN calls' |->
                 [tree |-> Unfold(heap', calls'[x].at), required |-> calls'[x].required,
                  kids |-> [i \in DOMAIN calls'[x].kids |-> Unfold(heap', calls'[x].kids[i])]]]
       /\ [f \in DOMAIN frames |-> Unfold(heap, frames[f])]
             = [f \in DOMAIN frames' |-> Unfold(heap', frames'[f])]
  BY <1>7 DEF Treed, Tree, Unfolded
<1>11. /\ Trees!Last(T) = u /\ Trees!Front(T) = Front(T)
       /\ Len(u.kids) = Len(Trees!Children(u.tree))
       /\ Trees!Rewritten(pc, Trees!mapChildren(u.tree, u.kids), u.required) = t
       /\ Trees!Following = Following
  BY <1>4, <1>5, <1>6, TreeConstants, TreeNodes, TreeRules
<1>12. pc # "drawing" /\ (IF pc = "drawing" THEN "optimized" ELSE pc) = pc
  BY <1>2, FollowingFacts
<1>8. CASE Front(calls) = <<>>
  <2>1. Treed(heap', calls') = <<>>
    <3>1. IsSeq(Treed(heap', <<>>)) /\ Len(Treed(heap', <<>>)) = 0
      BY NoElements, TreedFacts
    <3> QED BY <1>1, <1>8, <3>1, SeqFacts
  <2>2. /\ Front(T) = <<>> /\ Unfold(heap', next') = t
        /\ pc' = Following[pc] /\ pc' # "drawing"
    BY <1>1, <1>2, <1>3, <1>4, <1>8, FollowingFacts
  <2> HIDE DEF top, r, t, T, u
  <2> QED
    BY <1>1, <1>4, <1>7, <1>10, <1>11, <1>12, <2>1, <2>2 DEF Trees!ReturnFromCall
<1>9. CASE Front(calls) # <<>>
  <2>1. /\ Front(T) # <<>>
        /\ Treed(heap', [Front(calls) EXCEPT ![Len(Front(calls))].kids = Append(@, r.at)])
              = [Front(T) EXCEPT ![Len(Front(T))].kids = Append(@, Unfold(heap', r.at))]
    <3> DEFINE b == r.at
               g == heap'
    <3>1. CallsFit(heap, calls, next) /\ calls # <<>> /\ WellFormed(g) /\ Extends(heap, g)
      BY <1>1, <1>3 DEF IInv
    <3> HIDE DEF b, g, top, r, t, u
    <3>2. LET S == Treed(heap, calls) IN
          Front(S) # <<>> /\ Treed(g, Grown(Front(calls), b)) = Grown(Front(S), Unfold(g, b))
      BY <1>3, <1>9, <3>1, TreedLess
    <3> QED BY <3>2 DEF b, g, Grown
  <2>2. /\ Treed(heap', calls') = [Front(T) EXCEPT ![Len(Front(T))].kids = Append(@, t)]
        /\ Unfold(heap', next') = Unfold(heap, next) /\ pc' = pc
    BY <1>1, <1>3, <1>7, <1>9, <2>1
  <2> HIDE DEF top, r, t, T, u
  <2> QED
    BY <1>1, <1>4, <1>7, <1>10, <1>11, <1>12, <2>1, <2>2 DEF Trees!ReturnFromCall
<1> QED BY <1>8, <1>9

LEMMA ComparesTrees == ASSUME IInv, Compare PROVE Trees!Compare
<1> DEFINE A == Unfold(heap, next)
           B == Unfold(heap, current)
<1>1. /\ pc = "compare" /\ current' = next /\ iter' = iter + 1
      /\ pc' = IF next = current \/ planEquals(A, B) \/ iter' = MaxRounds
               THEN "optimized" ELSE "fold"
      /\ UNCHANGED <<heap, frames, next, calls>>
  BY DEF Compare
<1>2. next = current => A = B
  OBVIOUS
<1>3. Unfold(heap', next') = A /\ Unfold(heap', current') = A
  BY <1>1
<1> HIDE DEF A, B
<1>4. pc' = IF Trees!planEquals(A, B) \/ iter' = MaxRounds THEN "optimized" ELSE "fold"
  BY <1>1, <1>2, TreeConstants DEF planEquals
<1>5. pc' # "drawing"
  BY <1>4
<1>6. /\ [f \in DOMAIN frames' |-> Unfold(heap', frames'[f])]
             = [f \in DOMAIN frames |-> Unfold(heap, frames[f])]
      /\ [x \in DOMAIN calls' |->
             [tree |-> Unfold(heap', calls'[x].at), required |-> calls'[x].required,
              kids |-> [i \in DOMAIN calls'[x].kids |-> Unfold(heap', calls'[x].kids[i])]]]
            = [x \in DOMAIN calls |->
             [tree |-> Unfold(heap, calls[x].at), required |-> calls[x].required,
              kids |-> [i \in DOMAIN calls[x].kids |-> Unfold(heap, calls[x].kids[i])]]]
  BY <1>1
<1> QED BY <1>1, <1>3, <1>4, <1>5, <1>6 DEF Trees!Compare, A, B

\* The drawing is not the optimizer's: over trees nothing happens.
LEMMA DrawsNothing ==
    ASSUME IInv, Explain \/ WalkStep \/ UNCHANGED vars
    PROVE  UNCHANGED Trees!vars
<1>1. /\ UNCHANGED <<heap, frames, current, next, iter, calls>>
      /\ (IF pc' = "drawing" THEN "optimized" ELSE pc') = (IF pc = "drawing" THEN "optimized" ELSE pc)
  BY DEF Explain, Draw, WalkStep, Walk, Enter, Descend, Return, vars
<1> QED BY <1>1 DEF Trees!vars

\* With the call the plan it optimized goes; frames keep theirs, and a new one may have it.
LEMMA FinishDelivers ==
    ASSUME IInv, NEW kept, IsSeq(kept), Len(kept) \in 1..MaxFrames,
           \A f \in 1..Len(kept) : kept[f] \in 0..Len(heap),
           pc \in {"optimized", "drawing"}, Finish(kept),
           \/ Unfolded(heap, kept) = Unfolded(heap, frames)
           \/ Unfolded(heap, kept) = Append(Unfolded(heap, frames), Unfold(heap, current))
    PROVE  Trees!Deliver
<1>1. /\ WellFormed(heap') /\ WellFormed(heap) /\ Extends(heap', heap)
      /\ \A f \in 1..Len(kept) : kept[f] \in 0..Len(heap')
  BY FinishFacts DEF IInv
<1>2. Unfolded(heap', kept) = Unfolded(heap, kept)
  BY <1>1, UnfoldedExtends
<1>3. Unfold(heap', 0) = Nothing
  BY <1>1, UnfoldRule
<1>4. /\ pc' = "idle" /\ frames' = kept /\ current' = 0 /\ next' = 0 /\ iter' = 0
      /\ calls' = calls
  BY DEF Finish
<1>5. calls = <<>>
  BY DEF IInv, OptimizeFits, Following
<1>6. Treed(heap', calls') = Treed(heap, calls)
  <2>1. \A h : IsSeq(Treed(h, <<>>)) /\ Len(Treed(h, <<>>)) = 0
    BY NoElements, TreedFacts
  <2>2. \A h : Treed(h, <<>>) = <<>>
    BY <2>1, SeqFacts
  <2> QED BY <1>4, <1>5, <2>2
<1>7. \/ Unfolded(heap', frames') = Unfolded(heap, frames)
      \/ Unfolded(heap', frames') = Append(Unfolded(heap, frames), Unfold(heap, current))
  BY <1>2, <1>4
<1>8. Unfold(heap', current') = Nothing /\ Unfold(heap', next') = Nothing
  BY <1>3, <1>4
<1>9. (IF pc = "drawing" THEN "optimized" ELSE pc) = "optimized"
  OBVIOUS
<1> QED BY <1>4, <1>6, <1>7, <1>8, <1>9, Mapped DEF Trees!Deliver, Unfolded, Treed, Tree

LEMMA DropDelivers == ASSUME IInv, Drop PROVE Trees!Deliver
<1>1. pc \in {"optimized", "drawing"} /\ Finish(frames)
  BY DropWhen
<1> QED BY <1>1, FinishDelivers DEF IInv, FramesFit

LEMMA KeepDelivers == ASSUME IInv, Keep PROVE Trees!Deliver
<1> DEFINE kept == Append(frames, current)
<1>1. pc = "optimized" /\ Finish(kept)
  BY DEF Keep
<1>2. /\ IsSeq(kept) /\ Len(kept) \in 1..MaxFrames
      /\ \A f \in 1..Len(kept) : kept[f] \in 0..Len(heap)
  BY Kept
<1>3. Unfolded(heap, kept) = Append(Unfolded(heap, frames), Unfold(heap, current))
  BY UnfoldedMore DEF IInv, FramesFit
<1> HIDE DEF kept
<1> QED BY <1>1, <1>2, <1>3, FinishDelivers

\* Each step over addresses is one over trees, or none.
LEMMA TreesStep ==
    ASSUME IInv, [Next]_vars
    PROVE  Trees!Next \/ UNCHANGED Trees!vars
<1>1. CASE ScanCall \/ NodeCall \/ JoinCall
  BY <1>1, CallsBuild DEF Trees!Next
<1>2. CASE Optimize
  BY <1>2, OptimizesTrees DEF Trees!Next
<1>3. CASE StartPass
  BY <1>3, StartsPassOnTrees DEF Trees!Next
<1>4. CASE CallOnChild
  BY <1>4, CallsOnTrees DEF Trees!Next
<1>5. CASE ReturnFromCall
  BY <1>5, ReturnsTrees DEF Trees!Next
<1>6. CASE Compare
  BY <1>6, ComparesTrees DEF Trees!Next
<1>7. CASE Explain \/ WalkStep \/ UNCHANGED vars
  BY <1>7, DrawsNothing
<1>8. CASE Drop
  BY <1>8, DropDelivers DEF Trees!Next
<1>9. CASE Keep
  BY <1>9, KeepDelivers DEF Trees!Next
<1> QED
  BY <1>1, <1>2, <1>3, <1>4, <1>5, <1>6, <1>7, <1>8, <1>9 DEF Next

\* Sharing is not observable: frames over shared, copied and freed nodes are values, trees that
\* nothing but the call that makes a frame decides, and each call of each pass returns what it
\* makes of the tree under its node; for any plans, passes and kernels of theirs.
THEOREM FramesAreTrees == Spec => ImplementsPlanTrees
<1>1. Init => Trees!Init
  BY StartsTrees, InitIInv
<1>2. IInv /\ [Next]_vars => [Trees!Next]_(Trees!vars)
  BY TreesStep
<1> QED
  BY <1>1, <1>2, Invariant, PTL DEF Spec, ImplementsPlanTrees, Trees!Spec
=============================================================================
