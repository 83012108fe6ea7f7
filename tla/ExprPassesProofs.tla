-------------------------- MODULE ExprPassesProofs --------------------------
(***************************************************************************)
(* Theorems about ExprPasses.                                              *)
(***************************************************************************)
EXTENDS ExprPasses, TLAPS, SequenceTheorems

-----------------------------------------------------------------------------
\* Integers: what wrapping around keeps, and congruence modulo the narrow width.

Modulus == 2 * Half.INT32

Same(a, b) == (a - b) % Modulus = 0

\* Quotient and remainder of integers, as TLC and C++ agree on for a positive divisor.
LEMMA Division ==
    ASSUME NEW a \in Int, NEW b \in Nat \ {0}
    PROVE  /\ a \div b \in Int /\ a % b \in 0..b - 1
           /\ a % b = a - b * (a \div b)
  OBVIOUS

\* A multiple has no remainder.
LEMMA Multiple ==
    ASSUME NEW k \in Int, NEW b \in Nat \ {0}
    PROVE  (k * b) % b = 0
  OBVIOUS

\* The ranges of the integer types are not empty, and the wide one is a multiple of the narrow one.
LEMMA HalfFacts ==
    /\ \A t \in {"INT32", "INT64"} : Half[t] \in Nat \ {0} /\ 2 * Half[t] \in Nat \ {0}
    /\ Modulus \in Nat \ {0}
    /\ \A t \in {"INT32", "INT64"} : \E q \in Nat \ {0} : 2 * Half[t] = Modulus * q
<1>1. Half.INT32 \in Nat \ {0} /\ Half.INT64 \in Nat \ {0}
  BY HalfAssumption
<1>2. \A n \in Nat \ {0} : 2 * n \in Nat \ {0}
  OBVIOUS
<1>3. \E q \in Nat \ {0} : 2 * Half.INT32 = Modulus * q
  <2>1. 1 \in Nat \ {0} /\ 2 * Half.INT32 = Modulus * 1
    BY <1>1 DEF Modulus
  <2> QED BY <2>1
<1>4. \E q \in Nat \ {0} : 2 * Half.INT64 = Modulus * q
  <2> DEFINE h == Half.INT32
             w == Half.INT64
             q == w \div h
  <2>1. h \in Nat \ {0} /\ w \in Nat \ {0} /\ w % h = 0
    BY HalfAssumption
  <2> HIDE DEF h, w
  <2>2. q \in Int /\ w % h = w - h * q
    BY <2>1, Division
  <2> HIDE DEF q
  <2>3. w = h * q
    BY <2>1, <2>2
  <2>4. q > 0
    BY <2>1, <2>2, <2>3
  <2>5. 2 * w = (2 * h) * q
    BY <2>1, <2>2, <2>3
  <2>6. q \in Nat \ {0}
    BY <2>2, <2>4
  <2> QED BY <2>5, <2>6 DEF h, w, Modulus
<1> QED
  BY <1>1, <1>2, <1>3, <1>4 DEF Modulus

\* To be congruent is to differ by a multiple of the narrow range.
LEMMA SameFacts ==
    ASSUME NEW a \in Int, NEW b \in Int
    PROVE  /\ Same(a, a)
           /\ Same(a, b) => \E k \in Int : a = b + k * Modulus
           /\ \A k \in Int : a = b + k * Modulus => Same(a, b)
<1>0. Modulus \in Nat \ {0}
  BY HalfFacts
<1>1. \A k \in Int : a = b + k * Modulus => Same(a, b)
  <2> SUFFICES ASSUME NEW k \in Int, a = b + k * Modulus PROVE Same(a, b)
    OBVIOUS
  <2> DEFINE m == Modulus
  <2>1. m \in Nat \ {0}
    BY <1>0
  <2>2. a = b + k * m
    OBVIOUS
  <2> HIDE DEF m
  <2>3. a - b = k * m
    BY <2>1, <2>2
  <2>4. (a - b) % m = 0
    BY <2>1, <2>3, Multiple
  <2> QED BY <2>4 DEF Same, m
<1>2. Same(a, a)
  <2>1. a - a = 0 /\ 0 % Modulus = 0
    BY <1>0
  <2> QED BY <2>1 DEF Same
<1>3. Same(a, b) => \E k \in Int : a = b + k * Modulus
  <2> SUFFICES ASSUME Same(a, b) PROVE \E k \in Int : a = b + k * Modulus
    OBVIOUS
  <2> DEFINE m == Modulus
             c == a - b
             k == c \div m
  <2>1. m \in Nat \ {0} /\ c \in Int
    BY <1>0
  <2>2. c % m = 0
    BY DEF Same
  <2> HIDE DEF c, m
  <2>3. k \in Int /\ c % m = c - m * k
    BY <2>1, Division
  <2> HIDE DEF k
  <2>4. c = k * m
    BY <2>1, <2>2, <2>3
  <2>5. a = b + k * m
    BY <2>1, <2>3, <2>4 DEF c
  <2> QED BY <2>3, <2>5 DEF m
<1> QED
  BY <1>1, <1>2, <1>3

\* Congruence is transitive: losses of several steps are one.
LEMMA SameTransitive ==
    ASSUME NEW a \in Int, NEW b \in Int, NEW c \in Int, Same(a, b), Same(b, c)
    PROVE  Same(a, c)
<1>1. PICK k \in Int : a = b + k * Modulus
  BY SameFacts
<1>2. PICK n \in Int : b = c + n * Modulus
  BY SameFacts
<1> DEFINE m == Modulus
<1>3. m \in Int /\ a = b + k * m /\ b = c + n * m
  BY <1>1, <1>2, HalfFacts
<1> HIDE DEF m
<1>4. a = c + (k + n) * m /\ k + n \in Int
  BY <1>3
<1> QED
  BY <1>4, SameFacts DEF m

\* Sums, differences, products and negations of congruent integers are congruent.
LEMMA SameOperated ==
    ASSUME NEW a \in Int, NEW b \in Int, NEW c \in Int, NEW d \in Int, Same(a, c), Same(b, d)
    PROVE  Same(a + b, c + d) /\ Same(a - b, c - d) /\ Same(a * b, c * d) /\ Same(-a, -c)
<1>1. PICK k \in Int : a = c + k * Modulus
  BY SameFacts
<1>2. PICK n \in Int : b = d + n * Modulus
  BY SameFacts
<1> DEFINE m == Modulus
<1>3. m \in Int /\ a = c + k * m /\ b = d + n * m
  BY <1>1, <1>2, HalfFacts
<1> HIDE DEF m
<1>4. a + b = (c + d) + (k + n) * m /\ k + n \in Int
  BY <1>3
<1>5. a - b = (c - d) + (k - n) * m /\ k - n \in Int
  BY <1>3
<1>6. -a = -c + (-k) * m /\ -k \in Int
  BY <1>3
<1>7. a * b = c * d + (c * n + k * d + k * n * m) * m
  <2>1. a * b = (c + k * m) * (d + n * m)
    BY <1>3
  <2>2. (c + k * m) * (d + n * m) = c * d + c * (n * m) + (k * m) * d + (k * m) * (n * m)
    BY <1>3
  <2>3. (c * n + k * d + k * n * m) * m = c * (n * m) + (k * m) * d + (k * m) * (n * m)
    BY <1>3
  <2> DEFINE p == c * d
             q == c * (n * m)
             r == (k * m) * d
             s == (k * m) * (n * m)
  <2>4. p \in Int /\ q \in Int /\ r \in Int /\ s \in Int
    BY <1>3
  <2>5. a * b = p + q + r + s /\ (c * n + k * d + k * n * m) * m = q + r + s
    BY <2>1, <2>2, <2>3
  <2> HIDE DEF p, q, r, s
  <2>6. a * b = p + (c * n + k * d + k * n * m) * m
    BY <2>4, <2>5
  <2> QED BY <2>6 DEF p
<1>8. c * n + k * d + k * n * m \in Int
  BY <1>3
<1>9. /\ a + b \in Int /\ c + d \in Int /\ a - b \in Int /\ c - d \in Int
      /\ a * b \in Int /\ c * d \in Int /\ -a \in Int /\ -c \in Int
  OBVIOUS
<1> DEFINE u == c * n + k * d + k * n * m
<1>10. u \in Int /\ a * b = c * d + u * m
  BY <1>7, <1>8
<1> HIDE DEF u
<1>11. Same(a + b, c + d)
  BY <1>4, <1>9, SameFacts DEF m
<1>12. Same(a - b, c - d)
  BY <1>5, <1>9, SameFacts DEF m
<1>13. Same(a * b, c * d)
  BY <1>9, <1>10, SameFacts DEF m
<1>14. Same(-a, -c)
  BY <1>6, <1>9, SameFacts DEF m
<1> QED
  BY <1>11, <1>12, <1>13, <1>14

\* Wrapping around gives an integer of the type, the same one if it was one, and a
\* congruent one at least.
LEMMA WrapFacts ==
    ASSUME NEW t \in {"INT32", "INT64"}, NEW n \in Int
    PROVE  /\ Wrap(t, n) \in -Half[t]..Half[t] - 1 /\ Wrap(t, n) \in Int
           /\ n \in -Half[t]..Half[t] - 1 => Wrap(t, n) = n
           /\ Same(Wrap(t, n), n) /\ Same(n, Wrap(t, n))
<1> DEFINE h == Half[t]
           w == Wrap(t, n)
           k == (n + h) \div (2 * h)
<1>1. h \in Nat \ {0} /\ 2 * h \in Nat \ {0}
  BY HalfFacts
<1>2. PICK q \in Nat \ {0} : 2 * h = Modulus * q
  BY HalfFacts
<1>3. w = ((n + h) % (2 * h)) - h
  BY DEF Wrap
<1> HIDE DEF h, w
<1>4. /\ n + h \in Int /\ k \in Int /\ (n + h) % (2 * h) \in 0..(2 * h) - 1
      /\ (n + h) % (2 * h) = (n + h) - (2 * h) * k
  <2> DEFINE x == n + h
             d == 2 * h
  <2>1. x \in Int /\ d \in Nat \ {0}
    BY <1>1
  <2> HIDE DEF x, d
  <2>2. x \div d \in Int /\ x % d \in 0..d - 1 /\ x % d = x - d * (x \div d)
    BY <2>1, Division
  <2> QED BY <2>1, <2>2 DEF x, d
<1> HIDE DEF k
<1>6. w \in -h..h - 1
  BY <1>1, <1>3, <1>4
<1>7. n \in -h..h - 1 => w = n
  BY <1>1, <1>3
<1>8. w = n - (2 * h) * k
  BY <1>1, <1>3, <1>4
<1>9. Modulus \in Nat \ {0}
  BY HalfFacts
<1> DEFINE m == Modulus
<1>10. m \in Int /\ 2 * h = m * q
  BY <1>2, <1>9
<1> HIDE DEF m
<1>11. w = n + (-(q * k)) * m /\ n = w + (q * k) * m /\ q * k \in Int /\ -(q * k) \in Int
  <2>1. (2 * h) * k = (m * q) * k
    BY <1>10
  <2>2. (m * q) * k = (q * k) * m /\ (-(q * k)) * m = -((q * k) * m) /\ q * k \in Int
    BY <1>4, <1>10
  <2> DEFINE p == (q * k) * m
  <2>3. p \in Int /\ w = n - p /\ (-(q * k)) * m = -p
    BY <2>1, <2>2, <1>8, <1>10
  <2> HIDE DEF p
  <2>4. w = n + (-(q * k)) * m /\ n = w + p
    BY <2>3
  <2> QED BY <2>2, <2>4 DEF p
<1>12. w \in Int
  BY <1>1, <1>6
<1> DEFINE u == q * k
<1>13. u \in Int /\ -u \in Int /\ w = n + (-u) * m /\ n = w + u * m
  BY <1>11
<1> HIDE DEF u
<1>14. Same(w, n) /\ Same(n, w)
  BY <1>12, <1>13, SameFacts DEF m
<1> QED
  BY <1>6, <1>7, <1>12, <1>14 DEF h, w

\* Division and remainder that truncate towards zero.
LEMMA QuotFacts ==
    ASSUME NEW a \in Int, NEW b \in Int, b # 0
    PROVE  /\ Quot(a, b) \in Int /\ Quot(a, 1) = a
           /\ a >= 0 => Rem(a, b) \in 0..a
           /\ a < 0 => Rem(a, b) \in a..0
<1> DEFINE A == Abs(a)
           B == Abs(b)
           q == A \div B
           r == A % B
<1>1. /\ A \in Nat /\ B \in Nat \ {0}
      /\ a >= 0 => Sign(a) = 1 /\ A = a
      /\ a < 0 => Sign(a) = -1 /\ A = -a
      /\ b > 0 => Sign(b) = 1 /\ B = b
      /\ b < 0 => Sign(b) = -1 /\ B = -b
  BY DEF Abs, Sign
<1>2. Quot(a, b) = Sign(a) * Sign(b) * q
  BY DEF Quot
<1>3. Quot(a, 1) = a
  <2>1. Quot(a, 1) = Sign(a) * Sign(1) * (A \div Abs(1)) /\ Sign(1) = 1 /\ Abs(1) = 1
    BY DEF Quot, Abs, Sign
  <2>2. A \div 1 = A
    BY <1>1
  <2> HIDE DEF A
  <2>3. Quot(a, 1) = Sign(a) * 1 * A
    BY <2>1, <2>2
  <2> QED BY <1>1, <2>3
<1> HIDE DEF A, B
<1>4. q \in Int /\ r \in 0..B - 1 /\ r = A - B * q
  <2>1. A \in Int /\ B \in Nat \ {0}
    BY <1>1
  <2>2. A \div B \in Int /\ A % B \in 0..B - 1 /\ A % B = A - B * (A \div B)
    BY <2>1, Division
  <2> QED BY <2>2
<1> HIDE DEF q, r
<1>5. B * q >= 0 /\ B * q <= A
  <2>1. q >= 0
    <3> SUFFICES ASSUME q <= -1 PROVE FALSE
      BY <1>4
    <3>1. B * q <= B * (-1)
      BY <1>1, <1>4
    <3> QED BY <1>1, <1>4, <3>1
  <2>2. B * q >= 0
    BY <1>1, <1>4, <2>1
  <2> QED BY <1>1, <1>4, <2>2
<1>6. Quot(a, b) \in Int /\ b * Quot(a, b) = Sign(a) * (B * q)
  <2>1. CASE b > 0
    <3>1. Quot(a, b) = Sign(a) * 1 * q /\ B = b
      BY <1>1, <1>2, <2>1
    <3>2. Sign(a) \in {-1, 1}
      BY <1>1
    <3> QED BY <1>4, <3>1, <3>2
  <2>2. CASE b < 0
    <3>1. Quot(a, b) = Sign(a) * (-1) * q /\ B = -b
      BY <1>1, <1>2, <2>2
    <3>2. Sign(a) \in {-1, 1}
      BY <1>1
    <3> QED BY <1>4, <3>1, <3>2
  <2> QED BY <2>1, <2>2
<1>7. Rem(a, b) = a - Sign(a) * (B * q)
  BY <1>6 DEF Rem
<1> DEFINE p == B * q
<1>8. p \in Int /\ p >= 0 /\ p <= A /\ Rem(a, b) = a - Sign(a) * p
  BY <1>1, <1>4, <1>5, <1>7
<1> HIDE DEF p
<1>9. a >= 0 => Rem(a, b) \in 0..a
  BY <1>1, <1>8
<1>10. a < 0 => Rem(a, b) \in a..0
  BY <1>1, <1>8
<1> QED
  BY <1>3, <1>6, <1>9, <1>10

-----------------------------------------------------------------------------
\* Cells and columns: what evaluating a node makes of columns of the right type.

IsSeq(s) == s \in Seq({s[x] : x \in DOMAIN s})

\* A function on 1..n is a sequence of length n.
LEMMA MadeSeq ==
    ASSUME NEW n \in Nat, NEW s, s = [x \in 1..n |-> s[x]]
    PROVE  IsSeq(s) /\ Len(s) = n /\ DOMAIN s = 1..n
<1> DEFINE S == {s[x] : x \in DOMAIN s}
<1>1. DOMAIN s = 1..n
  OBVIOUS
<1>2. \A x \in 1..n : s[x] \in S
  BY <1>1
<1> HIDE DEF S
<1>3. s \in [1..n -> S]
  BY <1>1, <1>2
<1>4. s \in Seq(S) /\ Len(s) = n
  BY <1>3
<1> QED
  BY <1>1, <1>4 DEF IsSeq, S

\* Which cells a column of each type may have; the null cell is none of the others.
LEMMA CellsFacts ==
    /\ \A t \in Types : Null \in Cells(t)
    /\ \A t \in {"INT32", "INT64"} :
         \A x : x \in Cells(t) <=> x = Null \/ x \in -Half[t]..Half[t] - 1
    /\ \A x : x \in Cells("UINT64") <=> x = Null \/ x \in 0..2 * Half.INT64 - 1
    /\ \A x : x \in Cells("BOOLEAN") <=> x \in {Null, 0, 1}
    /\ \A t \in Types : \A x \in Cells(t) : x = Null \/ x \in Int
    /\ Null # 0 /\ Null # 1
<1>1. \A t \in {"INT32", "INT64"} : Cells(t) = {Null} \cup -Half[t]..Half[t] - 1
  BY DEF Cells, IsNumeric
<1>2. Cells("BOOLEAN") = {Null} \cup {0, 1} /\ Cells("STRING") = {Null} \cup Texts
  BY DEF Cells, IsNumeric
<1>3. Cells("UINT64") = {Null} \cup 0..2 * Half.INT64 - 1
  BY DEF Cells, IsNumeric
<1>4. \A t \in Types : t \in {"INT32", "INT64", "BOOLEAN", "STRING", "UINT64"}
  BY DEF Types, ColTypes
<1>5. \A t \in {"INT32", "INT64"} : Half[t] \in Nat
  BY HalfFacts
<1>6. Texts \subseteq Int /\ Null \notin Int
  BY RowsAssumption, NullAssumption
<1>7. \A t \in Types : Null \in Cells(t)
  BY <1>1, <1>2, <1>3, <1>4
<1>8. \A t \in Types : \A x \in Cells(t) : x = Null \/ x \in Int
  <2> TAKE t \in Types
  <2>1. CASE t \in {"INT32", "INT64"}
    BY <2>1, <1>1, <1>5
  <2>2. CASE t = "BOOLEAN"
    BY <2>2, <1>2
  <2>3. CASE t = "STRING"
    BY <2>3, <1>2, <1>6
  <2>4. CASE t = "UINT64"
    BY <2>4, <1>3
  <2> QED BY <1>4, <2>1, <2>2, <2>3, <2>4
<1> QED
  BY <1>1, <1>2, <1>3, <1>6, <1>7, <1>8

\* The narrower integers are integers of the wider type.
LEMMA Wider ==
    ASSUME NEW s \in {"INT32", "INT64"}, NEW t \in {"INT32", "INT64"}, s = "INT64" => t = "INT64"
    PROVE  \A x \in -Half[s]..Half[s] - 1 : x \in -Half[t]..Half[t] - 1
<1>1. Half.INT32 <= Half.INT64
  <2> DEFINE h == Half.INT32
             w == Half.INT64
             q == w \div h
  <2>1. h \in Nat \ {0} /\ w \in Nat \ {0} /\ w % h = 0
    BY HalfAssumption
  <2> HIDE DEF h, w
  <2>2. w < h => w % h = w
    BY <2>1
  <2> QED BY <2>1, <2>2 DEF h, w
<1>2. Half.INT32 \in Nat /\ Half.INT64 \in Nat
  BY HalfFacts
<1>3. \A x \in -Half.INT32..Half.INT32 - 1 : x \in -Half.INT64..Half.INT64 - 1
  BY <1>1, <1>2
<1> QED
  BY <1>3

Typed(C, n) == C = Throws \/ IsColumn(C, n)

\* A column is not an exception, and is its type and the sequence of its cells.
LEMMA ColumnFacts ==
    ASSUME NEW n \in Nat, NEW C, IsColumn(C, n)
    PROVE  /\ C # Throws /\ C.ty \in Types /\ C = [ty |-> C.ty, v |-> C.v]
           /\ IsSeq(C.v) /\ Len(C.v) \in Nat /\ Len(C.v) \in {1, n} /\ DOMAIN C.v = 1..Len(C.v)
           /\ C.v = [i \in 1..Len(C.v) |-> C.v[i]]
           /\ \A i \in 1..Len(C.v) : C.v[i] \in Cells(C.ty)
<1>1. C = [ty |-> C.ty, v |-> C.v] /\ C.ty \in Types
  BY DEF IsColumn
<1>2. PICK m \in {1, n} : C.v \in [1..m -> Cells(C.ty)]
  BY DEF IsColumn
<1> DEFINE v == C.v
<1>3. m \in Nat /\ v = [i \in 1..m |-> v[i]] /\ \A i \in 1..m : v[i] \in Cells(C.ty)
  BY <1>2
<1> HIDE DEF v
<1>4. IsSeq(v) /\ Len(v) = m /\ DOMAIN v = 1..m
  BY <1>3, MadeSeq
<1>5. C # Throws
  BY <1>1 DEF Throws, Types, ColTypes
<1> QED
  BY <1>1, <1>3, <1>4, <1>5 DEF v

\* Cells of a type make a column of it.
LEMMA MadeColumn ==
    ASSUME NEW n \in Nat, NEW m \in {1, n}, NEW t \in Types, NEW v,
           v = [i \in 1..m |-> v[i]], \A i \in 1..m : v[i] \in Cells(t)
    PROVE  IsColumn([ty |-> t, v |-> v], n)
<1> DEFINE C == [ty |-> t, v |-> v]
<1>1. C.ty = t /\ C.v = v /\ C = [ty |-> C.ty, v |-> C.v]
  OBVIOUS
<1>2. v \in [1..m -> Cells(t)]
  OBVIOUS
<1> HIDE DEF C
<1>3. IsColumn(C, n)
  BY <1>1, <1>2 DEF IsColumn
<1> QED
  BY <1>3 DEF C

\* Columns of one type and length with the same cells are the same.
LEMMA SameColumn ==
    ASSUME NEW n \in Nat, NEW C, NEW D, IsColumn(C, n), IsColumn(D, n), C.ty = D.ty,
           Len(C.v) = Len(D.v), \A i \in 1..Len(C.v) : C.v[i] = D.v[i]
    PROVE  C = D
<1>1. C = [ty |-> C.ty, v |-> C.v] /\ C.v = [i \in 1..Len(C.v) |-> C.v[i]]
  BY ColumnFacts
<1>2. D = [ty |-> D.ty, v |-> D.v] /\ D.v = [i \in 1..Len(D.v) |-> D.v[i]]
  BY ColumnFacts
<1>3. C.v = D.v
  BY <1>1, <1>2
<1> QED
  BY <1>1, <1>2, <1>3

\* What validateBinaryOp lets through: numbers, booleans for AND and OR, one type for both sides.
LEMMA ValidFacts ==
    ASSUME NEW op \in BinaryOps, NEW s, NEW t, ValidOperands(op, s, t)
    PROVE  /\ s \in ColTypes /\ t \in ColTypes
           /\ op \in Arithmetic => {s, t} \subseteq {"INT32", "INT64"}
           /\ op \in {"EQ", "NEQ"} => {s, t} \subseteq {"INT32", "INT64"} \/ s = t
           /\ op \in Logical => s = "BOOLEAN" /\ t = "BOOLEAN"
<1>1. op \in Arithmetic => {s, t} \subseteq {"INT32", "INT64"}
  <2> SUFFICES ASSUME op \in Arithmetic PROVE {s, t} \subseteq {"INT32", "INT64"}
    OBVIOUS
  <2>1. op \notin {"EQ", "NEQ"} /\ op \notin Orderings /\ op \notin Logical
    BY DEF Arithmetic, Orderings, Logical
  <2>2. s \in {"INT32", "INT64"}
    BY <2>1 DEF ValidOperands, IsNumeric
  <2>3. t \in {"INT32", "INT64"}
    BY <2>1 DEF ValidOperands, IsNumeric
  <2> QED BY <2>2, <2>3
<1>2. op \in {"EQ", "NEQ"} => {s, t} \subseteq {"INT32", "INT64"} \/ s = t
  BY DEF ValidOperands, Arithmetic, IsNumeric
<1>3. op \in Logical => s = "BOOLEAN" /\ t = "BOOLEAN"
  BY DEF ValidOperands, Arithmetic, Orderings, Logical
<1>4. s \in ColTypes /\ t \in ColTypes
  BY DEF ValidOperands
<1> QED
  BY <1>1, <1>2, <1>3, <1>4

\* The type of a binary result: the wider operand's, the left one's for MOD, or BOOLEAN.
LEMMA ResultTypeFacts ==
    ASSUME NEW op \in BinaryOps, NEW s, NEW t, ValidOperands(op, s, t)
    PROVE  /\ ResultType(op, s, t) \in ColTypes
           /\ op \in Arithmetic => ResultType(op, s, t) \in {"INT32", "INT64"}
           /\ op \in Arithmetic \ {"MOD"} =>
                /\ s = "INT64" \/ t = "INT64" => ResultType(op, s, t) = "INT64"
                /\ ~(s = "INT64" \/ t = "INT64") => ResultType(op, s, t) = "INT32"
           /\ op = "MOD" => ResultType(op, s, t) = s
           /\ op \notin Arithmetic => ResultType(op, s, t) = "BOOLEAN"
<1>1. op \in Arithmetic => {s, t} \subseteq {"INT32", "INT64"}
  BY ValidFacts
<1>2. "MOD" \in Arithmetic
  BY DEF Arithmetic
<1> QED
  BY <1>1, <1>2 DEF ResultType, Promote, ColTypes

\* One cell of evalBinaryExpr, operator by operator, with null operands and without.
LEMMA BinaryCellFacts ==
    ASSUME NEW op \in BinaryOps, NEW t, NEW a, NEW b
    PROVE  /\ op \notin Logical /\ Null \in {a, b} => BinaryCell(op, t, a, b) = Null
           /\ Null \notin {a, b} =>
                /\ op = "ADD" => BinaryCell(op, t, a, b) = Wrap(t, a + b)
                /\ op = "SUB" => BinaryCell(op, t, a, b) = Wrap(t, a - b)
                /\ op = "MUL" => BinaryCell(op, t, a, b) = Wrap(t, a * b)
                /\ op = "DIV" => BinaryCell(op, t, a, b) = Wrap(t, Quot(a, b))
                /\ op = "MOD" => BinaryCell(op, t, a, b) = IF b = 0 THEN Null ELSE Rem(a, b)
                /\ op = "EQ" => BinaryCell(op, t, a, b) = Truth(a = b)
                /\ op \in {"EQ", "NEQ"} \cup Orderings => BinaryCell(op, t, a, b) \in {0, 1}
           /\ op = "AND" => BinaryCell(op, t, a, b) = And3(a, b)
           /\ op = "OR" => BinaryCell(op, t, a, b) = Or3(a, b)
<1>1. op = "AND" => BinaryCell(op, t, a, b) = And3(a, b)
  BY DEF BinaryCell
<1>2. op = "OR" => BinaryCell(op, t, a, b) = Or3(a, b)
  BY DEF BinaryCell
<1>3. op \notin Logical =>
        BinaryCell(op, t, a, b) = IF Null \in {a, b} THEN Null ELSE Apply(op, t, a, b)
  BY DEF BinaryCell, Logical
<1>4. op \in Logical <=> op \in {"AND", "OR"}
  BY DEF Logical
<1>5. /\ op = "ADD" => Apply(op, t, a, b) = Wrap(t, a + b)
      /\ op = "SUB" => Apply(op, t, a, b) = Wrap(t, a - b)
      /\ op = "MUL" => Apply(op, t, a, b) = Wrap(t, a * b)
  BY DEF Apply
<1>6. /\ op = "DIV" => Apply(op, t, a, b) = Wrap(t, Quot(a, b))
      /\ op = "MOD" => Apply(op, t, a, b) = IF b = 0 THEN Null ELSE Rem(a, b)
      /\ op = "EQ" => Apply(op, t, a, b) = Truth(a = b)
  BY DEF Apply
<1>7. op \in {"EQ", "NEQ"} \cup Orderings => Apply(op, t, a, b) \in {0, 1}
  <2>1. \A x \in BOOLEAN : Truth(x) \in {0, 1}
    BY DEF Truth
  <2>2. op = "EQ" => Apply(op, t, a, b) = Truth(a = b)
    BY DEF Apply
  <2>3. op = "NEQ" => Apply(op, t, a, b) = Truth(a # b)
    BY DEF Apply
  <2>4. op = "LT" => Apply(op, t, a, b) = Truth(a < b)
    BY DEF Apply
  <2>5. op = "LE" => Apply(op, t, a, b) = Truth(a <= b)
    BY DEF Apply
  <2>6. op = "GT" => Apply(op, t, a, b) = Truth(a > b)
    BY DEF Apply
  <2>7. op = "GE" => Apply(op, t, a, b) = Truth(a >= b)
    BY DEF Apply
  <2> QED BY <2>2, <2>3, <2>4, <2>5, <2>6, <2>7 DEF Truth, Orderings
<1> QED
  BY <1>1, <1>2, <1>3, <1>4, <1>5, <1>6, <1>7 DEF Orderings

\* An operator makes a cell of the type of its result of cells of the types it accepts.
LEMMA BinaryCellTyped ==
    ASSUME NEW op \in BinaryOps, NEW s, NEW t, ValidOperands(op, s, t),
           NEW a \in Cells(s), NEW b \in Cells(t),
           ~(Null \notin {a, b} /\ Breaks(op, ResultType(op, s, t), a, b))
    PROVE  BinaryCell(op, ResultType(op, s, t), a, b) \in Cells(ResultType(op, s, t))
<1> DEFINE r == ResultType(op, s, t)
           x == BinaryCell(op, r, a, b)
<1>1. r \in Types /\ s \in Types /\ t \in Types
  BY ResultTypeFacts, ValidFacts DEF Types
<1>2. a \in {Null} \cup Int /\ b \in {Null} \cup Int
  BY <1>1, CellsFacts
<1>3. CASE op \in Logical
  <2>1. /\ s = "BOOLEAN" /\ t = "BOOLEAN" /\ r = "BOOLEAN"
        /\ a \in {Null, 0, 1} /\ b \in {Null, 0, 1}
    BY <1>3, ValidFacts, ResultTypeFacts, CellsFacts DEF Logical, Arithmetic
  <2>2. x \in {Null, 0, 1}
    BY <1>3, <2>1, BinaryCellFacts, CellsFacts DEF Logical, And3, Or3
  <2> QED BY <2>1, <2>2, CellsFacts
<1>4. CASE op \notin Logical /\ Null \in {a, b}
  BY <1>1, <1>4, BinaryCellFacts, CellsFacts
<1>5. CASE op \in {"EQ", "NEQ"} \cup Orderings /\ Null \notin {a, b}
  <2>1. op \notin Arithmetic
    BY <1>5 DEF Arithmetic, Orderings
  <2>2. r = "BOOLEAN"
    BY <2>1, ResultTypeFacts
  <2>3. x \in {0, 1}
    BY <1>5, BinaryCellFacts
  <2> QED BY <2>2, <2>3, CellsFacts
<1>6. CASE op \in Arithmetic /\ Null \notin {a, b}
  <2>1. s \in {"INT32", "INT64"} /\ t \in {"INT32", "INT64"} /\ r \in {"INT32", "INT64"}
    BY <1>6, ValidFacts, ResultTypeFacts
  <2>2. a \in Int /\ b \in Int
    BY <1>2, <1>6
  <2>3. \A n \in Int : Wrap(r, n) \in Cells(r)
    <3> HIDE DEF r
    <3> QED BY <2>1, WrapFacts, CellsFacts
  <2>4. CASE op \in {"ADD", "SUB", "MUL"}
    <3>1. a + b \in Int /\ a - b \in Int /\ a * b \in Int
      BY <2>2
    <3> HIDE DEF r
    <3>2. x \in Cells(r)
      BY <1>6, <2>3, <2>4, <3>1, BinaryCellFacts
    <3> QED BY <3>2 DEF r
  <2>5. CASE op = "DIV"
    <3>1. b # 0
      BY <1>6, <2>5 DEF Breaks
    <3>2. Quot(a, b) \in Int
      BY <2>2, <3>1, QuotFacts
    <3> HIDE DEF r
    <3>3. x \in Cells(r)
      BY <1>6, <2>3, <2>5, <3>2, BinaryCellFacts
    <3> QED BY <3>3 DEF r
  <2>6. CASE op = "MOD"
    <3>1. r = s
      BY <2>6, ResultTypeFacts
    <3>2. a \in -Half[s]..Half[s] - 1 /\ Half[s] \in Nat \ {0}
      BY <1>6, <2>1, CellsFacts, HalfFacts
    <3>3. CASE b # 0
      <4>1. x = Rem(a, b)
        BY <1>6, <2>6, <3>3, BinaryCellFacts
      <4>2. Rem(a, b) \in -Half[s]..Half[s] - 1
        <5>1. a >= 0 => Rem(a, b) \in 0..a
          BY <2>2, <3>3, QuotFacts
        <5>2. a < 0 => Rem(a, b) \in a..0
          BY <2>2, <3>3, QuotFacts
        <5> QED BY <2>2, <3>2, <5>1, <5>2
      <4>3. x \in Cells(r)
        <5> HIDE DEF x, r
        <5> QED BY <2>1, <3>1, <4>1, <4>2, CellsFacts
      <4> QED BY <4>3 DEF x
    <3>4. CASE b = 0
      <4>1. x = Null
        BY <1>6, <2>6, <3>4, BinaryCellFacts
      <4> QED BY <1>1, <4>1, CellsFacts
    <3> QED BY <3>3, <3>4
  <2> QED BY <1>6, <2>4, <2>5, <2>6 DEF Arithmetic
<1> QED
  BY <1>3, <1>4, <1>5, <1>6 DEF BinaryOps

\* evalBinaryExpr on columns of their types throws or gives one of its result type, cell by cell.
LEMMA BinaryFacts ==
    ASSUME NEW n \in Nat, NEW op \in BinaryOps, NEW L, NEW R, Typed(L, n), Typed(R, n)
    PROVE  /\ Typed(evalBinary(op, L, R), n)
           /\ Refused(op, L, R) => evalBinary(op, L, R) = Throws
           /\ ~Refused(op, L, R) =>
                /\ IsColumn(L, n) /\ IsColumn(R, n) /\ ValidOperands(op, L.ty, R.ty)
                /\ Len(L.v) = Len(R.v)
                /\ IsColumn(evalBinary(op, L, R), n)
                /\ evalBinary(op, L, R).ty = ResultType(op, L.ty, R.ty)
                /\ Len(evalBinary(op, L, R).v) = Len(L.v)
                /\ \A i \in 1..Len(L.v) :
                     evalBinary(op, L, R).v[i] =
                        BinaryCell(op, ResultType(op, L.ty, R.ty), L.v[i], R.v[i])
<1>1. Refused(op, L, R) => evalBinary(op, L, R) = Throws
  BY DEF evalBinary
<1>2. ASSUME ~Refused(op, L, R)
      PROVE  /\ IsColumn(L, n) /\ IsColumn(R, n) /\ ValidOperands(op, L.ty, R.ty)
             /\ Len(L.v) = Len(R.v)
             /\ IsColumn(evalBinary(op, L, R), n)
             /\ evalBinary(op, L, R).ty = ResultType(op, L.ty, R.ty)
             /\ Len(evalBinary(op, L, R).v) = Len(L.v)
             /\ \A i \in 1..Len(L.v) :
                  evalBinary(op, L, R).v[i] =
                     BinaryCell(op, ResultType(op, L.ty, R.ty), L.v[i], R.v[i])
  <2> DEFINE r == ResultType(op, L.ty, R.ty)
             v == [i \in 1..Len(L.v) |-> BinaryCell(op, r, L.v[i], R.v[i])]
  <2>1. /\ L # Throws /\ R # Throws /\ ValidOperands(op, L.ty, R.ty) /\ Len(L.v) = Len(R.v)
        /\ \A i \in 1..Len(L.v) : ~(Null \notin {L.v[i], R.v[i]} /\ Breaks(op, r, L.v[i], R.v[i]))
    BY <1>2 DEF Refused
  <2>2. IsColumn(L, n) /\ IsColumn(R, n)
    BY <2>1 DEF Typed
  <2>3. evalBinary(op, L, R) = [ty |-> r, v |-> v]
    BY <1>2 DEF evalBinary
  <2>4. /\ Len(L.v) \in {1, n} /\ Len(L.v) \in Nat
        /\ \A i \in 1..Len(L.v) : L.v[i] \in Cells(L.ty) /\ R.v[i] \in Cells(R.ty)
    BY <2>1, <2>2, ColumnFacts
  <2>5. r \in Types
    BY <2>1, ResultTypeFacts DEF Types
  <2>6. \A i \in 1..Len(L.v) : v[i] = BinaryCell(op, r, L.v[i], R.v[i])
    OBVIOUS
  <2>7. \A i \in 1..Len(L.v) : v[i] \in Cells(r)
    <3> TAKE i \in 1..Len(L.v)
    <3>1. BinaryCell(op, r, L.v[i], R.v[i]) \in Cells(r)
      BY <2>1, <2>4, BinaryCellTyped
    <3> QED BY <2>6, <3>1
  <2>8. v = [i \in 1..Len(L.v) |-> v[i]]
    OBVIOUS
  <2> HIDE DEF v, r
  <2>9. IsColumn([ty |-> r, v |-> v], n) /\ Len(v) = Len(L.v)
    BY <2>4, <2>5, <2>7, <2>8, MadeColumn, MadeSeq
  <2>10. [ty |-> r, v |-> v].ty = r /\ [ty |-> r, v |-> v].v = v
    OBVIOUS
  <2> QED BY <2>1, <2>2, <2>3, <2>6, <2>9, <2>10 DEF r
<1>3. Typed(evalBinary(op, L, R), n)
  BY <1>1, <1>2 DEF Typed
<1> QED
  BY <1>1, <1>2, <1>3

\* The first cells of a column that has as many are a column of the same type, and all its
\* cells are the column.
LEMMA UptoFacts ==
    ASSUME NEW n \in Nat, NEW C, IsColumn(C, n), Len(C.v) >= n
    PROVE  IsColumn(Upto(C, n), n) /\ (Len(C.v) = n => Upto(C, n) = C)
<1> DEFINE u == [i \in 1..n |-> C.v[i]]
<1>1. Upto(C, n) = [ty |-> C.ty, v |-> u]
  BY DEF Upto
<1>2. /\ C.ty \in Types /\ C = [ty |-> C.ty, v |-> C.v] /\ Len(C.v) \in Nat
      /\ C.v = [i \in 1..Len(C.v) |-> C.v[i]] /\ \A i \in 1..Len(C.v) : C.v[i] \in Cells(C.ty)
  BY ColumnFacts
<1>3. \A i \in 1..n : u[i] \in Cells(C.ty)
  BY <1>2
<1>4. Len(C.v) = n => u = C.v
  BY <1>2
<1>5. u = [i \in 1..n |-> u[i]]
  OBVIOUS
<1> HIDE DEF u
<1>6. IsColumn([ty |-> C.ty, v |-> u], n)
  BY <1>2, <1>3, <1>5, MadeColumn
<1> QED
  BY <1>1, <1>2, <1>4, <1>6

\* What evalBinaryExpr makes of its operands in a table of n rows, the modulo by its own loop.
Combined(op, L, R, n) == IF op = "MOD" THEN evalMod(L, R, n) ELSE evalBinary(op, L, R)

\* evalBinaryExpr throws or gives a column of its type, whatever the operator.
LEMMA CombinedTyped ==
    ASSUME NEW n \in Nat, NEW op \in BinaryOps, NEW L, NEW R, Typed(L, n), Typed(R, n)
    PROVE  Typed(Combined(op, L, R, n), n)
<1>1. CASE op # "MOD"
  BY <1>1, BinaryFacts DEF Combined
<1>2. CASE op = "MOD"
  <2>1. Combined(op, L, R, n) = evalMod(L, R, n)
    BY <1>2 DEF Combined
  <2>2. CASE Throws \in {L, R} \/ Len(L.v) < n \/ Len(R.v) < n
    <3>1. evalMod(L, R, n) = Throws
      BY <2>2 DEF evalMod
    <3> QED BY <2>1, <3>1 DEF Typed
  <2>3. CASE ~(Throws \in {L, R} \/ Len(L.v) < n \/ Len(R.v) < n)
    <3>1. evalMod(L, R, n) = evalBinary("MOD", Upto(L, n), Upto(R, n))
      BY <2>3 DEF evalMod
    <3>2. IsColumn(L, n) /\ IsColumn(R, n)
      BY <2>3 DEF Typed
    <3>3. Len(L.v) \in Nat /\ Len(R.v) \in Nat
      BY <3>2, ColumnFacts
    <3>4. Len(L.v) >= n /\ Len(R.v) >= n
      BY <2>3, <3>3
    <3>5. IsColumn(Upto(L, n), n) /\ IsColumn(Upto(R, n), n)
      BY <3>2, <3>4, UptoFacts
    <3>6. Typed(Upto(L, n), n) /\ Typed(Upto(R, n), n)
      BY <3>5 DEF Typed
    <3>7. Typed(evalBinary("MOD", Upto(L, n), Upto(R, n)), n)
      BY <1>2, <3>6, BinaryFacts
    <3> QED BY <2>1, <3>1, <3>7
  <2> QED BY <2>2, <2>3
<1> QED
  BY <1>1, <1>2

\* An operand that throws is not combined with another one.
LEMMA CombinedStrict ==
    ASSUME NEW n, NEW op, NEW L, NEW R, Throws \in {L, R}
    PROVE  Combined(op, L, R, n) = Throws
<1>1. Refused(op, L, R)
  BY DEF Refused
<1>2. evalBinary(op, L, R) = Throws
  BY <1>1 DEF evalBinary
<1>3. evalMod(L, R, n) = Throws
  BY DEF evalMod
<1> QED
  BY <1>2, <1>3 DEF Combined

\* The modulo of columns with a cell for every row is that of the whole columns.
LEMMA CombinedWhole ==
    ASSUME NEW n \in Nat, NEW op, NEW L, NEW R, IsColumn(L, n), IsColumn(R, n),
           Len(L.v) = n, Len(R.v) = n
    PROVE  Combined(op, L, R, n) = evalBinary(op, L, R)
<1>1. Upto(L, n) = L /\ Upto(R, n) = R
  BY UptoFacts
<1>2. L # Throws /\ R # Throws
  BY ColumnFacts
<1>3. ~(Len(L.v) < n) /\ ~(Len(R.v) < n)
  OBVIOUS
<1>4. evalMod(L, R, n) = evalBinary("MOD", L, R)
  BY <1>1, <1>2, <1>3 DEF evalMod
<1> QED
  BY <1>4 DEF Combined

\* One cell of evalUnaryExpr is of the result's type: INT_MIN negated wraps around to itself.
LEMMA UnaryCellTyped ==
    ASSUME NEW op \in UnaryOps, NEW t \in Types, ValidOperand(op, t), NEW x \in Cells(t)
    PROVE  UnaryCell(op, t, x) \in
             Cells(IF op \in {"IS_NULL", "IS_NOT_NULL"} THEN "BOOLEAN" ELSE t)
<1>1. CASE op \in {"IS_NULL", "IS_NOT_NULL"}
  <2>1. UnaryCell(op, t, x) \in {0, 1}
    BY <1>1 DEF UnaryCell, Truth
  <2> QED BY <1>1, <2>1, CellsFacts
<1>2. CASE op \notin {"IS_NULL", "IS_NOT_NULL"} /\ x = Null
  <2>1. UnaryCell(op, t, x) = Null
    BY <1>2 DEF UnaryCell
  <2> QED BY <1>2, <2>1, CellsFacts
<1>3. CASE op = "NOT" /\ x # Null
  <2>1. t = "BOOLEAN"
    BY <1>3 DEF ValidOperand
  <2>2. x \in {0, 1}
    BY <1>3, <2>1, CellsFacts
  <2>3. UnaryCell(op, t, x) = 1 - x
    BY <1>3 DEF UnaryCell, Inverted
  <2>4. UnaryCell(op, t, x) \in {0, 1}
    BY <2>2, <2>3
  <2> QED BY <1>3, <2>1, <2>4, CellsFacts
<1>4. CASE op \in {"NEG", "ABS"} /\ t \in {"INT32", "INT64"} /\ x # Null
  <2>1. t \in {"INT32", "INT64"}
    BY <1>4
  <2>2. x \in Int
    BY <1>4, CellsFacts
  <2>3. UnaryCell(op, t, x) = Wrap(t, IF op = "NEG" THEN -x ELSE Abs(x))
    BY <1>4 DEF UnaryCell, Inverted
  <2>4. (IF op = "NEG" THEN -x ELSE Abs(x)) \in Int
    BY <2>2 DEF Abs
  <2>5. UnaryCell(op, t, x) \in -Half[t]..Half[t] - 1
    BY <2>1, <2>3, <2>4, WrapFacts
  <2> QED BY <1>4, <2>1, <2>5, CellsFacts
<1>5. CASE op = "NEG" /\ t = "UINT64" /\ x # Null
  <2>1. UnaryCell(op, t, x) = (-x) % (2 * Half.INT64)
    BY <1>5 DEF UnaryCell, Inverted, Wrap
  <2>2. -x \in Int /\ 2 * Half.INT64 \in Nat \ {0}
    <3>1. x \in Int
      BY <1>5, CellsFacts
    <3>2. Half.INT64 \in Nat \ {0}
      BY HalfFacts
    <3> QED BY <3>1, <3>2
  <2>3. UnaryCell(op, t, x) \in 0..2 * Half.INT64 - 1
    BY <2>1, <2>2, Division
  <2> QED BY <1>5, <2>3, CellsFacts
<1>6. op \in {"NEG", "ABS"} => t \in {"INT32", "INT64"} \/ (op = "NEG" /\ t = "UINT64")
  <2>1. t # "NA"
    BY DEF Types, ColTypes
  <2> QED BY <2>1 DEF ValidOperand, IsNumeric
<1> QED
  BY <1>1, <1>2, <1>3, <1>4, <1>5, <1>6 DEF UnaryOps

\* evalUnaryExpr on a column of its type throws or gives one of its result type, cell by cell.
LEMMA UnaryFacts ==
    ASSUME NEW n \in Nat, NEW op \in UnaryOps, NEW C, Typed(C, n)
    PROVE  /\ Typed(evalUnary(op, C), n)
           /\ C = Throws \/ ~ValidOperand(op, C.ty) => evalUnary(op, C) = Throws
           /\ ~(C = Throws \/ ~ValidOperand(op, C.ty)) =>
                /\ IsColumn(C, n) /\ IsColumn(evalUnary(op, C), n)
                /\ evalUnary(op, C).ty =
                     IF op \in {"IS_NULL", "IS_NOT_NULL"} THEN "BOOLEAN" ELSE C.ty
                /\ Len(evalUnary(op, C).v) = Len(C.v)
                /\ \A i \in 1..Len(C.v) : evalUnary(op, C).v[i] = UnaryCell(op, C.ty, C.v[i])
<1>1. C = Throws \/ ~ValidOperand(op, C.ty) => evalUnary(op, C) = Throws
  BY DEF evalUnary
<1>2. ASSUME ~(C = Throws \/ ~ValidOperand(op, C.ty))
      PROVE  /\ IsColumn(C, n) /\ IsColumn(evalUnary(op, C), n)
             /\ evalUnary(op, C).ty =
                  IF op \in {"IS_NULL", "IS_NOT_NULL"} THEN "BOOLEAN" ELSE C.ty
             /\ Len(evalUnary(op, C).v) = Len(C.v)
             /\ \A i \in 1..Len(C.v) : evalUnary(op, C).v[i] = UnaryCell(op, C.ty, C.v[i])
  <2> DEFINE r == IF op \in {"IS_NULL", "IS_NOT_NULL"} THEN "BOOLEAN" ELSE C.ty
             v == [i \in 1..Len(C.v) |-> UnaryCell(op, C.ty, C.v[i])]
  <2>1. C # Throws /\ ValidOperand(op, C.ty) /\ IsColumn(C, n)
    BY <1>2 DEF Typed
  <2>2. evalUnary(op, C) = [ty |-> r, v |-> v]
    BY <1>2 DEF evalUnary
  <2>3. /\ Len(C.v) \in {1, n} /\ Len(C.v) \in Nat /\ C.ty \in Types
        /\ \A i \in 1..Len(C.v) : C.v[i] \in Cells(C.ty)
    BY <2>1, ColumnFacts
  <2>4. r \in Types
    BY <2>3 DEF Types, ColTypes
  <2>5. \A i \in 1..Len(C.v) : v[i] = UnaryCell(op, C.ty, C.v[i])
    OBVIOUS
  <2>6. \A i \in 1..Len(C.v) : UnaryCell(op, C.ty, C.v[i]) \in Cells(r)
    BY <2>1, <2>3, UnaryCellTyped
  <2>7. v = [i \in 1..Len(C.v) |-> v[i]]
    OBVIOUS
  <2> HIDE DEF v, r
  <2>10. \A i \in 1..Len(C.v) : v[i] \in Cells(r)
    BY <2>5, <2>6
  <2>8. IsColumn([ty |-> r, v |-> v], n) /\ Len(v) = Len(C.v)
    BY <2>3, <2>4, <2>7, <2>10, MadeColumn, MadeSeq
  <2>9. [ty |-> r, v |-> v].ty = r /\ [ty |-> r, v |-> v].v = v
    OBVIOUS
  <2> QED BY <2>1, <2>2, <2>5, <2>8, <2>9 DEF r
<1>3. Typed(evalUnary(op, C), n)
  BY <1>1, <1>2 DEF Typed
<1> QED
  BY <1>1, <1>2, <1>3

\* evalStringExpr throws on what is no string column, and keeps nulls on one that is.
LEMMA StringFacts ==
    ASSUME NEW n \in Nat, NEW f \in DOMAIN StringFuncs, NEW C, Typed(C, n)
    PROVE  /\ Typed(evalString(f, C), n)
           /\ C.ty # "STRING" => evalString(f, C) = Throws
           /\ C.ty = "STRING" =>
                /\ IsColumn(C, n) /\ IsColumn(evalString(f, C), n)
                /\ evalString(f, C).ty = StringFuncs[f].ty
                /\ Len(evalString(f, C).v) = Len(C.v)
                /\ \A i \in 1..Len(C.v) : evalString(f, C).v[i] =
                     IF C.v[i] = Null THEN Null ELSE StringFuncs[f].of[C.v[i]]
<1>1. C.ty # "STRING" => evalString(f, C) = Throws
  BY DEF evalString
<1>2. ASSUME C.ty = "STRING"
      PROVE  /\ IsColumn(C, n) /\ IsColumn(evalString(f, C), n)
             /\ evalString(f, C).ty = StringFuncs[f].ty
             /\ Len(evalString(f, C).v) = Len(C.v)
             /\ \A i \in 1..Len(C.v) : evalString(f, C).v[i] =
                  IF C.v[i] = Null THEN Null ELSE StringFuncs[f].of[C.v[i]]
  <2> DEFINE r == StringFuncs[f].ty
             v == [i \in 1..Len(C.v) |-> IF C.v[i] = Null THEN Null ELSE StringFuncs[f].of[C.v[i]]]
  <2>1. IsColumn(C, n)
    BY <1>2 DEF Typed, Throws
  <2>2. evalString(f, C) = [ty |-> r, v |-> v]
    BY <1>2 DEF evalString
  <2>3. /\ Len(C.v) \in {1, n} /\ Len(C.v) \in Nat
        /\ \A i \in 1..Len(C.v) : C.v[i] \in Cells("STRING")
    BY <1>2, <2>1, ColumnFacts
  <2>4. r \in Types /\ \A x \in Texts : StringFuncs[f].of[x] \in Cells(r)
    BY StringFuncsAssumption
  <2>5. \A x \in Cells("STRING") : x = Null \/ x \in Texts
    BY DEF Cells, IsNumeric
  <2>6. \A i \in 1..Len(C.v) : v[i] \in Cells(r)
    BY <2>3, <2>4, <2>5, CellsFacts
  <2>7. v = [i \in 1..Len(C.v) |-> v[i]]
    OBVIOUS
  <2>8. \A i \in 1..Len(C.v) : v[i] = IF C.v[i] = Null THEN Null ELSE StringFuncs[f].of[C.v[i]]
    OBVIOUS
  <2> HIDE DEF v, r
  <2>9. IsColumn([ty |-> r, v |-> v], n) /\ Len(v) = Len(C.v)
    BY <2>3, <2>4, <2>6, <2>7, MadeColumn, MadeSeq
  <2>10. [ty |-> r, v |-> v].ty = r /\ [ty |-> r, v |-> v].v = v
    OBVIOUS
  <2> QED BY <2>1, <2>2, <2>8, <2>9, <2>10 DEF r
<1>3. Typed(evalString(f, C), n)
  BY <1>1, <1>2 DEF Typed
<1> QED
  BY <1>1, <1>2, <1>3

\* evalLitExpr repeats the literal in every row.
LEMMA LitFacts ==
    ASSUME NEW n \in Nat, NEW m \in Nat, m \in {1, n}, NEW e, e.ty \in Types, e.val \in Cells(e.ty)
    PROVE  /\ IsColumn(evalLit(e, m), n) /\ evalLit(e, m).ty = e.ty
           /\ Len(evalLit(e, m).v) = m /\ \A i \in 1..m : evalLit(e, m).v[i] = e.val
<1> DEFINE v == [i \in 1..m |-> e.val]
<1>1. evalLit(e, m) = [ty |-> e.ty, v |-> v]
  BY DEF evalLit
<1>2. (\A i \in 1..m : v[i] = e.val) /\ v = [i \in 1..m |-> v[i]]
  OBVIOUS
<1> HIDE DEF v
<1>3. IsColumn([ty |-> e.ty, v |-> v], n) /\ Len(v) = m
  BY <1>2, MadeColumn, MadeSeq
<1>4. [ty |-> e.ty, v |-> v].ty = e.ty /\ [ty |-> e.ty, v |-> v].v = v
  OBVIOUS
<1> QED
  BY <1>1, <1>2, <1>3, <1>4

-----------------------------------------------------------------------------
\* Nodes: their operands, and what they say without them.

Kinds == {"col", "lit", "alias", "bin", "un", "agg", "str"}
Links == {"child", "left", "right"}

Fits(e, kids) == IsSeq(kids) /\ Len(kids) = Len(Operands(e))

\* f with x at y.
Put(f, y, x) == [f EXCEPT ![y] = x]

\* A sequence is the function on 1..Len of its elements.
LEMMA SeqFacts ==
    ASSUME NEW s, IsSeq(s)
    PROVE  /\ Len(s) \in Nat /\ DOMAIN s = 1..Len(s)
           /\ s = [x \in 1..Len(s) |-> s[x]]
           /\ s = <<>> <=> Len(s) = 0
<1> DEFINE S == {s[x] : x \in DOMAIN s}
<1>1. s \in Seq(S)
  BY DEF IsSeq
<1> HIDE DEF S
<1>2. Len(s) \in Nat /\ DOMAIN s = 1..Len(s) /\ s \in [1..Len(s) -> S]
  BY <1>1
<1> QED
  BY <1>1, <1>2

\* Sequences of one length with the same elements are the same.
LEMMA SameSeq ==
    ASSUME NEW s, NEW t, IsSeq(s), IsSeq(t), Len(s) = Len(t), \A x \in 1..Len(s) : s[x] = t[x]
    PROVE  s = t
<1>1. s = [x \in 1..Len(s) |-> s[x]] /\ t = [x \in 1..Len(t) |-> t[x]]
  BY SeqFacts
<1> QED
  BY <1>1

\* Sequences written out.
LEMMA PairFacts ==
    ASSUME NEW x, NEW y
    PROVE  /\ IsSeq(<<x, y>>) /\ Len(<<x, y>>) = 2 /\ <<x, y>>[1] = x /\ <<x, y>>[2] = y
           /\ IsSeq(<<x>>) /\ Len(<<x>>) = 1 /\ <<x>>[1] = x
           /\ IsSeq(<<>>) /\ Len(<<>>) = 0
<1>1. IsSeq(<<x, y>>)
  <2>1. <<x, y>> = [i \in 1..2 |-> <<x, y>>[i]]
    OBVIOUS
  <2> QED BY <2>1, MadeSeq
<1>2. IsSeq(<<x>>)
  <2>1. <<x>> = [i \in 1..1 |-> <<x>>[i]]
    OBVIOUS
  <2> QED BY <2>1, MadeSeq
<1>3. IsSeq(<<>>)
  BY DEF IsSeq
<1> QED
  BY <1>1, <1>2, <1>3

\* The fields of a node of each kind.
LEMMA FieldsFacts ==
    /\ DOMAIN ExprFields = Kinds
    /\ ExprFields["col"] = {"k", "name"} /\ ExprFields["lit"] = {"k", "ty", "val"}
    /\ ExprFields["alias"] = {"k", "child", "as"} /\ ExprFields["bin"] = {"k", "op", "left", "right"}
    /\ ExprFields["un"] = {"k", "op", "child"} /\ ExprFields["agg"] = {"k", "func", "child"}
    /\ ExprFields["str"] = {"k", "func", "child"}
  BY DEF ExprFields, Kinds

\* What IsExpr says of a node.
LEMMA ExprFacts ==
    ASSUME NEW e, IsExpr(e)
    PROVE  /\ e.k \in Kinds /\ e = [x \in ExprFields[e.k] |-> e[x]]
           /\ e.k = "bin" => e.op \in BinaryOps
           /\ e.k = "un"  => e.op \in UnaryOps
           /\ e.k = "agg" => e.func \in AggFuncs
           /\ e.k = "str" => e.func \in DOMAIN StringFuncs
           /\ e.k = "lit" => e.ty \in Types /\ e.val \in Cells(e.ty)
  BY FieldsFacts DEF IsExpr

\* The operands of a node of each kind, and how many.
LEMMA OperandsFacts ==
    ASSUME NEW e, IsExpr(e)
    PROVE  /\ IsSeq(Operands(e)) /\ Len(Operands(e)) \in 0..2
           /\ e.k \in {"col", "lit"} => Len(Operands(e)) = 0
           /\ e.k = "bin" => /\ Len(Operands(e)) = 2
                             /\ Operands(e)[1] = e.left /\ Operands(e)[2] = e.right
           /\ e.k \notin {"col", "lit", "bin"} => Len(Operands(e)) = 1 /\ Operands(e)[1] = e.child
<1>0. 0 \in 0..2 /\ 1 \in 0..2 /\ 2 \in 0..2
  OBVIOUS
<1>1. ASSUME e.k \in {"col", "lit"} PROVE IsSeq(Operands(e)) /\ Len(Operands(e)) = 0
  <2>1. Operands(e) = <<>>
    BY <1>1 DEF Operands
  <2> QED
    BY <2>1, PairFacts
<1>2. ASSUME e.k = "bin"
      PROVE  /\ IsSeq(Operands(e)) /\ Len(Operands(e)) = 2
             /\ Operands(e)[1] = e.left /\ Operands(e)[2] = e.right
  <2> DEFINE c == e.left
             r == e.right
  <2>1. Operands(e) = <<c, r>>
    BY <1>2 DEF Operands
  <2> HIDE DEF c, r
  <2>2. IsSeq(<<c, r>>) /\ Len(<<c, r>>) = 2 /\ <<c, r>>[1] = c /\ <<c, r>>[2] = r
    BY PairFacts
  <2> QED
    BY <2>1, <2>2 DEF c, r
<1>3. ASSUME e.k \notin {"col", "lit", "bin"}
      PROVE  IsSeq(Operands(e)) /\ Len(Operands(e)) = 1 /\ Operands(e)[1] = e.child
  <2> DEFINE c == e.child
  <2>1. Operands(e) = <<c>>
    BY <1>3 DEF Operands
  <2> HIDE DEF c
  <2>2. IsSeq(Operands(e)) /\ Len(Operands(e)) = 1 /\ Operands(e)[1] = c
    BY <2>1, PairFacts
  <2> QED
    BY <2>2 DEF c
<1> QED
  BY <1>0, <1>1, <1>2, <1>3

\* A node with another operand is a node of its kind that differs in that field only.
LEMMA OneField ==
    ASSUME NEW e, IsExpr(e), NEW f \in ExprFields[e.k] \cap Links, NEW x
    PROVE  /\ IsExpr(Put(e, f, x)) /\ Put(e, f, x).k = e.k /\ Put(e, f, x)[f] = x
           /\ \A g \in ExprFields[e.k] : g # f => Put(e, f, x)[g] = e[g]
<1> DEFINE m == Put(e, f, x)
<1>1. e.k \in Kinds /\ e = [y \in ExprFields[e.k] |-> e[y]]
  BY ExprFacts
<1>2. "k" \in ExprFields[e.k] /\ f # "k"
  BY <1>1, FieldsFacts DEF Kinds, Links
<1>3. m[f] = x /\ (\A g \in ExprFields[e.k] : g # f => m[g] = e[g]) /\ m = [y \in ExprFields[e.k] |-> m[y]]
  BY <1>1 DEF Put
<1> HIDE DEF m
<1>4. m.k = e.k
  BY <1>2, <1>3
<1>5. \A g \in {"op", "func", "ty", "val"} \cap ExprFields[e.k] : m[g] = e[g]
  BY <1>3 DEF Links
<1>6. /\ e.k = "bin" => m.op = e.op
      /\ e.k = "un" => m.op = e.op
      /\ e.k = "agg" => m.func = e.func
      /\ e.k = "str" => m.func = e.func
      /\ e.k = "lit" => m.ty = e.ty /\ m.val = e.val
  BY <1>5, FieldsFacts
<1>7. IsExpr(m)
  BY <1>1, <1>3, <1>4, <1>6, ExprFacts, FieldsFacts DEF IsExpr
<1> QED
  BY <1>3, <1>4, <1>7 DEF m

\* A node with other operands says the same of them.
LEMMA WithOperandsFacts ==
    ASSUME NEW e, IsExpr(e), NEW kids, Fits(e, kids)
    PROVE  LET m == WithOperands(e, kids) IN
           /\ IsExpr(m) /\ m.k = e.k /\ Operands(m) = kids
           /\ \A f \in ExprFields[e.k] \ Links : m[f] = e[f]
<1> DEFINE m == WithOperands(e, kids)
<1>0. e.k \in Kinds
  BY ExprFacts
<1>1. CASE e.k \in {"col", "lit"}
  <2>1. m = e
    BY <1>1 DEF WithOperands
  <2>2. Operands(e) = kids
    BY <1>1, OperandsFacts, SeqFacts DEF Fits
  <2> QED BY <2>1, <2>2
<1>2. CASE e.k = "bin"
  <2> DEFINE l == Put(e, "left", kids[1])
             r == Put(l, "right", kids[2])
  <2>1. "left" \in ExprFields[e.k] \cap Links /\ "right" \in ExprFields[e.k] \cap Links
    BY <1>2, FieldsFacts DEF Links
  <2>2. /\ IsExpr(l) /\ l.k = e.k /\ l["left"] = kids[1]
        /\ \A g \in ExprFields[e.k] : g # "left" => l[g] = e[g]
    BY <2>1, OneField
  <2>3. /\ IsExpr(r) /\ r.k = e.k /\ r["right"] = kids[2]
        /\ \A g \in ExprFields[e.k] : g # "right" => r[g] = l[g]
    <3> HIDE DEF l
    <3> QED BY <2>1, <2>2, OneField
  <2>4. m = r
    BY <1>2 DEF WithOperands, Put
  <2> HIDE DEF m, l, r
  <2>5. \A f \in ExprFields[e.k] \ Links : m[f] = e[f]
    BY <2>2, <2>3, <2>4 DEF Links
  <2>6. IsSeq(kids) /\ Len(kids) = 2
    BY <1>2, OperandsFacts DEF Fits
  <2>7. Operands(m) = kids
    <3>1. IsSeq(Operands(m)) /\ Len(Operands(m)) = 2
      BY <1>2, <2>3, <2>4, OperandsFacts
    <3>2. Operands(m)[1] = kids[1] /\ Operands(m)[2] = kids[2]
      <4>1. m.left = kids[1] /\ m.right = kids[2]
        BY <2>1, <2>2, <2>3, <2>4
      <4> QED BY <1>2, <2>3, <2>4, <4>1, OperandsFacts
    <3>3. \A x \in 1..2 : x = 1 \/ x = 2
      OBVIOUS
    <3> QED BY <2>6, <3>1, <3>2, <3>3, SameSeq
  <2> QED BY <2>3, <2>4, <2>5, <2>7 DEF m
<1>3. CASE e.k \notin {"col", "lit", "bin"}
  <2> DEFINE l == Put(e, "child", kids[1])
  <2>1. "child" \in ExprFields[e.k] \cap Links
    BY <1>0, <1>3, FieldsFacts DEF Kinds, Links
  <2>2. /\ IsExpr(l) /\ l.k = e.k /\ l["child"] = kids[1]
        /\ \A g \in ExprFields[e.k] : g # "child" => l[g] = e[g]
    BY <2>1, OneField
  <2>3. m = l
    BY <1>3 DEF WithOperands, Put
  <2> HIDE DEF m, l
  <2>4. \A f \in ExprFields[e.k] \ Links : m[f] = e[f]
    BY <2>2, <2>3 DEF Links
  <2>5. IsSeq(kids) /\ Len(kids) = 1
    BY <1>3, OperandsFacts DEF Fits
  <2>6. Operands(m) = kids
    <3>1. IsSeq(Operands(m)) /\ Len(Operands(m)) = 1 /\ Operands(m)[1] = m.child
      BY <1>3, <2>2, <2>3, OperandsFacts
    <3>2. m.child = kids[1]
      BY <2>2, <2>3
    <3>3. \A x \in 1..1 : x = 1
      OBVIOUS
    <3> QED BY <2>5, <3>1, <3>2, <3>3, SameSeq
  <2> QED BY <2>2, <2>3, <2>4, <2>6 DEF m
<1> QED
  BY <1>1, <1>2, <1>3

\* The value of a node, in the table T of n rows, with these columns for its operands.
Valued(e, columns, n, T) == Evaluated(e, columns, n, T, aggregated)

\* The branch evalExprOn takes at a node of each kind.
LEMMA ValuedFacts ==
    ASSUME NEW e, IsExpr(e), NEW cols, NEW n, NEW T
    PROVE  /\ e.k = "col"   => Valued(e, cols, n, T) = IF e.name \in DOMAIN T THEN T[e.name] ELSE Throws
           /\ e.k = "lit"   => Valued(e, cols, n, T) = evalLit(e, n)
           /\ e.k = "alias" => Valued(e, cols, n, T) = cols[1]
           /\ e.k = "bin"   => Valued(e, cols, n, T) = Combined(e.op, cols[1], cols[2], n)
           /\ e.k = "un"    => Valued(e, cols, n, T) = evalUnary(e.op, cols[1])
           /\ e.k = "str"   => Valued(e, cols, n, T) = evalString(e.func, cols[1])
           /\ e.k = "agg"   => Valued(e, cols, n, T) = aggregated(e.func, cols[1])
<1>1. e.k \in Kinds
  BY ExprFacts
<1>2. e.k = "col" => Valued(e, cols, n, T) = IF e.name \in DOMAIN T THEN T[e.name] ELSE Throws
  BY DEF Valued, Evaluated
<1>3. e.k = "lit" => Valued(e, cols, n, T) = evalLit(e, n)
  BY DEF Valued, Evaluated
<1>4. e.k = "alias" => Valued(e, cols, n, T) = cols[1]
  BY DEF Valued, Evaluated
<1>5. e.k = "bin" => Valued(e, cols, n, T) = Combined(e.op, cols[1], cols[2], n)
  <2>1. e.k = "bin" /\ e.op = "MOD" => Valued(e, cols, n, T) = evalMod(cols[1], cols[2], n)
    BY DEF Valued, Evaluated
  <2>2. e.k = "bin" /\ e.op # "MOD" => Valued(e, cols, n, T) = evalBinary(e.op, cols[1], cols[2])
    BY DEF Valued, Evaluated
  <2> QED BY <2>1, <2>2 DEF Combined
<1>6. e.k = "un" => Valued(e, cols, n, T) = evalUnary(e.op, cols[1])
  BY DEF Valued, Evaluated
<1>7. e.k = "str" => Valued(e, cols, n, T) = evalString(e.func, cols[1])
  BY DEF Valued, Evaluated
<1>8. e.k = "agg" => Valued(e, cols, n, T) = aggregated(e.func, cols[1])
  BY DEF Valued, Evaluated
<1> QED
  BY <1>2, <1>3, <1>4, <1>5, <1>6, <1>7, <1>8

\* What a node is evaluated to, and what the passes make of it, is the same for a node that
\* says the same.
LEMMA SameSaid ==
    ASSUME NEW e, NEW m, IsExpr(e), IsExpr(m), m.k = e.k,
           \A f \in ExprFields[e.k] \ Links : m[f] = e[f]
    PROVE  /\ \A cols, n, T : Valued(m, cols, n, T) = Valued(e, cols, n, T)
           /\ \A ops : Constant(m, ops) = Constant(e, ops)
           /\ \A ops, alone : Folds(m, ops, alone) = Folds(e, ops, alone)
           /\ \A ops : SimplifiedTo(m, ops) = SimplifiedTo(e, ops)
<1>1. e.k \in Kinds
  BY ExprFacts
<1>2. /\ e.k = "col" => m.name = e.name
      /\ e.k = "lit" => m.ty = e.ty /\ m.val = e.val
      /\ e.k \in {"bin", "un"} => m.op = e.op
      /\ e.k \in {"agg", "str"} => m.func = e.func
  BY FieldsFacts DEF Links
<1>3. \A cols, n, T : Valued(m, cols, n, T) = Valued(e, cols, n, T)
  <2> TAKE cols, n, T
  <2>1. CASE e.k = "lit"
    <3>1. evalLit(m, n) = evalLit(e, n)
      BY <1>2, <2>1 DEF evalLit
    <3> QED BY <2>1, <3>1, ValuedFacts
  <2>2. CASE e.k = "col"
    BY <1>2, <2>2, ValuedFacts
  <2>3. CASE e.k = "bin"
    BY <1>2, <2>3, ValuedFacts
  <2>4. CASE e.k = "un"
    BY <1>2, <2>4, ValuedFacts
  <2>5. CASE e.k = "agg"
    BY <1>2, <2>5, ValuedFacts
  <2>6. CASE e.k = "str"
    BY <1>2, <2>6, ValuedFacts
  <2>7. CASE e.k = "alias"
    BY <2>7, ValuedFacts
  <2> QED BY <1>1, <2>1, <2>2, <2>3, <2>4, <2>5, <2>6, <2>7 DEF Kinds
<1>4. \A ops : Constant(m, ops) = Constant(e, ops)
  BY DEF Constant
<1>5. \A ops, alone : Folds(m, ops, alone) = Folds(e, ops, alone)
  BY DEF Folds
<1>6. \A ops : SimplifiedTo(m, ops) = SimplifiedTo(e, ops)
  <2> TAKE ops
  <2>1. CASE e.k = "bin"
    BY <1>2, <2>1 DEF SimplifiedTo
  <2>2. CASE e.k = "un"
    BY <1>2, <2>2 DEF SimplifiedTo
  <2>3. CASE e.k \notin {"bin", "un"}
    BY <2>3 DEF SimplifiedTo
  <2> QED BY <2>1, <2>2, <2>3
<1> QED
  BY <1>3, <1>4, <1>5, <1>6

\* An aggregate passes an exception on, and otherwise throws or gives one cell.
LEMMA AggregatedFacts ==
    ASSUME NEW n \in {1, Rows}, NEW f \in AggFuncs, NEW C, Typed(C, n)
    PROVE  /\ Typed(aggregated(f, C), n) /\ Typed(aggregated(f, C), 1)
           /\ C = Throws => aggregated(f, C) = Throws
<1>0. n \in Nat /\ 1 \in Nat
  BY RowsAssumption
<1>1. aggregated(f, Throws) = Throws
  BY AggregatedAssumption
<1>2. ASSUME IsColumn(C, n) PROVE aggregated(f, C) = Throws \/ IsColumn(aggregated(f, C), 1)
  <2>1. C = [ty |-> C.ty, v |-> C.v] /\ C.ty \in Types
    BY <1>2 DEF IsColumn
  <2>2. PICK m \in {1, n} : C.v \in [1..m -> Cells(C.ty)]
    BY <1>2 DEF IsColumn
  <2>3. m \in {1, Rows}
    BY <2>2
  <2>4. LET D == [ty |-> C.ty, v |-> C.v] IN aggregated(f, D) = Throws \/ IsColumn(aggregated(f, D), 1)
    BY <2>1, <2>2, <2>3, AggregatedAssumption
  <2> QED BY <2>1, <2>4
<1>3. ASSUME IsColumn(aggregated(f, C), 1) PROVE IsColumn(aggregated(f, C), n)
  BY <1>3 DEF IsColumn
<1> QED
  BY <1>1, <1>2, <1>3 DEF Typed

Listed(T, n) == \A x \in DOMAIN T : IsColumn(T[x], n)

\* evalExprOn at a node throws or gives a column of its type, if it did at the operands.
LEMMA ValuedTyped ==
    ASSUME NEW n \in {1, Rows}, NEW T, Listed(T, n), NEW e, IsExpr(e), NEW cols,
           \A i \in 1..Len(Operands(e)) : Typed(cols[i], n)
    PROVE  Typed(Valued(e, cols, n, T), n)
<1>0. n \in Nat /\ e.k \in Kinds
  BY RowsAssumption, ExprFacts
<1>1. e.k = "bin" => Typed(cols[1], n) /\ Typed(cols[2], n)
  BY OperandsFacts
<1>2. e.k \notin {"col", "lit", "bin"} => Typed(cols[1], n)
  BY OperandsFacts
<1>3. CASE e.k = "col"
  BY <1>3, ValuedFacts DEF Listed, Typed
<1>4. CASE e.k = "lit"
  <2>1. e.ty \in Types /\ e.val \in Cells(e.ty)
    BY <1>4, ExprFacts
  <2>2. IsColumn(evalLit(e, n), n)
    BY <1>0, <2>1, LitFacts
  <2> QED BY <1>4, <2>2, ValuedFacts DEF Typed
<1>5. CASE e.k = "bin"
  <2>1. Typed(Combined(e.op, cols[1], cols[2], n), n)
    BY <1>0, <1>1, <1>5, ExprFacts, CombinedTyped
  <2> QED BY <1>5, <2>1, ValuedFacts
<1>6. CASE e.k = "un"
  <2>1. Typed(evalUnary(e.op, cols[1]), n)
    BY <1>0, <1>2, <1>6, ExprFacts, UnaryFacts
  <2> QED BY <1>6, <2>1, ValuedFacts
<1>7. CASE e.k = "agg"
  <2>1. Typed(aggregated(e.func, cols[1]), n)
    BY <1>2, <1>7, ExprFacts, AggregatedFacts
  <2> QED BY <1>7, <2>1, ValuedFacts
<1>8. CASE e.k = "str"
  <2>1. Typed(evalString(e.func, cols[1]), n)
    BY <1>0, <1>2, <1>8, ExprFacts, StringFacts
  <2> QED BY <1>8, <2>1, ValuedFacts
<1>9. CASE e.k = "alias"
  BY <1>2, <1>9, ValuedFacts
<1> QED
  BY <1>0, <1>3, <1>4, <1>5, <1>6, <1>7, <1>8, <1>9 DEF Kinds

\* An operand that throws makes the node throw.
LEMMA Strict ==
    ASSUME NEW n \in {1, Rows}, NEW T, NEW e, IsExpr(e), NEW cols,
           NEW i \in 1..Len(Operands(e)), cols[i] = Throws
    PROVE  Valued(e, cols, n, T) = Throws
<1>0. e.k \in Kinds
  BY ExprFacts
<1>1. CASE e.k = "bin"
  <2>0. Len(Operands(e)) = 2
    BY <1>1, OperandsFacts
  <2>1. cols[1] = Throws \/ cols[2] = Throws
    BY <2>0
  <2>2. Combined(e.op, cols[1], cols[2], n) = Throws
    BY <2>1, CombinedStrict
  <2> QED BY <1>1, <2>2, ValuedFacts
<1>2. ASSUME e.k \notin {"col", "lit", "bin"} PROVE cols[1] = Throws
  BY <1>2, OperandsFacts
<1>3. CASE e.k = "un"
  BY <1>2, <1>3, ValuedFacts DEF evalUnary
<1>4. CASE e.k = "agg"
  <2>1. Typed(Throws, n)
    BY DEF Typed
  <2>2. aggregated(e.func, Throws) = Throws
    BY <1>4, <2>1, ExprFacts, AggregatedFacts
  <2> QED BY <1>2, <1>4, <2>2, ValuedFacts
<1>5. CASE e.k = "str"
  BY <1>2, <1>5, ValuedFacts DEF evalString, Throws
<1>6. CASE e.k = "alias"
  BY <1>2, <1>6, ValuedFacts
<1>7. e.k \notin {"col", "lit"}
  BY OperandsFacts
<1> QED
  BY <1>0, <1>1, <1>3, <1>4, <1>5, <1>6, <1>7 DEF Kinds

-----------------------------------------------------------------------------
\* What simplification keeps of a value: W is what is left of V, if no more than l is lost.

Kept(V, W, l) == l = "cells" \/ V = Throws \/ W = V \/ (l = "width" /\ Congruent(V, W))

SameCell(a, b) == IF Null \in {a, b} THEN a = b ELSE Same(a, b)

\* Congruent columns are numeric, of one length, and agree cell by cell, nulls included.
LEMMA CongruentFacts ==
    ASSUME NEW n \in Nat, NEW C, NEW D, IsColumn(C, n), IsColumn(D, n)
    PROVE  Congruent(C, D) <=>
             /\ C.ty \in {"INT32", "INT64"} /\ D.ty \in {"INT32", "INT64"} /\ Len(C.v) = Len(D.v)
             /\ \A i \in 1..Len(C.v) : SameCell(C.v[i], D.v[i])
<1>1. DOMAIN C.v = 1..Len(C.v)
  BY ColumnFacts
<1> QED
  BY <1>1 DEF Congruent, IsNumeric, SameCell, Same, Modulus

\* A numeric column has integers where it has no nulls.
LEMMA NumericFacts ==
    ASSUME NEW n \in Nat, NEW C, IsColumn(C, n)
    PROVE  \A i \in 1..Len(C.v) : C.v[i] = Null \/ C.v[i] \in Int
  BY ColumnFacts, CellsFacts

\* A numeric column is congruent to itself.
LEMMA CongruentItself ==
    ASSUME NEW n \in Nat, NEW C, IsColumn(C, n), C.ty \in {"INT32", "INT64"}
    PROVE  Congruent(C, C)
<1>1. \A i \in 1..Len(C.v) : SameCell(C.v[i], C.v[i])
  <2> TAKE i \in 1..Len(C.v)
  <2>1. C.v[i] = Null \/ C.v[i] \in Int
    BY NumericFacts
  <2> QED BY <2>1, SameFacts DEF SameCell
<1> QED
  BY <1>1, CongruentFacts

\* Congruence of columns is transitive.
LEMMA CongruentTransitive ==
    ASSUME NEW n \in Nat, NEW C, NEW D, NEW E, IsColumn(C, n), IsColumn(D, n), IsColumn(E, n),
           Congruent(C, D), Congruent(D, E)
    PROVE  Congruent(C, E)
<1>1. /\ C.ty \in {"INT32", "INT64"} /\ D.ty \in {"INT32", "INT64"} /\ Len(C.v) = Len(D.v)
      /\ \A i \in 1..Len(C.v) : SameCell(C.v[i], D.v[i])
  BY CongruentFacts
<1>2. /\ E.ty \in {"INT32", "INT64"} /\ Len(D.v) = Len(E.v)
      /\ \A i \in 1..Len(D.v) : SameCell(D.v[i], E.v[i])
  BY CongruentFacts
<1>3. \A i \in 1..Len(C.v) : SameCell(C.v[i], E.v[i])
  <2> TAKE i \in 1..Len(C.v)
  <2> DEFINE a == C.v[i]
             b == D.v[i]
             c == E.v[i]
  <2>1. SameCell(a, b) /\ SameCell(b, c)
    BY <1>1, <1>2
  <2>2. a \in {Null} \cup Int /\ b \in {Null} \cup Int /\ c \in {Null} \cup Int
    BY <1>1, <1>2, NumericFacts
  <2> HIDE DEF a, b, c
  <2>3. SameCell(a, c)
    <3>1. CASE Null \in {a, b, c}
      BY <2>1, <3>1 DEF SameCell
    <3>2. CASE Null \notin {a, b, c}
      <4>1. Same(a, b) /\ Same(b, c) /\ a \in Int /\ b \in Int /\ c \in Int
        BY <2>1, <2>2, <3>2 DEF SameCell
      <4>2. Same(a, c)
        BY <4>1, SameTransitive
      <4> QED BY <3>2, <4>2 DEF SameCell
    <3> QED BY <3>1, <3>2
  <2> QED BY <2>3 DEF a, c
<1> QED
  BY <1>1, <1>2, <1>3, CongruentFacts

\* The worse of two losses is one of the cells if either is, and none only if both are none.
LEMMA WorseFacts ==
    ASSUME NEW s \in Losses, NEW t \in Losses
    PROVE  /\ Worse(s, t) \in Losses
           /\ Worse(s, t) = "cells" <=> s = "cells" \/ t = "cells"
           /\ Worse(s, t) = "nothing" <=> s = "nothing" /\ t = "nothing"
  BY DEF Worse, Losses

\* What is kept up to a loss is kept up to a worse one.
LEMMA KeptMonotone ==
    ASSUME NEW V, NEW W, NEW s \in Losses, NEW t \in Losses, Kept(V, W, s)
    PROVE  Kept(V, W, Worse(s, t)) /\ Kept(V, W, Worse(t, s))
<1>1. s = "cells" => Worse(s, t) = "cells" /\ Worse(t, s) = "cells"
  BY WorseFacts
<1>2. s = "width" => Worse(s, t) \in {"cells", "width"} /\ Worse(t, s) \in {"cells", "width"}
  BY DEF Worse
<1> QED
  BY <1>1, <1>2 DEF Kept

\* What is kept up to s, and then up to t, is kept up to the worse of the two.
LEMMA KeptTransitive ==
    ASSUME NEW n \in Nat, NEW V, NEW W, NEW X, Typed(V, n), Typed(W, n), Typed(X, n),
           NEW s \in Losses, NEW t \in Losses, Kept(V, W, s), Kept(W, X, t)
    PROVE  Kept(V, X, Worse(s, t))
<1>1. CASE s = "cells" \/ t = "cells"
  <2>1. Worse(s, t) = "cells"
    BY <1>1, WorseFacts
  <2> QED BY <2>1 DEF Kept
<1>2. CASE s # "cells" /\ t # "cells"
  <2>1. s = "width" \/ t = "width" => Worse(s, t) = "width"
    BY <1>2 DEF Worse
  <2>2. CASE V = Throws \/ X = V
    BY <2>2 DEF Kept
  <2>3. CASE W = V
    <3>1. t = "width" => Worse(s, t) = "width"
      BY <2>1
    <3> QED BY <1>2, <2>3, <3>1 DEF Kept
  <2>4. CASE V # Throws /\ W # V /\ X # V
    <3>1. s = "width" /\ Congruent(V, W)
      BY <1>2, <2>4 DEF Kept
    <3>2. IsColumn(V, n) /\ IsColumn(W, n)
      BY <2>4, <3>1 DEF Typed, Congruent, IsNumeric, Throws
    <3>3. W # Throws
      BY <3>2, ColumnFacts
    <3>4. CASE X = W
      BY <2>1, <3>1, <3>4 DEF Kept
    <3>5. CASE X # W
      <4>1. Congruent(W, X)
        BY <1>2, <3>3, <3>5 DEF Kept
      <4>2. IsColumn(X, n)
        BY <4>1 DEF Typed, Congruent, IsNumeric, Throws
      <4>3. Congruent(V, X)
        BY <3>1, <3>2, <4>1, <4>2, CongruentTransitive
      <4> QED BY <2>1, <3>1, <4>3 DEF Kept
    <3> QED BY <3>4, <3>5
  <2> QED BY <2>2, <2>3, <2>4
<1> QED
  BY <1>1, <1>2

\* A node's value depends on its operands' values only.
LEMMA SameColumns ==
    ASSUME NEW n, NEW T, NEW e, IsExpr(e), NEW V, NEW W, \A i \in 1..Len(Operands(e)) : V[i] = W[i]
    PROVE  Valued(e, V, n, T) = Valued(e, W, n, T)
<1>0. e.k \in Kinds
  BY ExprFacts
<1>1. e.k = "bin" => V[1] = W[1] /\ V[2] = W[2]
  BY OperandsFacts
<1>2. e.k \notin {"col", "lit", "bin"} => V[1] = W[1]
  BY OperandsFacts
<1>3. CASE e.k \in {"col", "lit"}
  BY <1>3, ValuedFacts
<1>4. CASE e.k = "bin"
  BY <1>1, <1>4, ValuedFacts
<1>5. CASE e.k \in {"un", "alias"}
  BY <1>2, <1>5, ValuedFacts
<1>6. CASE e.k = "agg"
  BY <1>2, <1>6, ValuedFacts
<1>7. CASE e.k = "str"
  BY <1>2, <1>7, ValuedFacts
<1> QED
  BY <1>0, <1>3, <1>4, <1>5, <1>6, <1>7 DEF Kinds

\* validateBinaryOp accepts arithmetic on any two integer types.
LEMMA ArithmeticValid ==
    ASSUME NEW op \in Arithmetic, NEW s \in {"INT32", "INT64"}, NEW t \in {"INT32", "INT64"}
    PROVE  ValidOperands(op, s, t) /\ op \in BinaryOps
<1>1. op \in BinaryOps
  BY DEF BinaryOps
<1>2. {s, t} \subseteq ColTypes /\ IsNumeric(s) /\ IsNumeric(t)
  BY DEF ColTypes, IsNumeric
<1>3. op \notin {"EQ", "NEQ"} /\ op \notin Orderings /\ op \notin Logical
  BY DEF Arithmetic, Orderings, Logical
<1>4. ValidOperands(op, s, t)
  BY <1>2, <1>3 DEF ValidOperands, IsNumeric
<1> QED
  BY <1>1, <1>4

\* Sums, differences and products of congruent columns are congruent, also when one of them
\* wraps around at the narrow width and the other at the wide one.
LEMMA SumsCongruent ==
    ASSUME NEW n \in Nat, NEW op \in {"ADD", "SUB", "MUL"},
           NEW V1, NEW V2, NEW W1, NEW W2, IsColumn(V1, n), IsColumn(V2, n),
           IsColumn(W1, n), IsColumn(W2, n), Congruent(V1, W1), Congruent(V2, W2)
    PROVE  evalBinary(op, V1, V2) = Throws
           \/ Congruent(evalBinary(op, V1, V2), evalBinary(op, W1, W2))
<1> DEFINE E == evalBinary(op, V1, V2)
           F == evalBinary(op, W1, W2)
<1>0. op \in BinaryOps /\ op \in Arithmetic
  BY DEF BinaryOps, Arithmetic
<1>1. SUFFICES ASSUME ~Refused(op, V1, V2) PROVE Congruent(E, F)
  BY DEF evalBinary
<1>2. Typed(V1, n) /\ Typed(V2, n) /\ Typed(W1, n) /\ Typed(W2, n)
  BY DEF Typed
<1>3. /\ V1.ty \in {"INT32", "INT64"} /\ W1.ty \in {"INT32", "INT64"} /\ Len(V1.v) = Len(W1.v)
      /\ \A i \in 1..Len(V1.v) : SameCell(V1.v[i], W1.v[i])
  BY CongruentFacts
<1>4. /\ V2.ty \in {"INT32", "INT64"} /\ W2.ty \in {"INT32", "INT64"} /\ Len(V2.v) = Len(W2.v)
      /\ \A i \in 1..Len(V2.v) : SameCell(V2.v[i], W2.v[i])
  BY CongruentFacts
<1> DEFINE r == ResultType(op, V1.ty, V2.ty)
           q == ResultType(op, W1.ty, W2.ty)
<1>5. /\ Len(V1.v) = Len(V2.v) /\ IsColumn(E, n) /\ E.ty = r /\ Len(E.v) = Len(V1.v)
      /\ \A i \in 1..Len(V1.v) : E.v[i] = BinaryCell(op, r, V1.v[i], V2.v[i])
  BY <1>0, <1>1, <1>2, BinaryFacts
<1>6. ~Refused(op, W1, W2)
  <2>1. W1 # Throws /\ W2 # Throws
    BY ColumnFacts
  <2>2. ValidOperands(op, W1.ty, W2.ty)
    BY <1>0, <1>3, <1>4, ArithmeticValid
  <2>3. \A t, a, b : ~Breaks(op, t, a, b)
    BY DEF Breaks
  <2> QED BY <1>3, <1>4, <1>5, <2>1, <2>2, <2>3 DEF Refused
<1>7. /\ IsColumn(F, n) /\ F.ty = q /\ Len(F.v) = Len(W1.v)
      /\ \A i \in 1..Len(W1.v) : F.v[i] = BinaryCell(op, q, W1.v[i], W2.v[i])
  BY <1>0, <1>2, <1>6, BinaryFacts
<1>8. r \in {"INT32", "INT64"} /\ q \in {"INT32", "INT64"}
  BY <1>0, <1>3, <1>4, ArithmeticValid, ResultTypeFacts
<1> HIDE DEF E, F, r, q
<1>9. \A i \in 1..Len(E.v) : SameCell(E.v[i], F.v[i])
  <2> TAKE i \in 1..Len(E.v)
  <2> DEFINE a == V1.v[i]
             b == V2.v[i]
             c == W1.v[i]
             d == W2.v[i]
  <2>1. /\ E.v[i] = BinaryCell(op, r, a, b) /\ F.v[i] = BinaryCell(op, q, c, d)
        /\ SameCell(a, c) /\ SameCell(b, d)
    BY <1>3, <1>4, <1>5, <1>7
  <2>2. a \in {Null} \cup Int /\ b \in {Null} \cup Int /\ c \in {Null} \cup Int /\ d \in {Null} \cup Int
    BY <1>3, <1>4, <1>5, NumericFacts
  <2>3. op \notin Logical
    BY DEF Logical
  <2> HIDE DEF a, b, c, d
  <2>4. CASE Null \in {a, b}
    <3>1. Null \in {c, d}
      BY <2>1, <2>4 DEF SameCell
    <3>2. E.v[i] = Null /\ F.v[i] = Null
      BY <1>0, <2>1, <2>3, <2>4, <3>1, BinaryCellFacts
    <3> QED BY <3>2 DEF SameCell
  <2>5. CASE Null \notin {a, b}
    <3>1. Null \notin {c, d} /\ Same(a, c) /\ Same(b, d)
      BY <2>1, <2>5 DEF SameCell
    <3>2. a \in Int /\ b \in Int /\ c \in Int /\ d \in Int
      BY <2>2, <2>5, <3>1
    <3> DEFINE x == IF op = "ADD" THEN a + b ELSE IF op = "SUB" THEN a - b ELSE a * b
               y == IF op = "ADD" THEN c + d ELSE IF op = "SUB" THEN c - d ELSE c * d
    <3>3. x \in Int /\ y \in Int
      BY <3>2
    <3>4. Same(x, y)
      BY <3>1, <3>2, SameOperated
    <3>5. E.v[i] = Wrap(r, x)
      BY <1>0, <2>1, <2>5, BinaryCellFacts
    <3>6. F.v[i] = Wrap(q, y)
      BY <1>0, <2>1, <3>1, BinaryCellFacts
    <3> HIDE DEF x, y
    <3>7. /\ Wrap(r, x) \in Int /\ Wrap(q, y) \in Int
          /\ Same(Wrap(r, x), x) /\ Same(y, Wrap(q, y))
      BY <1>8, <3>3, WrapFacts
    <3>8. Same(Wrap(r, x), Wrap(q, y))
      <4>1. Same(Wrap(r, x), y)
        BY <3>3, <3>4, <3>7, SameTransitive
      <4> QED BY <3>3, <3>7, <4>1, SameTransitive
    <3>9. Wrap(r, x) # Null /\ Wrap(q, y) # Null
      BY <3>7, NullAssumption
    <3> QED BY <3>5, <3>6, <3>8, <3>9 DEF SameCell
  <2> QED BY <2>4, <2>5
<1>10. E.ty \in {"INT32", "INT64"} /\ F.ty \in {"INT32", "INT64"} /\ Len(E.v) = Len(F.v)
  BY <1>3, <1>5, <1>7, <1>8
<1>11. Congruent(E, F)
  BY <1>5, <1>7, <1>9, <1>10, CongruentFacts
<1> QED
  BY <1>11 DEF E, F

\* Negations of congruent columns are congruent.
LEMMA NegationsCongruent ==
    ASSUME NEW n \in Nat, NEW V, NEW W, IsColumn(V, n), IsColumn(W, n), Congruent(V, W)
    PROVE  Congruent(evalUnary("NEG", V), evalUnary("NEG", W))
<1> DEFINE E == evalUnary("NEG", V)
           F == evalUnary("NEG", W)
<1>1. /\ V.ty \in {"INT32", "INT64"} /\ W.ty \in {"INT32", "INT64"} /\ Len(V.v) = Len(W.v)
      /\ \A i \in 1..Len(V.v) : SameCell(V.v[i], W.v[i])
  BY CongruentFacts
<1>2. V # Throws /\ W # Throws
  BY ColumnFacts
<1>3. "NEG" \in UnaryOps /\ ValidOperand("NEG", V.ty) /\ ValidOperand("NEG", W.ty)
  BY <1>1 DEF UnaryOps, ValidOperand, IsNumeric
<1>4. /\ IsColumn(E, n) /\ E.ty = V.ty /\ Len(E.v) = Len(V.v)
      /\ \A i \in 1..Len(V.v) : E.v[i] = UnaryCell("NEG", V.ty, V.v[i])
  BY <1>2, <1>3, UnaryFacts DEF Typed
<1>5. /\ IsColumn(F, n) /\ F.ty = W.ty /\ Len(F.v) = Len(W.v)
      /\ \A i \in 1..Len(W.v) : F.v[i] = UnaryCell("NEG", W.ty, W.v[i])
  BY <1>2, <1>3, UnaryFacts DEF Typed
<1> HIDE DEF E, F
<1>6. \A i \in 1..Len(E.v) : SameCell(E.v[i], F.v[i])
  <2> TAKE i \in 1..Len(E.v)
  <2> DEFINE a == V.v[i]
             c == W.v[i]
             r == V.ty
             q == W.ty
  <2>1. E.v[i] = UnaryCell("NEG", r, a) /\ F.v[i] = UnaryCell("NEG", q, c) /\ SameCell(a, c)
    BY <1>1, <1>4, <1>5
  <2>2. a \in {Null} \cup Int /\ c \in {Null} \cup Int
    BY <1>1, <1>4, NumericFacts
  <2>3. r \in {"INT32", "INT64"} /\ q \in {"INT32", "INT64"}
    BY <1>1
  <2> HIDE DEF a, c, r, q
  <2>4. \A t, x : UnaryCell("NEG", t, x) = IF x = Null THEN Null ELSE Wrap(t, -x)
    BY DEF UnaryCell, Inverted
  <2>5. CASE a = Null
    <3>1. c = Null
      BY <2>1, <2>5 DEF SameCell
    <3> QED BY <2>1, <2>4, <2>5, <3>1 DEF SameCell
  <2>6. CASE a # Null
    <3>1. c # Null /\ a \in Int /\ c \in Int /\ Same(a, c)
      BY <2>1, <2>2, <2>6 DEF SameCell
    <3>2. -a \in Int /\ -c \in Int /\ Same(-a, -c)
      BY <3>1, SameOperated
    <3>3. E.v[i] = Wrap(r, -a) /\ F.v[i] = Wrap(q, -c)
      BY <2>1, <2>4, <2>6, <3>1
    <3>4. /\ Wrap(r, -a) \in Int /\ Wrap(q, -c) \in Int
          /\ Same(Wrap(r, -a), -a) /\ Same(-c, Wrap(q, -c))
      BY <2>3, <3>2, WrapFacts
    <3>5. Same(Wrap(r, -a), Wrap(q, -c))
      <4>1. Same(Wrap(r, -a), -c)
        BY <3>2, <3>4, SameTransitive
      <4> QED BY <3>2, <3>4, <4>1, SameTransitive
    <3>6. Wrap(r, -a) # Null /\ Wrap(q, -c) # Null
      BY <3>4, NullAssumption
    <3> QED BY <3>3, <3>5, <3>6 DEF SameCell
  <2> QED BY <2>5, <2>6
<1>7. Congruent(E, F)
  BY <1>1, <1>4, <1>5, <1>6, CongruentFacts
<1> QED
  BY <1>7 DEF E, F

\* What a node keeps of its value if its operands keep as much of theirs.
LEMMA KeptThrough ==
    ASSUME NEW n \in {1, Rows}, NEW T, Listed(T, n), NEW e, IsExpr(e), NEW V, NEW W,
           NEW l \in Losses,
           \A i \in 1..Len(Operands(e)) :
              Typed(V[i], n) /\ Typed(W[i], n) /\ Kept(V[i], W[i], l)
    PROVE  Kept(Valued(e, V, n, T), Valued(e, W, n, T), LostThrough(e, l))
<1>0. n \in Nat
  BY RowsAssumption
<1>1. CASE l = "cells"
  <2>1. LostThrough(e, l) = "cells"
    BY <1>1 DEF LostThrough
  <2> QED BY <2>1 DEF Kept
<1>2. CASE \E i \in 1..Len(Operands(e)) : V[i] = Throws
  BY <1>2, Strict DEF Kept
<1>3. CASE \A i \in 1..Len(Operands(e)) : V[i] = W[i]
  <2>1. Valued(e, V, n, T) = Valued(e, W, n, T)
    BY <1>3, SameColumns
  <2> QED BY <2>1 DEF Kept
<1>4. CASE /\ l # "cells"
           /\ \A i \in 1..Len(Operands(e)) : V[i] # Throws
           /\ \E i \in 1..Len(Operands(e)) : V[i] # W[i]
  <2>1. l = "width"
    BY <1>4 DEF Kept
  <2>2. CASE ~KeepsCongruence(e)
    <3>1. LostThrough(e, l) = "cells"
      BY <2>1, <2>2 DEF LostThrough
    <3> QED BY <3>1 DEF Kept
  <2>3. CASE KeepsCongruence(e)
    <3>1. LostThrough(e, l) = "width"
      BY <2>1, <2>3 DEF LostThrough
    <3>2. \A i \in 1..Len(Operands(e)) : IsColumn(V[i], n) /\ (W[i] = V[i] \/ Congruent(V[i], W[i]))
      BY <1>4 DEF Kept, Typed
    <3>3. CASE e.k = "alias"
      <4>1. W[1] = V[1] \/ Congruent(V[1], W[1])
        BY <3>2, <3>3, OperandsFacts
      <4> QED BY <3>1, <3>3, <4>1, ValuedFacts DEF Kept
    <3>4. CASE e.k = "un" /\ e.op = "NEG"
      <4>1. IsColumn(V[1], n) /\ (W[1] = V[1] \/ Congruent(V[1], W[1])) /\ Typed(W[1], n)
        BY <3>2, <3>4, OperandsFacts
      <4>2. CASE W[1] = V[1]
        <5>1. Valued(e, W, n, T) = Valued(e, V, n, T)
          BY <3>4, <4>2, ValuedFacts
        <5> QED BY <5>1 DEF Kept
      <4>3. CASE Congruent(V[1], W[1])
        <5>1. IsColumn(W[1], n)
          BY <4>1, <4>3 DEF Typed, Congruent, IsNumeric, Throws
        <5>2. Congruent(evalUnary("NEG", V[1]), evalUnary("NEG", W[1]))
          BY <1>0, <4>1, <4>3, <5>1, NegationsCongruent
        <5> QED BY <3>1, <3>4, <5>2, ValuedFacts DEF Kept
      <4> QED BY <4>1, <4>2, <4>3
    <3>5. CASE e.k = "bin" /\ e.op \in {"ADD", "SUB", "MUL"}
      <4> DEFINE E == evalBinary(e.op, V[1], V[2])
      <4>1. Valued(e, V, n, T) = E /\ Valued(e, W, n, T) = evalBinary(e.op, W[1], W[2])
        BY <3>5, ValuedFacts DEF Combined
      <4>2. CASE E = Throws
        BY <4>1, <4>2 DEF Kept
      <4>3. CASE E # Throws
        <5>1. Len(Operands(e)) = 2
          BY <3>5, OperandsFacts
        <5>2. /\ IsColumn(V[1], n) /\ (W[1] = V[1] \/ Congruent(V[1], W[1])) /\ Typed(W[1], n)
              /\ IsColumn(V[2], n) /\ (W[2] = V[2] \/ Congruent(V[2], W[2])) /\ Typed(W[2], n)
          BY <3>2, <5>1
        <5>3. e.op \in BinaryOps /\ e.op \in Arithmetic
          BY <3>5 DEF BinaryOps, Arithmetic
        <5>4. ~Refused(e.op, V[1], V[2])
          BY <4>3 DEF evalBinary
        <5>5. ValidOperands(e.op, V[1].ty, V[2].ty)
          BY <5>4 DEF Refused
        <5>6. V[1].ty \in {"INT32", "INT64"} /\ V[2].ty \in {"INT32", "INT64"}
          BY <5>3, <5>5, ValidFacts
        <5>7. Congruent(V[1], W[1]) /\ Congruent(V[2], W[2])
          BY <1>0, <5>2, <5>6, CongruentItself
        <5>8. IsColumn(W[1], n) /\ IsColumn(W[2], n)
          BY <5>2, <5>7, SMTT(30) DEF Typed, Congruent, IsNumeric, Throws
        <5>9. Congruent(E, evalBinary(e.op, W[1], W[2]))
          BY <1>0, <3>5, <4>3, <5>2, <5>7, <5>8, SumsCongruent
        <5> QED BY <3>1, <4>1, <5>9 DEF Kept
      <4> QED BY <4>2, <4>3
    <3> QED BY <2>3, <3>3, <3>4, <3>5 DEF KeepsCongruence
  <2> QED BY <2>2, <2>3
<1> QED
  BY <1>1, <1>2, <1>3, <1>4

-----------------------------------------------------------------------------
\* The identities of simplifyExpr.

\* Which identity of simplifyExpr applies says which literal was seen, and on which side.
LEMMA IdentityFacts ==
    ASSUME NEW op \in BinaryOps, NEW L, NEW R
    PROVE  /\ Identity(op, L, R) \in {"left", "right", "zero", "true", "none"}
           /\ Identity(op, L, R) = "left" =>
                \/ op \in {"MUL", "ADD", "AND", "OR"} /\ (Neutral(op, R) \/ Absorbing(op, L))
                \/ op = "SUB" /\ litEquals(R, 0)
                \/ op = "DIV" /\ litEquals(R, 1)
           /\ Identity(op, L, R) = "right" =>
                op \in {"MUL", "ADD", "AND", "OR"} /\ (Neutral(op, L) \/ Absorbing(op, R))
           /\ Identity(op, L, R) = "zero" => op = "SUB" /\ isLit(L) /\ isLit(R) /\ L = R
           /\ Identity(op, L, R) = "true" => op = "EQ" /\ isLit(L) /\ isLit(R) /\ L = R
<1>1. CASE op \in {"MUL", "ADD", "AND", "OR"}
  <2>1. Identity(op, L, R) =
          IF Neutral(op, R) THEN "left"
          ELSE IF Neutral(op, L) \/ Absorbing(op, R) THEN "right"
          ELSE IF Absorbing(op, L) THEN "left" ELSE "none"
    BY <1>1 DEF Identity
  <2> QED BY <1>1, <2>1
<1>2. CASE op = "SUB"
  <2>1. Identity(op, L, R) =
          IF litEquals(R, 0) THEN "left"
          ELSE IF isLit(L) /\ isLit(R) /\ L = R THEN "zero" ELSE "none"
    BY <1>2 DEF Identity, exprEquals
  <2> QED BY <1>2, <2>1
<1>3. CASE op = "DIV"
  <2>1. Identity(op, L, R) = IF litEquals(R, 1) THEN "left" ELSE "none"
    BY <1>3 DEF Identity
  <2> QED BY <1>3, <2>1
<1>4. CASE op = "EQ"
  <2>1. Identity(op, L, R) = IF isLit(L) /\ isLit(R) /\ L = R THEN "true" ELSE "none"
    BY <1>4 DEF Identity, exprEquals
  <2> QED BY <1>4, <2>1
<1>5. CASE op \notin {"MUL", "ADD", "AND", "OR", "SUB", "DIV", "EQ"}
  <2>1. Identity(op, L, R) = "none"
    BY <1>5 DEF Identity
  <2> QED BY <2>1
<1> QED
  BY <1>1, <1>2, <1>3, <1>4, <1>5

SameCells(E, X) ==
    /\ IsColumn(E, Rows) /\ IsColumn(X, Rows) /\ Len(E.v) = Len(X.v)
    /\ \A i \in 1..Len(E.v) : E.v[i] = X.v[i]

\* A column with the same cells is kept, up to the width if its type is another integer type.
LEMMA KeptCells ==
    ASSUME NEW E, NEW X, SameCells(E, X), NEW l \in Losses,
           \/ E.ty = X.ty
           \/ l \in {"width", "cells"} /\ E.ty \in {"INT32", "INT64"} /\ X.ty \in {"INT32", "INT64"}
    PROVE  Kept(E, X, l)
<1>0. Rows \in Nat /\ IsColumn(E, Rows) /\ IsColumn(X, Rows)
  BY RowsAssumption DEF SameCells
<1>1. CASE E.ty = X.ty
  <2>1. E = X
    BY <1>0, <1>1, SameColumn DEF SameCells
  <2> QED BY <2>1 DEF Kept
<1>2. CASE l = "cells"
  BY <1>2 DEF Kept
<1>3. CASE l = "width" /\ E.ty \in {"INT32", "INT64"} /\ X.ty \in {"INT32", "INT64"}
  <2>1. \A i \in 1..Len(E.v) : SameCell(E.v[i], X.v[i])
    <3> TAKE i \in 1..Len(E.v)
    <3>1. E.v[i] = X.v[i] /\ (E.v[i] = Null \/ E.v[i] \in Int)
      BY <1>0, NumericFacts DEF SameCells
    <3> QED BY <3>1, SameFacts DEF SameCell
  <2>2. Congruent(E, X)
    BY <1>0, <1>3, <2>1, CongruentFacts DEF SameCells
  <2> QED BY <1>3, <2>2 DEF Kept
<1> QED
  BY <1>1, <1>2, <1>3

\* The column of an operand: that of a literal has its value in every row.
Holds(e, C) == Typed(C, Rows) /\ (isLit(e) => C = evalLit(e, Rows))

\* A literal's value has the literal in every row.
LEMMA HeldLit ==
    ASSUME NEW e, IsExpr(e), isLit(e), NEW C, Holds(e, C)
    PROVE  /\ IsColumn(C, Rows) /\ C.ty = e.ty /\ Len(C.v) = Rows
           /\ \A i \in 1..Rows : C.v[i] = e.val
<1>1. e.ty \in Types /\ e.val \in Cells(e.ty) /\ C = evalLit(e, Rows) /\ Rows \in Nat
  BY ExprFacts, RowsAssumption DEF isLit, Holds
<1> QED
  BY <1>1, LitFacts

\* The sum with 0, the product and the quotient with 1 are the other operand.
LEMMA NeutralNumber ==
    ASSUME NEW op \in {"ADD", "SUB", "MUL", "DIV"}, NEW t \in {"INT32", "INT64"},
           NEW s \in {"INT32", "INT64"}, s = "INT64" => t = "INT64", NEW a \in Cells(s)
    PROVE  /\ BinaryCell(op, t, a, IF op \in {"ADD", "SUB"} THEN 0 ELSE 1) = a
           /\ op \in {"ADD", "MUL"} => BinaryCell(op, t, IF op = "ADD" THEN 0 ELSE 1, a) = a
<1>0. op \in BinaryOps /\ op \notin Logical
  BY DEF BinaryOps, Arithmetic, Logical
<1>1. Null # 0 /\ Null # 1
  BY CellsFacts
<1>2. CASE a = Null
  BY <1>0, <1>2, BinaryCellFacts
<1>3. CASE a # Null
  <2>1. a \in -Half[s]..Half[s] - 1 /\ Half[s] \in Nat
    BY <1>3, CellsFacts, HalfFacts
  <2>2. a \in -Half[t]..Half[t] - 1 /\ a \in Int
    BY <2>1, Wider
  <2>3. Wrap(t, a) = a
    BY <2>2, WrapFacts
  <2>4. /\ a + 0 = a /\ 0 + a = a /\ a - 0 = a /\ a * 1 = a /\ 1 * a = a /\ Quot(a, 1) = a
    <3>1. 1 \in Int /\ 1 # 0
      OBVIOUS
    <3> QED BY <2>2, <3>1, QuotFacts
  <2>5. Null \notin {a, 0} /\ Null \notin {a, 1} /\ Null \notin {0, a} /\ Null \notin {1, a}
    BY <1>1, <1>3
  <2>6. CASE op = "ADD"
    BY <1>0, <2>3, <2>4, <2>5, <2>6, BinaryCellFacts
  <2>7. CASE op = "SUB"
    BY <1>0, <2>3, <2>4, <2>5, <2>7, BinaryCellFacts
  <2>8. CASE op = "MUL"
    BY <1>0, <2>3, <2>4, <2>5, <2>8, BinaryCellFacts
  <2>9. CASE op = "DIV"
    BY <1>0, <2>3, <2>4, <2>5, <2>9, BinaryCellFacts
  <2> QED BY <2>6, <2>7, <2>8, <2>9
<1> QED
  BY <1>2, <1>3

\* What dropping a literal may lose.
LEMMA LostByFacts ==
    ASSUME NEW op, NEW e, NEW C
    PROVE  /\ LostBy(op, e, C) \in Losses
           /\ op = "MUL" /\ ~litEquals(e, 1) => LostBy(op, e, C) = "cells"
           /\ op \in Arithmetic /\ e.ty = "INT64" /\ C.ty = "INT32" =>
                LostBy(op, e, C) \in {"width", "cells"}
  BY DEF LostBy, Losses

\* What a binary kernel that is not refused gives: a column of its result type, cell by cell.
KernelMade(op, L, R) ==
    /\ IsColumn(L, Rows) /\ IsColumn(R, Rows) /\ ValidOperands(op, L.ty, R.ty) /\ Len(L.v) = Len(R.v)
    /\ IsColumn(evalBinary(op, L, R), Rows)
    /\ evalBinary(op, L, R).ty = ResultType(op, L.ty, R.ty)
    /\ Len(evalBinary(op, L, R).v) = Len(L.v)
    /\ \A i \in 1..Len(L.v) :
          evalBinary(op, L, R).v[i] = BinaryCell(op, ResultType(op, L.ty, R.ty), L.v[i], R.v[i])

\* BinaryFacts on columns of the frame's rows.
LEMMA BinaryMade ==
    ASSUME NEW op \in BinaryOps, NEW L, NEW R, Typed(L, Rows), Typed(R, Rows), ~Refused(op, L, R)
    PROVE  KernelMade(op, L, R)
<1> DEFINE E == evalBinary(op, L, R)
           t == ResultType(op, L.ty, R.ty)
<1>1. Rows \in Nat
  BY RowsAssumption
<1>2. /\ IsColumn(L, Rows) /\ IsColumn(R, Rows) /\ ValidOperands(op, L.ty, R.ty) /\ Len(L.v) = Len(R.v)
      /\ IsColumn(E, Rows) /\ E.ty = t /\ Len(E.v) = Len(L.v)
  BY <1>1, BinaryFacts
<1>3. \A i \in 1..Len(L.v) : E.v[i] = BinaryCell(op, t, L.v[i], R.v[i])
  BY <1>1, BinaryFacts
<1> QED
  BY <1>2, <1>3 DEF KernelMade

\* x + 0, 0 + x, x - 0, x * 1, 1 * x and x / 1 are x, up to the width of its type: the identities
\* that leave the other operand.
LEMMA NumberDropped ==
    ASSUME NEW op \in {"ADD", "SUB", "MUL", "DIV"},
           NEW e, IsExpr(e), litEquals(e, IF op \in {"ADD", "SUB"} THEN 0 ELSE 1),
           NEW D, Holds(e, D), NEW C, Typed(C, Rows)
    PROVE  /\ Kept(evalBinary(op, C, D), C, LostBy(op, e, C))
           /\ op \in {"ADD", "MUL"} => Kept(evalBinary(op, D, C), C, LostBy(op, e, C))
<1> DEFINE u == IF op \in {"ADD", "SUB"} THEN 0 ELSE 1
           l == LostBy(op, e, C)
<1>0. op \in BinaryOps /\ op \in Arithmetic \ {"MOD"} /\ Rows \in Nat
  BY RowsAssumption DEF BinaryOps, Arithmetic
<1>1. isLit(e) /\ e.val = u /\ e.ty \in {"INT32", "INT64"}
  BY DEF litEquals, IsNumeric
<1>2. /\ IsColumn(D, Rows) /\ D.ty = e.ty /\ Len(D.v) = Rows
      /\ \A i \in 1..Rows : D.v[i] = u
  BY <1>1, HeldLit
<1> HIDE DEF u
<1>3. Typed(C, Rows) /\ Typed(D, Rows)
  BY <1>2 DEF Typed
<1>4. l \in Losses /\ (D.ty = "INT64" /\ C.ty = "INT32" => l \in {"width", "cells"})
  BY <1>0, <1>2, LostByFacts
<1>5. ASSUME NEW E, NEW t \in {"INT32", "INT64"}, IsColumn(E, Rows), E.ty = t,
             C.ty \in {"INT32", "INT64"}, D.ty = "INT64" \/ C.ty = "INT64" => t = "INT64",
             ~(D.ty = "INT64" \/ C.ty = "INT64") => t = "INT32", SameCells(E, C)
      PROVE  Kept(E, C, l)
  <2>1. D.ty \in {"INT32", "INT64"}
    BY <1>1, <1>2
  <2>2. E.ty = C.ty \/ (D.ty = "INT64" /\ C.ty = "INT32")
    BY <1>5, <2>1
  <2>3. E.ty = C.ty \/ l \in {"width", "cells"}
    BY <1>4, <2>2
  <2> HIDE DEF l
  <2> QED BY <1>4, <1>5, <2>3, KeptCells
<1>6. Kept(evalBinary(op, C, D), C, l)
  <2> DEFINE E == evalBinary(op, C, D)
             t == ResultType(op, C.ty, D.ty)
  <2>1. SUFFICES ASSUME ~Refused(op, C, D) PROVE Kept(E, C, l)
    BY DEF evalBinary, Kept
  <2>2. /\ IsColumn(C, Rows) /\ ValidOperands(op, C.ty, D.ty) /\ Len(C.v) = Len(D.v)
        /\ IsColumn(E, Rows) /\ E.ty = t /\ Len(E.v) = Len(C.v)
        /\ \A i \in 1..Len(C.v) : E.v[i] = BinaryCell(op, t, C.v[i], D.v[i])
    <3>1. KernelMade(op, C, D)
      BY <1>0, <1>3, <2>1, BinaryMade
    <3> QED BY <3>1 DEF KernelMade
  <2>3. /\ C.ty \in {"INT32", "INT64"} /\ t \in {"INT32", "INT64"}
        /\ D.ty = "INT64" \/ C.ty = "INT64" => t = "INT64"
        /\ ~(D.ty = "INT64" \/ C.ty = "INT64") => t = "INT32"
    BY <1>0, <2>2, ValidFacts, ResultTypeFacts
  <2> HIDE DEF E, t
  <2>4. \A i \in 1..Len(C.v) : E.v[i] = C.v[i]
    <3> TAKE i \in 1..Len(C.v)
    <3>1. D.v[i] = u /\ C.v[i] \in Cells(C.ty)
      BY <1>0, <1>2, <2>2, ColumnFacts
    <3>2. BinaryCell(op, t, C.v[i], u) = C.v[i]
      BY <2>3, <3>1, NeutralNumber DEF u
    <3> QED BY <2>2, <3>1, <3>2
  <2>5. SameCells(E, C)
    BY <2>2, <2>4 DEF SameCells
  <2>6. Kept(E, C, l)
    <3> HIDE DEF l
    <3> QED BY <1>5, <2>2, <2>3, <2>5
  <2> QED BY <2>6 DEF E
<1>7. op \in {"ADD", "MUL"} => Kept(evalBinary(op, D, C), C, l)
  <2> DEFINE E == evalBinary(op, D, C)
             t == ResultType(op, D.ty, C.ty)
  <2>1. SUFFICES ASSUME op \in {"ADD", "MUL"}, ~Refused(op, D, C) PROVE Kept(E, C, l)
    BY DEF evalBinary, Kept
  <2>2. /\ IsColumn(C, Rows) /\ ValidOperands(op, D.ty, C.ty) /\ Len(D.v) = Len(C.v)
        /\ IsColumn(E, Rows) /\ E.ty = t /\ Len(E.v) = Len(D.v)
        /\ \A i \in 1..Len(D.v) : E.v[i] = BinaryCell(op, t, D.v[i], C.v[i])
    <3>1. KernelMade(op, D, C)
      BY <1>0, <1>3, <2>1, BinaryMade
    <3> QED BY <3>1 DEF KernelMade
  <2>3. /\ C.ty \in {"INT32", "INT64"} /\ t \in {"INT32", "INT64"}
        /\ D.ty = "INT64" \/ C.ty = "INT64" => t = "INT64"
        /\ ~(D.ty = "INT64" \/ C.ty = "INT64") => t = "INT32"
    BY <1>0, <2>2, ValidFacts, ResultTypeFacts
  <2> HIDE DEF E, t
  <2>4. \A i \in 1..Len(C.v) : E.v[i] = C.v[i]
    <3> TAKE i \in 1..Len(C.v)
    <3>1. D.v[i] = u /\ C.v[i] \in Cells(C.ty)
      BY <1>0, <1>2, <2>2, ColumnFacts
    <3>2. u = IF op = "ADD" THEN 0 ELSE 1
      BY <2>1 DEF u
    <3>3. BinaryCell(op, t, u, C.v[i]) = C.v[i]
      BY <2>1, <2>3, <3>1, <3>2, NeutralNumber
    <3> QED BY <2>2, <3>1, <3>3
  <2>5. SameCells(E, C)
    BY <2>2, <2>4 DEF SameCells
  <2>6. Kept(E, C, l)
    <3> HIDE DEF l
    <3> QED BY <1>5, <2>2, <2>3, <2>5
  <2> QED BY <2>6 DEF E
<1> QED
  BY <1>6, <1>7

\* In Kleene logic TRUE is neutral for AND and absorbs OR, FALSE the other way round, on either
\* side and whatever the other column has, nulls included.
LEMMA TruthKept ==
    ASSUME NEW op \in {"AND", "OR"}, NEW e, IsExpr(e), NEW D, Holds(e, D), NEW C, Typed(C, Rows)
    PROVE  /\ Neutral(op, e) => /\ Kept(evalBinary(op, C, D), C, "nothing")
                                /\ Kept(evalBinary(op, D, C), C, "nothing")
           /\ Absorbing(op, e) => /\ Kept(evalBinary(op, C, D), D, "nothing")
                                  /\ Kept(evalBinary(op, D, C), D, "nothing")
<1>0. op \in BinaryOps /\ op \in Logical /\ op \notin Arithmetic /\ Rows \in Nat /\ Null # 0 /\ Null # 1
  BY RowsAssumption, CellsFacts DEF BinaryOps, Logical, Arithmetic
<1>1. SUFFICES ASSUME Neutral(op, e) \/ Absorbing(op, e)
               PROVE  /\ Neutral(op, e) => /\ Kept(evalBinary(op, C, D), C, "nothing")
                                           /\ Kept(evalBinary(op, D, C), C, "nothing")
                      /\ Absorbing(op, e) => /\ Kept(evalBinary(op, C, D), D, "nothing")
                                             /\ Kept(evalBinary(op, D, C), D, "nothing")
  OBVIOUS
<1>2. /\ isLit(e) /\ e.ty = "BOOLEAN" /\ e.val \in {0, 1}
      /\ Neutral(op, e) => e.val = IF op = "AND" THEN 1 ELSE 0
      /\ Absorbing(op, e) => e.val = IF op = "AND" THEN 0 ELSE 1
  BY <1>1 DEF Neutral, Absorbing, litIsTrue, litIsFalse, litIs
<1> DEFINE u == e.val
<1>3. IsColumn(D, Rows) /\ D.ty = "BOOLEAN" /\ Len(D.v) = Rows /\ \A i \in 1..Rows : D.v[i] = u
  BY <1>2, HeldLit
<1>4. Typed(C, Rows) /\ Typed(D, Rows)
  BY <1>3 DEF Typed
<1>5. ASSUME NEW a \in {Null, 0, 1}
      PROVE  /\ Neutral(op, e) => BinaryCell(op, "BOOLEAN", a, u) = a /\ BinaryCell(op, "BOOLEAN", u, a) = a
             /\ Absorbing(op, e) => BinaryCell(op, "BOOLEAN", a, u) = u /\ BinaryCell(op, "BOOLEAN", u, a) = u
  <2>1. CASE op = "AND"
    BY <1>0, <1>2, <1>5, <2>1, BinaryCellFacts DEF And3
  <2>2. CASE op = "OR"
    BY <1>0, <1>2, <1>5, <2>2, BinaryCellFacts DEF Or3
  <2> QED BY <2>1, <2>2
<1> HIDE DEF u
<1>6. /\ Neutral(op, e) => Kept(evalBinary(op, C, D), C, "nothing")
      /\ Absorbing(op, e) => Kept(evalBinary(op, C, D), D, "nothing")
  <2> DEFINE E == evalBinary(op, C, D)
  <2>1. CASE Refused(op, C, D)
    BY <2>1 DEF evalBinary, Kept
  <2>2. CASE ~Refused(op, C, D)
    <3>1. /\ IsColumn(C, Rows) /\ ValidOperands(op, C.ty, D.ty) /\ Len(C.v) = Len(D.v)
          /\ IsColumn(E, Rows) /\ E.ty = ResultType(op, C.ty, D.ty) /\ Len(E.v) = Len(C.v)
          /\ \A i \in 1..Len(C.v) : E.v[i] = BinaryCell(op, ResultType(op, C.ty, D.ty), C.v[i], D.v[i])
      <4>1. KernelMade(op, C, D)
        BY <1>0, <1>4, <2>2, BinaryMade
      <4> QED BY <4>1 DEF KernelMade
    <3>2. C.ty = "BOOLEAN" /\ ResultType(op, C.ty, D.ty) = "BOOLEAN"
      BY <1>0, <3>1, ValidFacts, ResultTypeFacts
    <3> HIDE DEF E
    <3>3. \A i \in 1..Len(C.v) : C.v[i] \in {Null, 0, 1} /\ D.v[i] = u
      BY <1>0, <1>3, <3>1, <3>2, ColumnFacts, CellsFacts
    <3>4. \A i \in 1..Len(C.v) : /\ Neutral(op, e) => E.v[i] = C.v[i]
                                 /\ Absorbing(op, e) => E.v[i] = D.v[i]
      BY <1>5, <3>1, <3>2, <3>3
    <3>5. Neutral(op, e) => SameCells(E, C)
      BY <3>1, <3>4 DEF SameCells
    <3>6. Absorbing(op, e) => SameCells(E, D)
      BY <1>3, <3>1, <3>4 DEF SameCells
    <3>7. "nothing" \in Losses
      BY DEF Losses
    <3>8. /\ Neutral(op, e) => Kept(E, C, "nothing")
          /\ Absorbing(op, e) => Kept(E, D, "nothing")
      BY <1>3, <3>1, <3>2, <3>5, <3>6, <3>7, KeptCells
    <3> QED BY <3>8 DEF E
  <2> QED BY <2>1, <2>2
<1>7. /\ Neutral(op, e) => Kept(evalBinary(op, D, C), C, "nothing")
      /\ Absorbing(op, e) => Kept(evalBinary(op, D, C), D, "nothing")
  <2> DEFINE E == evalBinary(op, D, C)
  <2>1. CASE Refused(op, D, C)
    BY <2>1 DEF evalBinary, Kept
  <2>2. CASE ~Refused(op, D, C)
    <3>1. /\ IsColumn(C, Rows) /\ ValidOperands(op, D.ty, C.ty) /\ Len(D.v) = Len(C.v)
          /\ IsColumn(E, Rows) /\ E.ty = ResultType(op, D.ty, C.ty) /\ Len(E.v) = Len(D.v)
          /\ \A i \in 1..Len(D.v) : E.v[i] = BinaryCell(op, ResultType(op, D.ty, C.ty), D.v[i], C.v[i])
      <4>1. KernelMade(op, D, C)
        BY <1>0, <1>4, <2>2, BinaryMade
      <4> QED BY <4>1 DEF KernelMade
    <3>2. C.ty = "BOOLEAN" /\ ResultType(op, D.ty, C.ty) = "BOOLEAN"
      BY <1>0, <3>1, ValidFacts, ResultTypeFacts
    <3> HIDE DEF E
    <3>3. \A i \in 1..Len(C.v) : C.v[i] \in {Null, 0, 1} /\ D.v[i] = u
      BY <1>0, <1>3, <3>1, <3>2, ColumnFacts, CellsFacts
    <3>4. \A i \in 1..Len(C.v) : /\ Neutral(op, e) => E.v[i] = C.v[i]
                                 /\ Absorbing(op, e) => E.v[i] = D.v[i]
      BY <1>5, <3>1, <3>2, <3>3
    <3>5. Neutral(op, e) => SameCells(E, C)
      BY <3>1, <3>4 DEF SameCells
    <3>6. Absorbing(op, e) => SameCells(E, D)
      BY <1>3, <3>1, <3>4 DEF SameCells
    <3>7. "nothing" \in Losses
      BY DEF Losses
    <3>8. /\ Neutral(op, e) => Kept(E, C, "nothing")
          /\ Absorbing(op, e) => Kept(E, D, "nothing")
      BY <1>3, <3>1, <3>2, <3>5, <3>6, <3>7, KeptCells
    <3> QED BY <3>8 DEF E
  <2> QED BY <2>1, <2>2
<1> QED
  BY <1>6, <1>7

\* Two equal literals: their difference is 0, and they are equal where they are not null.
LEMMA EqualLiterals ==
    ASSUME NEW op \in {"SUB", "EQ"}, NEW e, IsExpr(e), isLit(e),
           NEW C, Holds(e, C), NEW D, Holds(e, D),
           NEW X, X = evalLit(IF op = "SUB" THEN Lit32(0) ELSE Bool(TRUE), Rows)
    PROVE  /\ IsColumn(X, Rows)
           /\ Kept(evalBinary(op, C, D), X,
                   IF e.val = Null THEN "cells"
                   ELSE IF op = "SUB" /\ e.ty = "INT64" THEN "width" ELSE "nothing")
<1> DEFINE E == evalBinary(op, C, D)
           t == ResultType(op, C.ty, D.ty)
           u == IF op = "SUB" THEN 0 ELSE 1
           r == IF op = "SUB" THEN "INT32" ELSE "BOOLEAN"
           l == IF e.val = Null THEN "cells"
                ELSE IF op = "SUB" /\ e.ty = "INT64" THEN "width" ELSE "nothing"
<1>0. op \in BinaryOps /\ Rows \in Nat /\ op \notin Logical
  BY RowsAssumption DEF BinaryOps, Arithmetic, Logical
<1>1. IsColumn(X, Rows) /\ X.ty = r /\ Len(X.v) = Rows /\ \A i \in 1..Rows : X.v[i] = u
  <2> DEFINE x == IF op = "SUB" THEN Lit32(0) ELSE Bool(TRUE)
  <2>1. x.ty = r /\ x.val = u
    BY DEF Lit32, Bool, Lit
  <2>2. r \in Types /\ u \in Cells(r)
    <3>1. 0 \in -Half.INT32..Half.INT32 - 1
      BY HalfFacts
    <3>2. 0 \in Cells("INT32") /\ 1 \in Cells("BOOLEAN")
      BY <3>1, CellsFacts
    <3> QED BY <3>2 DEF Types, ColTypes
  <2> HIDE DEF x, r, u
  <2>3. X = evalLit(x, Rows)
    BY DEF x
  <2>4. x.ty \in Types /\ x.val \in Cells(x.ty) /\ Rows \in Nat
    BY <1>0, <2>1, <2>2
  <2>5. /\ IsColumn(evalLit(x, Rows), Rows) /\ evalLit(x, Rows).ty = x.ty
        /\ Len(evalLit(x, Rows).v) = Rows /\ \A i \in 1..Rows : evalLit(x, Rows).v[i] = x.val
    BY <2>4, LitFacts
  <2> QED BY <2>1, <2>3, <2>5
<1>2. /\ IsColumn(C, Rows) /\ C.ty = e.ty /\ Len(C.v) = Rows /\ \A i \in 1..Rows : C.v[i] = e.val
      /\ IsColumn(D, Rows) /\ D.ty = e.ty /\ Len(D.v) = Rows /\ \A i \in 1..Rows : D.v[i] = e.val
  BY HeldLit
<1>3. Typed(C, Rows) /\ Typed(D, Rows)
  BY <1>2 DEF Typed
<1>4. Kept(E, X, l)
  <2>1. CASE Refused(op, C, D)
    BY <2>1 DEF evalBinary, Kept
  <2>2. CASE e.val = Null
    BY <2>2 DEF Kept
  <2>3. CASE ~Refused(op, C, D) /\ e.val # Null
    <3>1. /\ ValidOperands(op, C.ty, D.ty) /\ IsColumn(E, Rows) /\ E.ty = t /\ Len(E.v) = Len(C.v)
          /\ \A i \in 1..Len(C.v) : E.v[i] = BinaryCell(op, t, C.v[i], D.v[i])
      <4>1. KernelMade(op, C, D)
        BY <1>0, <1>3, <2>3, BinaryMade
      <4> QED BY <4>1 DEF KernelMade
    <3>2. /\ op = "SUB" => e.ty \in {"INT32", "INT64"} /\ t = e.ty
          /\ op = "EQ" => t = "BOOLEAN"
      <4>1. op = "SUB" => e.ty \in {"INT32", "INT64"}
        BY <1>0, <1>2, <3>1, ValidFacts DEF Arithmetic
      <4>2. op = "SUB" => op \in Arithmetic \ {"MOD"}
        BY DEF Arithmetic
      <4>3. op = "EQ" => op \notin Arithmetic
        BY DEF Arithmetic
      <4> QED BY <1>0, <1>2, <3>1, <4>1, <4>2, <4>3, ResultTypeFacts
    <3> HIDE DEF E
    <3>3. \A i \in 1..Len(C.v) : E.v[i] = BinaryCell(op, t, e.val, e.val)
      BY <1>2, <3>1
    <3> HIDE DEF t
    <3>4. BinaryCell(op, t, e.val, e.val) = u
      <4>1. CASE op = "SUB"
        <5>1. e.val \in Int /\ t \in {"INT32", "INT64"}
          <6>1. e.val \in Cells(e.ty)
            BY <4>1, ExprFacts DEF isLit
          <6>2. e.ty \in Types
            BY <3>2, <4>1 DEF Types, ColTypes
          <6> QED BY <2>3, <3>2, <4>1, <6>1, <6>2, CellsFacts
        <5>2. e.val - e.val = 0
          BY <5>1
        <5>3. 0 \in -Half[t]..Half[t] - 1
          BY <5>1, HalfFacts
        <5>4. Wrap(t, 0) = 0
          BY <5>1, <5>3, WrapFacts
        <5>5. BinaryCell(op, t, e.val, e.val) = Wrap(t, e.val - e.val)
          BY <1>0, <2>3, <4>1, BinaryCellFacts
        <5> QED BY <4>1, <5>2, <5>4, <5>5
      <4>2. CASE op = "EQ"
        BY <1>0, <2>3, <4>2, BinaryCellFacts DEF Truth
      <4> QED BY <4>1, <4>2
    <3>5. SameCells(E, X)
      BY <1>1, <1>2, <3>1, <3>3, <3>4 DEF SameCells
    <3>6. l \in Losses
      BY DEF Losses
    <3>7. E.ty = X.ty \/ (l = "width" /\ E.ty \in {"INT32", "INT64"} /\ X.ty \in {"INT32", "INT64"})
      BY <1>1, <2>3, <3>1, <3>2
    <3> HIDE DEF l
    <3>8. Kept(E, X, l)
      BY <3>5, <3>6, <3>7, KeptCells
    <3> QED BY <3>8 DEF E, l
  <2> QED BY <2>1, <2>2, <2>3
<1> QED
  BY <1>1, <1>4

\* What an identity makes of a binary node keeps its value but for what LostAt says.
LEMMA IdentityKept ==
    ASSUME NEW op \in BinaryOps, NEW L, IsExpr(L), NEW R, IsExpr(R),
           NEW C, Holds(L, C), NEW D, Holds(R, D)
    PROVE  LET rule == Identity(op, L, R)
               E    == evalBinary(op, C, D)
               l    == IF L.val = Null THEN "cells"
                       ELSE IF rule = "zero" /\ L.ty = "INT64" THEN "width" ELSE "nothing"
           IN  /\ rule = "left" => Kept(E, C, LostBy(op, R, C))
               /\ rule = "right" => Kept(E, D, LostBy(op, L, D))
               /\ rule = "zero" => Kept(E, evalLit(Lit32(0), Rows), l)
               /\ rule = "true" => Kept(E, evalLit(Bool(TRUE), Rows), l)
<1> DEFINE rule == Identity(op, L, R)
           E    == evalBinary(op, C, D)
           l    == IF L.val = Null THEN "cells"
                   ELSE IF rule = "zero" /\ L.ty = "INT64" THEN "width" ELSE "nothing"
<1>0. Typed(C, Rows) /\ Typed(D, Rows)
  BY DEF Holds
<1>1. ASSUME rule = "left" PROVE Kept(E, C, LostBy(op, R, C))
  <2>1. \/ op \in {"MUL", "ADD", "AND", "OR"} /\ (Neutral(op, R) \/ Absorbing(op, L))
        \/ op = "SUB" /\ litEquals(R, 0)
        \/ op = "DIV" /\ litEquals(R, 1)
    BY <1>1, IdentityFacts
  <2>2. CASE op = "MUL" /\ ~litEquals(R, 1)
    <3>1. LostBy(op, R, C) = "cells"
      BY <2>2, LostByFacts
    <3> QED BY <3>1 DEF Kept
  <2>3. CASE op \in {"ADD", "SUB", "MUL", "DIV"} /\ ~(op = "MUL" /\ ~litEquals(R, 1))
    <3>1. litEquals(R, IF op \in {"ADD", "SUB"} THEN 0 ELSE 1)
      BY <2>1, <2>3 DEF Neutral, Absorbing
    <3> QED BY <1>0, <2>3, <3>1, NumberDropped
  <2>4. CASE op \in {"AND", "OR"}
    <3>1. LostBy(op, R, C) = "nothing"
      BY <2>4 DEF LostBy, Arithmetic
    <3>2. CASE Neutral(op, R)
      BY <1>0, <2>4, <3>1, <3>2, TruthKept
    <3>3. CASE Absorbing(op, L)
      BY <1>0, <2>4, <3>1, <3>3, TruthKept
    <3> QED BY <2>1, <2>4, <3>2, <3>3
  <2> QED BY <2>1, <2>2, <2>3, <2>4
<1>2. ASSUME rule = "right" PROVE Kept(E, D, LostBy(op, L, D))
  <2>1. op \in {"MUL", "ADD", "AND", "OR"} /\ (Neutral(op, L) \/ Absorbing(op, R))
    BY <1>2, IdentityFacts
  <2>2. CASE op = "MUL" /\ ~litEquals(L, 1)
    <3>1. LostBy(op, L, D) = "cells"
      BY <2>2, LostByFacts
    <3> QED BY <3>1 DEF Kept
  <2>3. CASE op \in {"ADD", "MUL"} /\ ~(op = "MUL" /\ ~litEquals(L, 1))
    <3>1. litEquals(L, IF op \in {"ADD", "SUB"} THEN 0 ELSE 1)
      BY <2>1, <2>3 DEF Neutral, Absorbing
    <3> QED BY <1>0, <2>3, <3>1, NumberDropped
  <2>4. CASE op \in {"AND", "OR"}
    <3>1. LostBy(op, L, D) = "nothing"
      BY <2>4 DEF LostBy, Arithmetic
    <3>2. CASE Neutral(op, L)
      BY <1>0, <2>4, <3>1, <3>2, TruthKept
    <3>3. CASE Absorbing(op, R)
      BY <1>0, <2>4, <3>1, <3>3, TruthKept
    <3> QED BY <2>1, <2>4, <3>2, <3>3
  <2> QED BY <2>1, <2>2, <2>3, <2>4
<1>3. ASSUME rule = "zero" PROVE Kept(E, evalLit(Lit32(0), Rows), l)
  <2>1. op = "SUB" /\ isLit(L) /\ L = R
    BY <1>3, IdentityFacts
  <2>2. Kept(E, evalLit(Lit32(0), Rows),
             IF L.val = Null THEN "cells"
             ELSE IF op = "SUB" /\ L.ty = "INT64" THEN "width" ELSE "nothing")
    BY <2>1, EqualLiterals
  <2> QED BY <1>3, <2>1, <2>2
<1>4. ASSUME rule = "true" PROVE Kept(E, evalLit(Bool(TRUE), Rows), l)
  <2>1. op = "EQ" /\ isLit(L) /\ L = R
    BY <1>4, IdentityFacts
  <2>2. Kept(E, evalLit(Bool(TRUE), Rows),
             IF L.val = Null THEN "cells"
             ELSE IF op = "SUB" /\ L.ty = "INT64" THEN "width" ELSE "nothing")
    BY <2>1, EqualLiterals
  <2> QED BY <1>4, <2>1, <2>2
<1> QED
  BY <1>1, <1>2, <1>3, <1>4

\* A double negation.
LEMMA TwiceNegated ==
    ASSUME NEW C, Typed(C, Rows)
    PROVE  Kept(evalUnary("NOT", evalUnary("NOT", C)), C, "nothing")
<1> DEFINE D == evalUnary("NOT", C)
           E == evalUnary("NOT", D)
<1>0. Rows \in Nat /\ "NOT" \in UnaryOps /\ "NOT" \notin {"IS_NULL", "IS_NOT_NULL"}
  BY RowsAssumption DEF UnaryOps
<1>1. CASE C = Throws \/ C.ty # "BOOLEAN"
  <2>1. D = Throws
    BY <1>1 DEF evalUnary, ValidOperand
  <2>2. E = Throws
    BY <2>1 DEF evalUnary
  <2> QED BY <2>2 DEF Kept
<1>2. CASE C # Throws /\ C.ty = "BOOLEAN"
  <2>0. \A t : ValidOperand("NOT", t) <=> t = "BOOLEAN"
    BY DEF ValidOperand
  <2>1. /\ IsColumn(C, Rows) /\ IsColumn(D, Rows) /\ D.ty = "BOOLEAN" /\ Len(D.v) = Len(C.v)
        /\ \A i \in 1..Len(C.v) : D.v[i] = UnaryCell("NOT", "BOOLEAN", C.v[i])
    BY <1>0, <1>2, <2>0, UnaryFacts
  <2> HIDE DEF D
  <2>2. D # Throws /\ Typed(D, Rows)
    BY <1>0, <2>1, ColumnFacts DEF Typed
  <2>3. /\ IsColumn(E, Rows) /\ E.ty = "BOOLEAN" /\ Len(E.v) = Len(D.v)
        /\ \A i \in 1..Len(D.v) : E.v[i] = UnaryCell("NOT", "BOOLEAN", D.v[i])
    BY <1>0, <2>0, <2>1, <2>2, UnaryFacts
  <2> HIDE DEF E
  <2>4. \A x : UnaryCell("NOT", "BOOLEAN", x) = IF x = Null THEN Null ELSE 1 - x
    BY DEF UnaryCell, Inverted
  <2>5. \A i \in 1..Len(C.v) : E.v[i] = C.v[i]
    <3> TAKE i \in 1..Len(C.v)
    <3>1. C.v[i] \in {Null, 0, 1}
      BY <1>0, <1>2, <2>1, ColumnFacts, CellsFacts
    <3>2. 1 - 0 = 1 /\ 1 - 1 = 0
      OBVIOUS
    <3> QED BY <2>1, <2>3, <2>4, <3>1, <3>2, CellsFacts
  <2>6. SameCells(E, C)
    BY <2>1, <2>3, <2>5 DEF SameCells
  <2>7. "nothing" \in Losses
    BY DEF Losses
  <2>8. Kept(E, C, "nothing")
    BY <1>2, <2>3, <2>6, <2>7, KeptCells
  <2> QED BY <2>8 DEF E, D
<1> QED
  BY <1>1, <1>2

-----------------------------------------------------------------------------
\* The nodes and what is noted of them.

NoColumns == [n \in {} |-> Throws]

\* What is noted of the nodes at the addresses s, in turn.
Values(h, s)    == [i \in DOMAIN s |-> h[s[i]].value]
Alones(h, s)    == [i \in DOMAIN s |-> h[s[i]].alone]
Constants(h, s) == [i \in DOMAIN s |-> h[s[i]].constant]
Nodes(h, s)     == [i \in DOMAIN s |-> h[s[i]].node]

Entry(T, h, node) ==
    LET ops == Operands(node) IN
    [node     |-> node,
     value    |-> Valued(node, Values(h, ops), Rows, T),
     alone    |-> Valued(node, Alones(h, ops), 1, NoColumns),
     constant |-> Constant(node, Constants(h, ops))]

\* A constant column: the one cell in every row.
Spread(C) == [ty |-> C.ty, v |-> [i \in 1..Rows |-> C.v[1]]]

Uniform(x) == x.constant /\ x.alone # Throws => x.value = Spread(x.alone)

\* The operands are below an address, up to n.
Below(node, n) == \A i \in 1..Len(Operands(node)) : Operands(node)[i] \in 1..n

Sound(x) == Typed(x.value, Rows) /\ Typed(x.alone, 1) /\ Uniform(x)

Heap(T, h) ==
    /\ IsSeq(h)
    /\ \A a \in 1..Len(h) : /\ IsExpr(h[a].node) /\ Below(h[a].node, a - 1)
                            /\ h[a] = Entry(T, h, h[a].node) /\ Sound(h[a])

Extends(h, g) == Len(h) <= Len(g) /\ \A a \in 1..Len(h) : g[a] = h[a]

\* A pass leaves a node with its operands as it is.
Settled(pass, h, a) ==
    LET ops == Operands(h[a].node) IN
    /\ pass = "fold" => ~Folds(h[a].node, Constants(h, ops), h[a].alone)
    /\ pass = "simplify" => SimplifiedTo(h[a].node, Nodes(h, ops)) = "none"

\* What calls have returned is settled with all that is under it; a call has returned
\* another node only where there was a reason to.
Paired(pass, h, P) ==
    /\ \A c \in P : c = <<c[1], c[2]>> /\ c[1] \in 1..Len(h) /\ c[2] \in 1..Len(h)
    /\ \A c \in P : /\ Settled(pass, h, c[2])
                    /\ \A i \in 1..Len(Operands(h[c[2]].node)) :
                          \E d \in P : d[2] = Operands(h[c[2]].node)[i]
    /\ \A c \in P : \/ c[2] = c[1] \/ ~Settled(pass, h, c[1])
                    \/ \E i \in 1..Len(Operands(h[c[1]].node)) :
                          \E d \in P : d[1] = Operands(h[c[1]].node)[i] /\ d[2] # d[1]
    /\ \A c, d \in P : d[1] = c[2] => d[2] = d[1]

Alike(x, y) == x.value = y.value /\ x.alone = y.alone /\ x.constant = y.constant

\* A call under way has what calls on the first operands of its node have returned.
UnderWay(h, P, c) ==
    /\ c = [at |-> c.at, kids |-> c.kids, lost |-> c.lost]
    /\ c.at \in 1..Len(h) /\ IsSeq(c.kids) /\ c.lost \in Losses
    /\ Len(c.kids) <= Len(Operands(h[c.at].node))
    /\ \A j \in 1..Len(c.kids) :
        LET o == Operands(h[c.at].node)[j]
        IN  <<o, c.kids[j]>> \in P /\ Kept(h[o].value, h[c.kids[j]].value, c.lost)

\* d is a call on the operand that is next in c.
NextIn(h, c, d) ==
    LET ops == Operands(h[c.at].node) IN
    Len(c.kids) < Len(ops) /\ d.at = ops[Len(c.kids) + 1]

Called(h, P, cs) ==
    /\ IsSeq(cs) /\ \A x \in 1..Len(cs) : UnderWay(h, P, cs[x])
    /\ \A x \in 1..Len(cs) - 1 : NextIn(h, cs[x], cs[x + 1])

Progress ==
    /\ pc \in {"build", "fold", "simplify", "compare", "done"}
    /\ iter \in 0..MaxRounds /\ (pc # "done" => iter < MaxRounds) /\ lost \in Losses
    /\ calls # <<>> => pc \in {"fold", "simplify"} /\ calls[1].at = expr
    /\ IF pc = "build" THEN root = 0 /\ expr = 0
       ELSE /\ root \in 1..Len(exprs) /\ expr \in 1..Len(exprs)
            /\ Kept(exprs[root].value, exprs[expr].value, lost)

\* What calls of the pass have returned.
Returned(R, pass) == IF pass = "fold" THEN R.fold ELSE R.simplify

Recorded(h, R) ==
    /\ R = [fold |-> R.fold, simplify |-> R.simplify]
    /\ Paired("fold", h, R.fold) /\ Paired("simplify", h, R.simplify)
    /\ \A c \in R.fold : Alike(h[c[1]], h[c[2]])

IInv ==
    /\ tab \in Tables /\ Heap(tab, exprs) /\ Progress /\ Recorded(exprs, results)
    /\ Called(exprs, Returned(results, pc), calls)

-----------------------------------------------------------------------------
\* A constant node has one value, in every row that of the table of evalToLit.

\* The column of one cell in every row.
LEMMA SpreadFacts ==
    ASSUME NEW C, IsColumn(C, 1)
    PROVE  /\ IsColumn(Spread(C), Rows) /\ Spread(C).ty = C.ty /\ Len(Spread(C).v) = Rows
           /\ \A i \in 1..Rows : Spread(C).v[i] = C.v[1]
           /\ Len(C.v) = 1 /\ C.v[1] \in Cells(C.ty) /\ C.ty \in Types
<1>0. Rows \in Nat /\ 1 \in Nat
  BY RowsAssumption
<1>1. Len(C.v) = 1 /\ C.ty \in Types /\ \A i \in 1..1 : C.v[i] \in Cells(C.ty)
  <2>1. Len(C.v) \in {1, 1}
    BY <1>0, ColumnFacts
  <2> QED BY <1>0, <2>1, ColumnFacts
<1>2. C.v[1] \in Cells(C.ty)
  BY <1>1
<1> DEFINE v == [i \in 1..Rows |-> C.v[1]]
<1>3. (\A i \in 1..Rows : v[i] = C.v[1]) /\ v = [i \in 1..Rows |-> v[i]]
  OBVIOUS
<1>4. Spread(C) = [ty |-> C.ty, v |-> v]
  BY DEF Spread
<1> HIDE DEF v
<1>5. IsColumn([ty |-> C.ty, v |-> v], Rows) /\ Len(v) = Rows
  BY <1>0, <1>1, <1>2, <1>3, MadeColumn, MadeSeq
<1>6. [ty |-> C.ty, v |-> v].ty = C.ty /\ [ty |-> C.ty, v |-> v].v = v
  OBVIOUS
<1> QED
  BY <1>1, <1>2, <1>3, <1>4, <1>5, <1>6

\* A binary operator on one cell in every row gives one cell in every row.
LEMMA SpreadBinary ==
    ASSUME NEW op \in BinaryOps, NEW C, NEW D, IsColumn(C, 1), IsColumn(D, 1),
           evalBinary(op, C, D) # Throws
    PROVE  evalBinary(op, Spread(C), Spread(D)) = Spread(evalBinary(op, C, D))
<1> DEFINE E == evalBinary(op, C, D)
           S == Spread(C)
           T == Spread(D)
           F == evalBinary(op, S, T)
           t == ResultType(op, C.ty, D.ty)
<1>0. Rows \in Nat /\ 1 \in Nat
  BY RowsAssumption
<1>1. ~Refused(op, C, D) /\ Typed(C, 1) /\ Typed(D, 1)
  BY DEF evalBinary, Typed
<1>2. /\ ValidOperands(op, C.ty, D.ty) /\ IsColumn(E, 1) /\ E.ty = t
      /\ Len(E.v) = Len(C.v)
      /\ \A i \in 1..Len(C.v) : E.v[i] = BinaryCell(op, t, C.v[i], D.v[i])
  BY <1>0, <1>1, BinaryFacts
<1>3. /\ IsColumn(S, Rows) /\ S.ty = C.ty /\ Len(S.v) = Rows /\ \A i \in 1..Rows : S.v[i] = C.v[1]
      /\ IsColumn(T, Rows) /\ T.ty = D.ty /\ Len(T.v) = Rows /\ \A i \in 1..Rows : T.v[i] = D.v[1]
      /\ Len(C.v) = 1 /\ Len(D.v) = 1
  BY SpreadFacts
<1>4. E.v[1] = BinaryCell(op, t, C.v[1], D.v[1])
  <2> HIDE DEF E, t
  <2> QED BY <1>2, <1>3
<1>5. ~(Null \notin {C.v[1], D.v[1]} /\ Breaks(op, t, C.v[1], D.v[1]))
  BY <1>1, <1>3 DEF Refused
<1>6. ~Refused(op, S, T)
  <2>1. S # Throws /\ T # Throws
    BY <1>0, <1>3, ColumnFacts
  <2> HIDE DEF S, T
  <2> QED BY <1>2, <1>3, <1>5, <2>1 DEF Refused
<1>7. Typed(S, Rows) /\ Typed(T, Rows)
  BY <1>3 DEF Typed
<1>8. /\ IsColumn(F, Rows) /\ F.ty = t /\ Len(F.v) = Rows
      /\ \A i \in 1..Rows : F.v[i] = BinaryCell(op, t, C.v[1], D.v[1])
  <2> HIDE DEF S, T
  <2>1. /\ IsColumn(F, Rows) /\ F.ty = ResultType(op, S.ty, T.ty) /\ Len(F.v) = Len(S.v)
        /\ \A i \in 1..Len(S.v) : F.v[i] = BinaryCell(op, ResultType(op, S.ty, T.ty), S.v[i], T.v[i])
    BY <1>0, <1>6, <1>7, BinaryFacts
  <2> HIDE DEF F
  <2> QED BY <1>3, <2>1
<1>9. /\ IsColumn(Spread(E), Rows) /\ Spread(E).ty = E.ty /\ Len(Spread(E).v) = Rows
      /\ \A i \in 1..Rows : Spread(E).v[i] = E.v[1]
  BY <1>2, SpreadFacts
<1> HIDE DEF E, F, t
<1>10. F = Spread(E)
  BY <1>0, <1>2, <1>4, <1>8, <1>9, SameColumn
<1> QED
  BY <1>10 DEF E, F

\* So does a unary one ...
LEMMA SpreadUnary ==
    ASSUME NEW op \in UnaryOps, NEW C, IsColumn(C, 1), evalUnary(op, C) # Throws
    PROVE  evalUnary(op, Spread(C)) = Spread(evalUnary(op, C))
<1> DEFINE E == evalUnary(op, C)
           S == Spread(C)
           F == evalUnary(op, S)
           t == IF op \in {"IS_NULL", "IS_NOT_NULL"} THEN "BOOLEAN" ELSE C.ty
<1>0. Rows \in Nat /\ 1 \in Nat
  BY RowsAssumption
<1>1. ~(C = Throws \/ ~ValidOperand(op, C.ty)) /\ Typed(C, 1)
  BY DEF evalUnary, Typed
<1>2. /\ IsColumn(E, 1) /\ E.ty = t /\ Len(E.v) = Len(C.v)
      /\ \A i \in 1..Len(C.v) : E.v[i] = UnaryCell(op, C.ty, C.v[i])
  BY <1>0, <1>1, UnaryFacts
<1>3. /\ IsColumn(S, Rows) /\ S.ty = C.ty /\ Len(S.v) = Rows /\ \A i \in 1..Rows : S.v[i] = C.v[1]
      /\ Len(C.v) = 1
  BY SpreadFacts
<1>4. E.v[1] = UnaryCell(op, C.ty, C.v[1])
  <2> HIDE DEF E
  <2> QED BY <1>2, <1>3
<1>5. S # Throws /\ Typed(S, Rows)
  BY <1>0, <1>3, ColumnFacts DEF Typed
<1>6. /\ IsColumn(F, Rows) /\ F.ty = t /\ Len(F.v) = Rows
      /\ \A i \in 1..Rows : F.v[i] = UnaryCell(op, C.ty, C.v[1])
  <2> HIDE DEF S
  <2>1. /\ IsColumn(F, Rows) /\ F.ty = (IF op \in {"IS_NULL", "IS_NOT_NULL"} THEN "BOOLEAN" ELSE S.ty)
        /\ Len(F.v) = Len(S.v)
        /\ \A i \in 1..Len(S.v) : F.v[i] = UnaryCell(op, S.ty, S.v[i])
    BY <1>0, <1>1, <1>3, <1>5, UnaryFacts
  <2> HIDE DEF F
  <2> QED BY <1>3, <2>1
<1>7. /\ IsColumn(Spread(E), Rows) /\ Spread(E).ty = E.ty /\ Len(Spread(E).v) = Rows
      /\ \A i \in 1..Rows : Spread(E).v[i] = E.v[1]
  BY <1>2, SpreadFacts
<1> HIDE DEF E, F, t
<1>8. F = Spread(E)
  BY <1>0, <1>2, <1>4, <1>6, <1>7, SameColumn
<1> QED
  BY <1>8 DEF E, F

\* ... and a string function.
LEMMA SpreadString ==
    ASSUME NEW f \in DOMAIN StringFuncs, NEW C, IsColumn(C, 1), evalString(f, C) # Throws
    PROVE  evalString(f, Spread(C)) = Spread(evalString(f, C))
<1> DEFINE E == evalString(f, C)
           S == Spread(C)
           F == evalString(f, S)
           Of(x) == IF x = Null THEN Null ELSE StringFuncs[f].of[x]
<1>0. Rows \in Nat /\ 1 \in Nat
  BY RowsAssumption
<1>1. C.ty = "STRING" /\ Typed(C, 1)
  BY DEF evalString, Typed
<1>2. /\ IsColumn(E, 1) /\ E.ty = StringFuncs[f].ty /\ Len(E.v) = Len(C.v)
      /\ \A i \in 1..Len(C.v) : E.v[i] = Of(C.v[i])
  BY <1>0, <1>1, StringFacts
<1>3. /\ IsColumn(S, Rows) /\ S.ty = C.ty /\ Len(S.v) = Rows /\ \A i \in 1..Rows : S.v[i] = C.v[1]
      /\ Len(C.v) = 1
  BY SpreadFacts
<1>4. E.v[1] = Of(C.v[1])
  <2> HIDE DEF E, Of
  <2> QED BY <1>2, <1>3
<1>5. Typed(S, Rows)
  BY <1>3 DEF Typed
<1>6. /\ IsColumn(F, Rows) /\ F.ty = StringFuncs[f].ty /\ Len(F.v) = Rows
      /\ \A i \in 1..Rows : F.v[i] = Of(C.v[1])
  <2> HIDE DEF S
  <2>1. /\ IsColumn(F, Rows) /\ F.ty = StringFuncs[f].ty
        /\ Len(F.v) = Len(S.v) /\ \A i \in 1..Len(S.v) : F.v[i] = Of(S.v[i])
    BY <1>0, <1>1, <1>3, <1>5, StringFacts
  <2> HIDE DEF F, Of
  <2> QED BY <1>3, <2>1
<1>7. /\ IsColumn(Spread(E), Rows) /\ Spread(E).ty = E.ty /\ Len(Spread(E).v) = Rows
      /\ \A i \in 1..Rows : Spread(E).v[i] = E.v[1]
  BY <1>2, SpreadFacts
<1> HIDE DEF E, F, Of
<1>8. F = Spread(E)
  BY <1>0, <1>2, <1>4, <1>6, <1>7, SameColumn
<1> QED
  BY <1>8 DEF E, F

\* So does evalExprOn at a node that reads no column and aggregates nothing: evalToLit's one row
\* stands for every row.
LEMMA SpreadValued ==
    ASSUME NEW e, IsExpr(e), e.k \notin {"col", "agg"}, NEW A, NEW V, NEW S, NEW T,
           \A i \in 1..Len(Operands(e)) : IsColumn(A[i], 1) /\ V[i] = Spread(A[i]),
           Valued(e, A, 1, S) # Throws
    PROVE  Valued(e, V, Rows, T) = Spread(Valued(e, A, 1, S))
<1>0. e.k \in Kinds /\ Rows \in Nat /\ 1 \in Nat
  BY ExprFacts, RowsAssumption
<1>1. CASE e.k = "lit"
  <2>1. e.ty \in Types /\ e.val \in Cells(e.ty)
    BY <1>1, ExprFacts
  <2>2. /\ IsColumn(evalLit(e, 1), 1) /\ evalLit(e, 1).ty = e.ty
        /\ \A i \in 1..1 : evalLit(e, 1).v[i] = e.val
    BY <1>0, <2>1, LitFacts
  <2>3. /\ IsColumn(evalLit(e, Rows), Rows) /\ evalLit(e, Rows).ty = e.ty
        /\ Len(evalLit(e, Rows).v) = Rows /\ \A i \in 1..Rows : evalLit(e, Rows).v[i] = e.val
    BY <1>0, <2>1, LitFacts
  <2> DEFINE C == evalLit(e, 1)
             D == evalLit(e, Rows)
  <2>4. /\ IsColumn(Spread(C), Rows) /\ Spread(C).ty = C.ty /\ Len(Spread(C).v) = Rows
        /\ \A i \in 1..Rows : Spread(C).v[i] = C.v[1]
    BY <2>2, SpreadFacts
  <2>5. C.v[1] = e.val
    BY <2>2
  <2>6. C.ty = e.ty /\ IsColumn(D, Rows) /\ D.ty = e.ty /\ Len(D.v) = Rows /\ \A i \in 1..Rows : D.v[i] = e.val
    BY <2>2, <2>3
  <2>7. Valued(e, V, Rows, T) = D /\ Valued(e, A, 1, S) = C
    BY <1>1, ValuedFacts
  <2> HIDE DEF C, D
  <2>8. D = Spread(C)
    BY <1>0, <2>4, <2>5, <2>6, SameColumn
  <2> QED BY <2>7, <2>8
<1>2. CASE e.k = "bin"
  <2>1. Len(Operands(e)) = 2
    BY <1>2, OperandsFacts
  <2>2. IsColumn(A[1], 1) /\ V[1] = Spread(A[1]) /\ IsColumn(A[2], 1) /\ V[2] = Spread(A[2])
    BY <2>1
  <2>3. Valued(e, A, 1, S) = evalBinary(e.op, A[1], A[2])
    <3>1. Len(A[1].v) = 1 /\ Len(A[2].v) = 1
      BY <2>2, SpreadFacts
    <3> DEFINE one == 1
               L   == A[1]
               R   == A[2]
    <3>2. Valued(e, A, 1, S) = Combined(e.op, L, R, one)
      BY <1>2, ValuedFacts
    <3>3. one \in Nat /\ IsColumn(L, one) /\ IsColumn(R, one) /\ Len(L.v) = one /\ Len(R.v) = one
      BY <1>0, <2>2, <3>1
    <3> HIDE DEF one, L, R
    <3>4. Combined(e.op, L, R, one) = evalBinary(e.op, L, R)
      BY <3>3, CombinedWhole
    <3> QED BY <3>2, <3>4 DEF L, R
  <2>4. Valued(e, V, Rows, T) = evalBinary(e.op, V[1], V[2])
    <3>1. IsColumn(V[1], Rows) /\ Len(V[1].v) = Rows /\ IsColumn(V[2], Rows) /\ Len(V[2].v) = Rows
      BY <2>2, SpreadFacts
    <3>2. Valued(e, V, Rows, T) = Combined(e.op, V[1], V[2], Rows)
      BY <1>2, ValuedFacts
    <3> QED BY <1>0, <3>1, <3>2, CombinedWhole
  <2>5. e.op \in BinaryOps
    BY <1>2, ExprFacts
  <2> QED BY <2>2, <2>3, <2>4, <2>5, SpreadBinary
<1>3. e.k \in {"un", "str", "alias"} => IsColumn(A[1], 1) /\ V[1] = Spread(A[1])
  <2>1. e.k \in {"un", "str", "alias"} => Len(Operands(e)) = 1
    BY OperandsFacts
  <2> QED BY <2>1
<1>4. CASE e.k = "un"
  <2>1. Valued(e, A, 1, S) = evalUnary(e.op, A[1]) /\ Valued(e, V, Rows, T) = evalUnary(e.op, V[1])
    BY <1>4, ValuedFacts
  <2>2. e.op \in UnaryOps
    BY <1>4, ExprFacts
  <2> QED BY <1>3, <1>4, <2>1, <2>2, SpreadUnary
<1>5. CASE e.k = "str"
  <2>1. Valued(e, A, 1, S) = evalString(e.func, A[1]) /\ Valued(e, V, Rows, T) = evalString(e.func, V[1])
    BY <1>5, ValuedFacts
  <2>2. e.func \in DOMAIN StringFuncs
    BY <1>5, ExprFacts
  <2> QED BY <1>3, <1>5, <2>1, <2>2, SpreadString
<1>6. CASE e.k = "alias"
  <2>1. Valued(e, A, 1, S) = A[1] /\ Valued(e, V, Rows, T) = V[1]
    BY <1>6, ValuedFacts
  <2> QED BY <1>3, <1>6, <2>1
<1> QED
  BY <1>0, <1>1, <1>2, <1>4, <1>5, <1>6 DEF Kinds

-----------------------------------------------------------------------------
\* The heap grows, and what is noted of a node does not change.

\* A sequence with one element more.
LEMMA Appended ==
    ASSUME NEW s, IsSeq(s), NEW e
    PROVE  /\ IsSeq(Append(s, e)) /\ Len(Append(s, e)) = Len(s) + 1
           /\ \A x \in 1..Len(s) : Append(s, e)[x] = s[x]
           /\ Append(s, e)[Len(s) + 1] = e
<1> DEFINE S == {s[x] : x \in DOMAIN s} \cup {e}
           t == Append(s, e)
<1>1. s \in Seq(S) /\ e \in S
  <2>1. \A x \in 1..Len(s) : s[x] \in S
    BY SeqFacts
  <2> HIDE DEF S
  <2>2. s \in [1..Len(s) -> S] /\ Len(s) \in Nat
    BY <2>1, SeqFacts
  <2>3. s \in Seq(S)
    BY <2>2
  <2> QED
    BY <2>3 DEF S
<1> HIDE DEF S
<1>2. /\ t \in Seq(S) /\ Len(s) \in Nat /\ Len(t) = Len(s) + 1
      /\ \A x \in 1..Len(s) : t[x] = s[x]
      /\ t[Len(s) + 1] = e
  BY <1>1
<1>3. t = [x \in 1..Len(s) + 1 |-> t[x]]
  <2> HIDE DEF t
  <2> QED BY <1>2
<1>4. IsSeq(t)
  <2> HIDE DEF t
  <2> QED BY <1>2, <1>3, MadeSeq
<1> QED
  BY <1>2, <1>4

\* What is noted of a node when it is made.
LEMMA NotedEntry ==
    ASSUME NEW h, NEW node
    PROVE  Noted(h, node) = Entry(tab, h, node)
  BY DEF Noted, Entry, EvaluatedAlone, Valued, Values, Alones, Constants, NoColumns

\* The parts of what is noted of a node.
LEMMA EntryFacts ==
    ASSUME NEW T, NEW h, NEW node
    PROVE  LET ops == Operands(node)
               x   == Entry(T, h, node)
           IN  /\ x.node = node /\ x.value = Valued(node, Values(h, ops), Rows, T)
               /\ x.alone = Valued(node, Alones(h, ops), 1, NoColumns)
               /\ x.constant = Constant(node, Constants(h, ops))
  BY DEF Entry

\* The values read at some addresses only depend on what is noted there.
LEMMA ValuesSame ==
    ASSUME NEW h, NEW g, NEW s, NEW t, IsSeq(s), IsSeq(t), Len(s) = Len(t),
           \A i \in 1..Len(s) : h[s[i]].value = g[t[i]].value
    PROVE  Values(h, s) = Values(g, t)
<1>1. DOMAIN s = 1..Len(s) /\ DOMAIN t = 1..Len(s)
  BY SeqFacts
<1> QED
  BY <1>1 DEF Values

\* The values alone read at some addresses only depend on what is noted there.
LEMMA AlonesSame ==
    ASSUME NEW h, NEW g, NEW s, NEW t, IsSeq(s), IsSeq(t), Len(s) = Len(t),
           \A i \in 1..Len(s) : h[s[i]].alone = g[t[i]].alone
    PROVE  Alones(h, s) = Alones(g, t)
<1>1. DOMAIN s = 1..Len(s) /\ DOMAIN t = 1..Len(s)
  BY SeqFacts
<1> QED
  BY <1>1 DEF Alones

\* The constancy read at some addresses only depend on what is noted there.
LEMMA ConstantsSame ==
    ASSUME NEW h, NEW g, NEW s, NEW t, IsSeq(s), IsSeq(t), Len(s) = Len(t),
           \A i \in 1..Len(s) : h[s[i]].constant = g[t[i]].constant
    PROVE  Constants(h, s) = Constants(g, t)
<1>1. DOMAIN s = 1..Len(s) /\ DOMAIN t = 1..Len(s)
  BY SeqFacts
<1> QED
  BY <1>1 DEF Constants

\* The nodes read at some addresses only depend on what is noted there.
LEMMA NodesSame ==
    ASSUME NEW h, NEW g, NEW s, NEW t, IsSeq(s), IsSeq(t), Len(s) = Len(t),
           \A i \in 1..Len(s) : h[s[i]].node = g[t[i]].node
    PROVE  Nodes(h, s) = Nodes(g, t)
<1>1. DOMAIN s = 1..Len(s) /\ DOMAIN t = 1..Len(s)
  BY SeqFacts
<1> QED
  BY <1>1 DEF Nodes

\* What is noted of each operand.
LEMMA NotedAt ==
    ASSUME NEW h, NEW s, IsSeq(s)
    PROVE  \A i \in 1..Len(s) : /\ Values(h, s)[i] = h[s[i]].value /\ Alones(h, s)[i] = h[s[i]].alone
                                /\ Constants(h, s)[i] = h[s[i]].constant
                                /\ Nodes(h, s)[i] = h[s[i]].node
<1>1. DOMAIN s = 1..Len(s)
  BY SeqFacts
<1> QED
  BY <1>1 DEF Values, Alones, Constants, Nodes

\* The value noted of one operand.
LEMMA ValueAt ==
    ASSUME NEW h, NEW s, IsSeq(s), NEW i \in 1..Len(s)
    PROVE  Values(h, s)[i] = h[s[i]].value
  BY NotedAt

\* The node noted of one operand.
LEMMA NodeAt ==
    ASSUME NEW h, NEW s, IsSeq(s), NEW i \in 1..Len(s)
    PROVE  Nodes(h, s)[i] = h[s[i]].node
  BY NotedAt

\* What is noted of a node depends on its operands' entries only, so later nodes do not change it.
LEMMA EntrySame ==
    ASSUME NEW T, NEW h, NEW g, NEW node, IsExpr(node),
           \A i \in 1..Len(Operands(node)) : h[Operands(node)[i]] = g[Operands(node)[i]]
    PROVE  Entry(T, h, node) = Entry(T, g, node)
<1> DEFINE ops == Operands(node)
<1>1. IsSeq(ops)
  BY OperandsFacts
<1>2. \A i \in 1..Len(ops) : h[ops[i]] = g[ops[i]]
  OBVIOUS
<1> HIDE DEF ops
<1>3. /\ Values(h, ops) = Values(g, ops) /\ Alones(h, ops) = Alones(g, ops)
      /\ Constants(h, ops) = Constants(g, ops)
  <2>1. Values(h, ops) = Values(g, ops)
    BY <1>1, <1>2, ValuesSame
  <2>2. Alones(h, ops) = Alones(g, ops)
    BY <1>1, <1>2, AlonesSame
  <2>3. Constants(h, ops) = Constants(g, ops)
    BY <1>1, <1>2, ConstantsSame
  <2> QED BY <2>1, <2>2, <2>3
<1> QED
  BY <1>3 DEF Entry, ops

\* isConstant at a node: no column, no aggregate, and all operands constant.
LEMMA ConstantFacts ==
    ASSUME NEW node, IsExpr(node), NEW c, DOMAIN c = 1..Len(Operands(node))
    PROVE  Constant(node, c) <=>
             node.k \notin {"col", "agg"} /\ \A i \in 1..Len(Operands(node)) : c[i]
  BY DEF Constant

\* A node made of nodes that are there has columns of the right type.
LEMMA EntrySound ==
    ASSUME NEW T \in Tables, NEW h, Heap(T, h), NEW node, IsExpr(node), Below(node, Len(h))
    PROVE  Sound(Entry(T, h, node))
<1> DEFINE ops == Operands(node)
           V   == Values(h, ops)
           A   == Alones(h, ops)
           x   == Entry(T, h, node)
<1>0. Listed(T, Rows) /\ Listed(NoColumns, 1)
  BY TablesAssumption DEF Listed, NoColumns
<1>1. IsSeq(ops) /\ \A i \in 1..Len(ops) : ops[i] \in 1..Len(h)
  BY OperandsFacts DEF Below
<1>2. \A i \in 1..Len(ops) : Sound(h[ops[i]])
  BY <1>1 DEF Heap
<1>3. \A i \in 1..Len(ops) : /\ V[i] = h[ops[i]].value /\ A[i] = h[ops[i]].alone
                             /\ Constants(h, ops)[i] = h[ops[i]].constant
  <2> HIDE DEF ops
  <2> QED BY <1>1, NotedAt
<1>4. \A i \in 1..Len(ops) : Typed(V[i], Rows) /\ Typed(A[i], 1)
  <2> HIDE DEF ops, V, A
  <2> QED BY <1>2, <1>3 DEF Sound
<1>5. /\ x.value = Valued(node, V, Rows, T) /\ x.alone = Valued(node, A, 1, NoColumns)
      /\ x.constant = Constant(node, Constants(h, ops))
  BY EntryFacts
<1>6. Typed(x.value, Rows)
  <2>1. Typed(Valued(node, V, Rows, T), Rows)
    <3> HIDE DEF V
    <3> QED BY <1>0, <1>4, ValuedTyped
  <2> QED BY <1>5, <2>1
<1>7. Typed(x.alone, 1)
  <2>1. Typed(Valued(node, A, 1, NoColumns), 1)
    <3> HIDE DEF A
    <3> QED BY <1>0, <1>4, ValuedTyped
  <2> QED BY <1>5, <2>1
<1>8. ASSUME x.constant, x.alone # Throws PROVE x.value = Spread(x.alone)
  <2> DEFINE C == Constants(h, ops)
  <2>1. DOMAIN C = 1..Len(ops)
    <3> HIDE DEF ops
    <3> QED BY <1>1, SeqFacts DEF Constants
  <2>2. Constant(node, C)
    BY <1>5, <1>8
  <2>3. node.k \notin {"col", "agg"} /\ \A i \in 1..Len(ops) : C[i]
    <3> HIDE DEF C
    <3> QED BY <2>1, <2>2, ConstantFacts
  <2>4. \A i \in 1..Len(ops) : A[i] # Throws
    <3> HIDE DEF A
    <3> QED BY <1>5, <1>8, Strict
  <2>5. \A i \in 1..Len(ops) : IsColumn(A[i], 1) /\ V[i] = Spread(A[i])
    <3> TAKE i \in 1..Len(ops)
    <3>1. h[ops[i]].constant /\ h[ops[i]].alone # Throws
      <4> HIDE DEF C, A, ops
      <4> QED BY <1>3, <2>3, <2>4 DEF C
    <3>2. h[ops[i]].value = Spread(h[ops[i]].alone)
      BY <1>2, <3>1 DEF Sound, Uniform
    <3> HIDE DEF A, V, ops
    <3> QED BY <1>3, <1>4, <2>4, <3>2 DEF Typed
  <2>6. Valued(node, V, Rows, T) = Spread(Valued(node, A, 1, NoColumns))
    <3> HIDE DEF A, V
    <3> QED BY <1>5, <1>8, <2>3, <2>5, SpreadValued
  <2> QED BY <1>5, <2>6
<1> QED
  BY <1>6, <1>7, <1>8 DEF Sound, Uniform

\* What the heap says of one node: its operands are below it, and its value is computed from theirs.
LEMMA HeapFacts ==
    ASSUME NEW T, NEW h, Heap(T, h), NEW a \in 1..Len(h)
    PROVE  /\ Len(h) \in Nat /\ DOMAIN h = 1..Len(h) /\ IsExpr(h[a].node)
           /\ IsSeq(Operands(h[a].node)) /\ Sound(h[a])
           /\ \A i \in 1..Len(Operands(h[a].node)) :
                Operands(h[a].node)[i] \in 1..Len(h) /\ Operands(h[a].node)[i] < a
           /\ h[a].value = Valued(h[a].node, Values(h, Operands(h[a].node)), Rows, T)
           /\ h[a].alone = Valued(h[a].node, Alones(h, Operands(h[a].node)), 1, NoColumns)
           /\ h[a].constant = Constant(h[a].node, Constants(h, Operands(h[a].node)))
<1>1. Len(h) \in Nat /\ DOMAIN h = 1..Len(h)
  BY SeqFacts DEF Heap
<1>2. IsExpr(h[a].node) /\ Below(h[a].node, a - 1) /\ h[a] = Entry(T, h, h[a].node) /\ Sound(h[a])
  BY DEF Heap
<1>3. IsSeq(Operands(h[a].node))
  BY <1>2, OperandsFacts
<1>4. \A i \in 1..Len(Operands(h[a].node)) :
        Operands(h[a].node)[i] \in 1..Len(h) /\ Operands(h[a].node)[i] < a
  BY <1>1, <1>2 DEF Below
<1> DEFINE n == h[a].node
<1>5. /\ Entry(T, h, n).value = Valued(n, Values(h, Operands(n)), Rows, T)
      /\ Entry(T, h, n).alone = Valued(n, Alones(h, Operands(n)), 1, NoColumns)
      /\ Entry(T, h, n).constant = Constant(n, Constants(h, Operands(n)))
  BY EntryFacts
<1>6. h[a] = Entry(T, h, n)
  BY <1>2
<1>7. /\ h[a].value = Valued(n, Values(h, Operands(n)), Rows, T)
      /\ h[a].alone = Valued(n, Alones(h, Operands(n)), 1, NoColumns)
      /\ h[a].constant = Constant(n, Constants(h, Operands(n)))
  <2> HIDE DEF n
  <2> QED BY <1>5, <1>6
<1> QED
  BY <1>1, <1>2, <1>3, <1>4, <1>7

\* A node made on nodes that are there extends the heap and keeps what is known of it.
LEMMA MadeFacts ==
    ASSUME tab \in Tables, NEW h, Heap(tab, h), NEW node, IsExpr(node), Below(node, Len(h))
    PROVE  LET g == Made(h, node).exprs IN
           /\ Heap(tab, g) /\ Extends(h, g) /\ Len(g) = Len(h) + 1
           /\ Made(h, node).at = Len(h) + 1 /\ g[Len(h) + 1] = Entry(tab, h, node)
<1> DEFINE x == Entry(tab, h, node)
           g == Append(h, x)
           n == Len(h) + 1
<1>1. Made(h, node).exprs = g /\ Made(h, node).at = n
  BY NotedEntry DEF Made, Found
<1>2. IsSeq(h) /\ Len(h) \in Nat
  BY SeqFacts DEF Heap
<1>3. IsSeq(g) /\ Len(g) = n /\ (\A a \in 1..Len(h) : g[a] = h[a]) /\ g[n] = x
  BY <1>2, Appended
<1>4. Sound(x) /\ x.node = node
  BY EntrySound, EntryFacts
<1> HIDE DEF g
<1>5. ASSUME NEW e, IsExpr(e), Below(e, Len(h)) PROVE Entry(tab, g, e) = Entry(tab, h, e)
  <2>1. \A i \in 1..Len(Operands(e)) : g[Operands(e)[i]] = h[Operands(e)[i]]
    BY <1>3, <1>5 DEF Below
  <2> QED BY <1>5, <2>1, EntrySame
<1>6. ASSUME NEW a \in 1..Len(g)
      PROVE  /\ IsExpr(g[a].node) /\ Below(g[a].node, a - 1)
             /\ g[a] = Entry(tab, g, g[a].node) /\ Sound(g[a])
  <2>1. CASE a \in 1..Len(h)
    <3>1. /\ IsExpr(h[a].node) /\ Below(h[a].node, a - 1)
          /\ h[a] = Entry(tab, h, h[a].node) /\ Sound(h[a])
      BY <2>1 DEF Heap
    <3>2. Below(h[a].node, Len(h))
      BY <1>2, <2>1, <3>1 DEF Below
    <3>3. Entry(tab, g, h[a].node) = Entry(tab, h, h[a].node)
      BY <1>5, <3>1, <3>2
    <3> QED BY <1>3, <2>1, <3>1, <3>3
  <2>2. CASE a = n
    <3>1. g[a] = x /\ a - 1 = Len(h)
      BY <1>2, <1>3, <2>2
    <3>2. Entry(tab, g, node) = x
      BY <1>5
    <3> HIDE DEF x
    <3> QED BY <1>4, <3>1, <3>2
  <2> QED BY <1>2, <1>3, <2>1, <2>2
<1>7. Heap(tab, g)
  BY <1>3, <1>6 DEF Heap
<1>8. Extends(h, g)
  BY <1>2, <1>3 DEF Extends
<1> QED
  BY <1>1, <1>3, <1>7, <1>8

\* A call leaves the nodes and returns one of them, or one it has made.
Outcome(h, result) ==
    Heap(tab, result.exprs) /\ Extends(h, result.exprs) /\ result.at \in 1..Len(result.exprs)

\* A call that returns a node there is makes none.
LEMMA FoundFacts ==
    ASSUME NEW h, Heap(tab, h), NEW b \in 1..Len(h)
    PROVE  Outcome(h, Found(h, b)) /\ Found(h, b).exprs = h /\ Found(h, b).at = b
<1>1. Found(h, b).exprs = h /\ Found(h, b).at = b
  BY DEF Found
<1>2. Len(h) \in Nat
  BY HeapFacts
<1> QED
  BY <1>1, <1>2 DEF Outcome, Extends

\* A call that makes a node: its value is computed from those of its operands.
LEMMA MadeOutcome ==
    ASSUME tab \in Tables, NEW h, Heap(tab, h), NEW node, IsExpr(node), Below(node, Len(h))
    PROVE  LET g == Made(h, node).exprs
               b == Made(h, node).at
           IN  /\ Outcome(h, Made(h, node)) /\ b = Len(h) + 1 /\ g[b].node = node
               /\ g[b].value = Valued(node, Values(h, Operands(node)), Rows, tab)
               /\ g[b].alone = Valued(node, Alones(h, Operands(node)), 1, NoColumns)
               /\ g[b].constant = Constant(node, Constants(h, Operands(node)))
<1> DEFINE g == Made(h, node).exprs
           b == Made(h, node).at
           x == Entry(tab, h, node)
<1>1. Heap(tab, g) /\ Extends(h, g) /\ Len(g) = Len(h) + 1 /\ b = Len(h) + 1 /\ g[b] = x
  BY MadeFacts
<1>2. Len(h) \in Nat
  BY SeqFacts DEF Heap
<1>3. /\ x.node = node /\ x.value = Valued(node, Values(h, Operands(node)), Rows, tab)
      /\ x.alone = Valued(node, Alones(h, Operands(node)), 1, NoColumns)
      /\ x.constant = Constant(node, Constants(h, Operands(node)))
  BY EntryFacts
<1>4. Outcome(h, Made(h, node))
  BY <1>1, <1>2 DEF Outcome
<1> HIDE DEF g, b, x
<1>5. /\ b = Len(h) + 1 /\ g[b].node = node
      /\ g[b].value = Valued(node, Values(h, Operands(node)), Rows, tab)
      /\ g[b].alone = Valued(node, Alones(h, Operands(node)), 1, NoColumns)
      /\ g[b].constant = Constant(node, Constants(h, Operands(node)))
  BY <1>1, <1>3
<1> QED
  BY <1>4, <1>5 DEF g, b

\* Operands of the node at a, or what calls on them have returned.
Kids(h, a, kids) ==
    Fits(h[a].node, kids) /\ \A i \in 1..Len(kids) : kids[i] \in 1..Len(h)

\* The copy with other operands differs in these only; with its own operands it is the node itself.
LEMMA RebuiltFacts ==
    ASSUME tab \in Tables, NEW h, Heap(tab, h), NEW a \in 1..Len(h), NEW kids, Kids(h, a, kids)
    PROVE  LET n == h[a].node
               g == Rebuilt(h, a, kids).exprs
               b == Rebuilt(h, a, kids).at
           IN  /\ Outcome(h, Rebuilt(h, a, kids))
               /\ kids = Operands(n) => b = a
               /\ IsExpr(g[b].node) /\ g[b].node.k = n.k /\ Operands(g[b].node) = kids
               /\ \A f \in ExprFields[n.k] \ Links : g[b].node[f] = n[f]
               /\ g[b].value = Valued(n, Values(h, kids), Rows, tab)
               /\ g[b].alone = Valued(n, Alones(h, kids), 1, NoColumns)
               /\ g[b].constant = Constant(n, Constants(h, kids))
<1> DEFINE n == h[a].node
           g == Rebuilt(h, a, kids).exprs
           b == Rebuilt(h, a, kids).at
<1>0. IsExpr(n)
  BY HeapFacts
<1>1. CASE kids = Operands(n)
  <2>1. Rebuilt(h, a, kids) = Found(h, a)
    BY <1>1 DEF Rebuilt
  <2>2. Outcome(h, Found(h, a)) /\ Found(h, a).exprs = h /\ Found(h, a).at = a
    BY FoundFacts
  <2>3. /\ h[a].value = Valued(n, Values(h, kids), Rows, tab)
        /\ h[a].alone = Valued(n, Alones(h, kids), 1, NoColumns)
        /\ h[a].constant = Constant(n, Constants(h, kids))
    BY <1>1, HeapFacts
  <2> QED BY <1>0, <1>1, <2>1, <2>2, <2>3
<1>2. CASE kids # Operands(n)
  <2> DEFINE m == WithOperands(n, kids)
  <2>1. Fits(n, kids)
    BY DEF Kids
  <2>2. /\ IsExpr(m) /\ m.k = n.k /\ Operands(m) = kids
        /\ \A f \in ExprFields[n.k] \ Links : m[f] = n[f]
    <3> HIDE DEF n
    <3> QED BY <1>0, <2>1, WithOperandsFacts
  <2>3. Rebuilt(h, a, kids) = Made(h, m)
    BY <1>2 DEF Rebuilt
  <2> HIDE DEF m
  <2>4. Below(m, Len(h))
    BY <2>2 DEF Below, Kids
  <2>5. /\ Outcome(h, Made(h, m)) /\ Made(h, m).exprs[Made(h, m).at].node = m
        /\ Made(h, m).exprs[Made(h, m).at].value = Valued(m, Values(h, kids), Rows, tab)
        /\ Made(h, m).exprs[Made(h, m).at].alone = Valued(m, Alones(h, kids), 1, NoColumns)
        /\ Made(h, m).exprs[Made(h, m).at].constant = Constant(m, Constants(h, kids))
    BY <2>2, <2>4, MadeOutcome
  <2>6. /\ \A cols, k, T : Valued(m, cols, k, T) = Valued(n, cols, k, T)
        /\ \A ops : Constant(m, ops) = Constant(n, ops)
    <3> HIDE DEF n
    <3> QED BY <1>0, <2>2, SameSaid
  <2> HIDE DEF n, g, b
  <2>7. g = Made(h, m).exprs /\ b = Made(h, m).at
    BY <2>3 DEF g, b
  <2>8. /\ IsExpr(g[b].node) /\ g[b].node.k = n.k /\ Operands(g[b].node) = kids
        /\ \A f \in ExprFields[n.k] \ Links : g[b].node[f] = n[f]
    BY <2>2, <2>5, <2>7
  <2>9. /\ g[b].value = Valued(n, Values(h, kids), Rows, tab)
        /\ g[b].alone = Valued(n, Alones(h, kids), 1, NoColumns)
        /\ g[b].constant = Constant(n, Constants(h, kids))
    BY <2>5, <2>6, <2>7
  <2> QED BY <1>2, <2>3, <2>5, <2>8, <2>9 DEF n, g, b
<1> QED
  BY <1>1, <1>2

-----------------------------------------------------------------------------
\* What a call returns.

\* Nodes that a pass has settled, with all that is under them.
Closed(pass, h, Q) ==
    \A q \in Q : /\ q \in 1..Len(h) /\ Settled(pass, h, q)
                 /\ \A i \in 1..Len(Operands(h[q].node)) : Operands(h[q].node)[i] \in Q

\* What it leaves settled: the node at b, over nodes of Q.
LeftSettled(pass, g, b, Q) ==
    /\ Settled(pass, g, b)
    /\ \A i \in 1..Len(Operands(g[b].node)) : Operands(g[b].node)[i] \in Q

\* A literal of a cell of its type is a node without operands.
LEMMA LitExpr ==
    ASSUME NEW t \in Types, NEW x \in Cells(t)
    PROVE  /\ IsExpr(Lit(t, x)) /\ Lit(t, x).k = "lit" /\ Lit(t, x).ty = t /\ Lit(t, x).val = x
           /\ Operands(Lit(t, x)) = <<>> /\ Len(Operands(Lit(t, x))) = 0
<1> DEFINE e == Lit(t, x)
<1>1. e.k = "lit" /\ e.ty = t /\ e.val = x
  BY DEF Lit
<1>2. e = [y \in {"k", "ty", "val"} |-> e[y]]
  BY DEF Lit
<1> HIDE DEF e
<1>3. IsExpr(e)
  BY <1>1, <1>2, FieldsFacts DEF IsExpr, Kinds
<1>4. Operands(e) = <<>>
  BY <1>1 DEF Operands
<1> QED
  BY <1>1, <1>3, <1>4, PairFacts DEF e

\* A literal that is made is settled.
LEMMA MadeLit ==
    ASSUME tab \in Tables, NEW h, Heap(tab, h), NEW t \in Types, NEW x \in Cells(t), NEW Q,
           NEW pass
    PROVE  LET g == Made(h, Lit(t, x)).exprs
               b == Made(h, Lit(t, x)).at
           IN  /\ Outcome(h, Made(h, Lit(t, x))) /\ LeftSettled(pass, g, b, Q)
               /\ g[b].value = evalLit(Lit(t, x), Rows) /\ g[b].alone = evalLit(Lit(t, x), 1)
               /\ g[b].constant = TRUE
<1> DEFINE e == Lit(t, x)
           g == Made(h, e).exprs
           b == Made(h, e).at
<1>1. IsExpr(e) /\ e.k = "lit" /\ Operands(e) = <<>> /\ Len(Operands(e)) = 0
  BY LitExpr
<1> HIDE DEF e
<1>2. Below(e, Len(h))
  BY <1>1 DEF Below
<1>3. /\ Outcome(h, Made(h, e)) /\ g[b].node = e
      /\ g[b].value = Valued(e, Values(h, Operands(e)), Rows, tab)
      /\ g[b].alone = Valued(e, Alones(h, Operands(e)), 1, NoColumns)
      /\ g[b].constant = Constant(e, Constants(h, Operands(e)))
  BY <1>1, <1>2, MadeOutcome
<1>4. Constant(e, Constants(h, Operands(e))) = TRUE
  <2>1. DOMAIN Constants(h, Operands(e)) = 1..Len(Operands(e))
    BY <1>1, PairFacts, SeqFacts DEF Constants
  <2>2. Constant(e, Constants(h, Operands(e)))
    BY <1>1, <2>1 DEF Constant
  <2> QED BY <2>2 DEF Constant
<1> HIDE DEF g, b
<1>5. Settled(pass, g, b)
  <2>1. \A c, y : ~Folds(e, c, y) /\ SimplifiedTo(e, c) = "none"
    BY <1>1 DEF Folds, SimplifiedTo
  <2> QED BY <1>3, <2>1 DEF Settled
<1>6. LeftSettled(pass, g, b, Q)
  BY <1>1, <1>3, <1>5 DEF LeftSettled
<1>7. g[b].value = evalLit(e, Rows) /\ g[b].alone = evalLit(e, 1)
  BY <1>1, <1>3, ValuedFacts
<1> QED
  BY <1>3, <1>4, <1>6, <1>7 DEF g, b, e

\* A node no rule applies to is settled once its operands are what calls returned.
LEMMA RebuiltSettled ==
    ASSUME tab \in Tables, NEW h, Heap(tab, h), NEW a \in 1..Len(h), NEW kids, Kids(h, a, kids),
           NEW Q, \A i \in 1..Len(kids) : kids[i] \in Q, NEW pass \in {"fold", "simplify"},
           pass = "fold" => /\ ~Folds(h[a].node, Constants(h, kids), h[a].alone)
                            /\ h[a].alone = Valued(h[a].node, Alones(h, kids), 1, NoColumns),
           pass = "simplify" => SimplifiedTo(h[a].node, Nodes(h, kids)) = "none"
    PROVE  LeftSettled(pass, Rebuilt(h, a, kids).exprs, Rebuilt(h, a, kids).at, Q)
<1> DEFINE n == h[a].node
           g == Rebuilt(h, a, kids).exprs
           b == Rebuilt(h, a, kids).at
           m == g[b].node
<1>0. IsExpr(n) /\ IsSeq(kids)
  BY HeapFacts DEF Kids, Fits
<1>1. /\ Outcome(h, Rebuilt(h, a, kids)) /\ IsExpr(m) /\ m.k = n.k /\ Operands(m) = kids
      /\ \A f \in ExprFields[n.k] \ Links : m[f] = n[f]
      /\ g[b].alone = Valued(n, Alones(h, kids), 1, NoColumns)
  BY RebuiltFacts
<1>2. /\ \A i \in 1..Len(kids) : g[kids[i]].constant = h[kids[i]].constant
      /\ \A i \in 1..Len(kids) : g[kids[i]].node = h[kids[i]].node
  <2>1. \A i \in 1..Len(kids) : g[kids[i]] = h[kids[i]]
    BY <1>1 DEF Outcome, Extends, Kids
  <2> QED BY <2>1
<1>3. /\ \A c, x : Folds(m, c, x) = Folds(n, c, x)
      /\ \A c : SimplifiedTo(m, c) = SimplifiedTo(n, c)
  <2> HIDE DEF n, m
  <2> QED BY <1>0, <1>1, SameSaid
<1> HIDE DEF g, b
<1>4. Constants(g, kids) = Constants(h, kids) /\ Nodes(g, kids) = Nodes(h, kids)
  <2>1. IsSeq(kids) /\ Len(kids) = Len(kids)
    BY <1>0
  <2>2. Constants(g, kids) = Constants(h, kids)
    BY <2>1, <1>2, ConstantsSame
  <2>3. Nodes(g, kids) = Nodes(h, kids)
    BY <2>1, <1>2, NodesSame
  <2> QED BY <2>2, <2>3
<1>5. Settled(pass, g, b)
  BY <1>1, <1>3, <1>4 DEF Settled
<1>6. LeftSettled(pass, g, b, Q)
  BY <1>1, <1>5 DEF LeftSettled
<1> QED
  BY <1>6 DEF g, b

\* foldExpr makes a literal of a constant that has a value alone, and rebuilds any other node.
LEMMA FoldedAtIs ==
    ASSUME NEW h, NEW a, NEW kids
    PROVE  FoldedAt(h, a, kids) =
             IF Folds(h[a].node, Constants(h, kids), h[a].alone)
             THEN Made(h, Lit(h[a].alone.ty, h[a].alone.v[1])) ELSE Rebuilt(h, a, kids)
  BY DEF FoldedAt, Constants

\* What foldExpr returns evaluates to the same, alone and in every row, exceptions included; the pass
\* would leave it; and a settled node whose operands stayed is returned itself.
LEMMA FoldedFacts ==
    ASSUME tab \in Tables, NEW h, Heap(tab, h), NEW a \in 1..Len(h), NEW kids, Kids(h, a, kids),
           NEW Q, \A i \in 1..Len(kids) : kids[i] \in Q,
           \A i \in 1..Len(kids) : Alike(h[Operands(h[a].node)[i]], h[kids[i]])
    PROVE  LET g == FoldedAt(h, a, kids).exprs
               b == FoldedAt(h, a, kids).at
           IN  /\ Outcome(h, FoldedAt(h, a, kids)) /\ LeftSettled("fold", g, b, Q)
               /\ Alike(h[a], g[b])
               /\ kids = Operands(h[a].node) /\ Settled("fold", h, a) => b = a
<1> DEFINE n   == h[a].node
           ops == Operands(n)
           g   == FoldedAt(h, a, kids).exprs
           b   == FoldedAt(h, a, kids).at
           x   == h[a].alone
<1>0. /\ IsExpr(n) /\ IsSeq(ops) /\ Sound(h[a]) /\ IsSeq(kids) /\ Len(kids) = Len(ops)
      /\ h[a].value = Valued(n, Values(h, ops), Rows, tab)
      /\ x = Valued(n, Alones(h, ops), 1, NoColumns)
      /\ h[a].constant = Constant(n, Constants(h, ops))
  BY HeapFacts DEF Kids, Fits
<1>1. /\ Values(h, ops) = Values(h, kids) /\ Alones(h, ops) = Alones(h, kids)
      /\ Constants(h, ops) = Constants(h, kids)
  <2>1. \A i \in 1..Len(ops) : Alike(h[ops[i]], h[kids[i]])
    BY <1>0
  <2> HIDE DEF ops
  <2>3. IsSeq(ops) /\ IsSeq(kids) /\ Len(ops) = Len(kids)
    BY <1>0
  <2>4. Values(h, ops) = Values(h, kids)
    <3>1. \A i \in 1..Len(ops) : h[ops[i]].value = h[kids[i]].value
      BY <2>1 DEF Alike
    <3> QED BY <2>3, <3>1, ValuesSame
  <2>5. Alones(h, ops) = Alones(h, kids)
    <3>1. \A i \in 1..Len(ops) : h[ops[i]].alone = h[kids[i]].alone
      BY <2>1 DEF Alike
    <3> QED BY <2>3, <3>1, AlonesSame
  <2>6. Constants(h, ops) = Constants(h, kids)
    <3>1. \A i \in 1..Len(ops) : h[ops[i]].constant = h[kids[i]].constant
      BY <2>1 DEF Alike
    <3> QED BY <2>3, <3>1, ConstantsSame
  <2> QED BY <2>4, <2>5, <2>6
<1>2. DOMAIN Constants(h, kids) = DOMAIN kids
  BY DEF Constants
<1>3. CASE Folds(n, Constants(h, kids), x)
  <2>1. FoldedAt(h, a, kids) = Made(h, Lit(x.ty, x.v[1]))
    BY <1>3, FoldedAtIs
  <2>2. n.k \in {"bin", "un", "str"} /\ x # Throws /\ \A i \in DOMAIN kids : Constants(h, kids)[i]
    BY <1>2, <1>3 DEF Folds
  <2>3. Constant(n, Constants(h, kids))
    BY <1>2, <2>2 DEF Constant
  <2>4. h[a].constant
    <3> HIDE DEF n, ops
    <3> QED BY <1>0, <1>1, <2>3
  <2>5. IsColumn(x, 1) /\ h[a].value = Spread(x)
    BY <1>0, <2>2, <2>4 DEF Sound, Uniform, Typed
  <2> HIDE DEF x
  <2>6. /\ IsColumn(Spread(x), Rows) /\ Spread(x).ty = x.ty /\ Len(Spread(x).v) = Rows
        /\ \A i \in 1..Rows : Spread(x).v[i] = x.v[1]
        /\ Len(x.v) = 1 /\ x.v[1] \in Cells(x.ty) /\ x.ty \in Types
    BY <2>5, SpreadFacts
  <2> DEFINE e == Lit(x.ty, x.v[1])
  <2>7. e.ty = x.ty /\ e.val = x.v[1] /\ Rows \in Nat /\ 1 \in Nat
    BY RowsAssumption DEF Lit
  <2>8. /\ Outcome(h, Made(h, e)) /\ LeftSettled("fold", Made(h, e).exprs, Made(h, e).at, Q)
        /\ Made(h, e).exprs[Made(h, e).at].value = evalLit(e, Rows)
        /\ Made(h, e).exprs[Made(h, e).at].alone = evalLit(e, 1)
        /\ Made(h, e).exprs[Made(h, e).at].constant = TRUE
    <3> DEFINE t == x.ty
               c == x.v[1]
    <3>1. t \in Types /\ c \in Cells(t)
      BY <2>6
    <3> HIDE DEF t, c
    <3>2. /\ Outcome(h, Made(h, Lit(t, c)))
          /\ LeftSettled("fold", Made(h, Lit(t, c)).exprs, Made(h, Lit(t, c)).at, Q)
          /\ Made(h, Lit(t, c)).exprs[Made(h, Lit(t, c)).at].value = evalLit(Lit(t, c), Rows)
          /\ Made(h, Lit(t, c)).exprs[Made(h, Lit(t, c)).at].alone = evalLit(Lit(t, c), 1)
          /\ Made(h, Lit(t, c)).exprs[Made(h, Lit(t, c)).at].constant = TRUE
      BY <3>1, MadeLit
    <3> QED BY <3>2 DEF t, c
  <2> HIDE DEF e
  <2>9. /\ IsColumn(evalLit(e, Rows), Rows) /\ evalLit(e, Rows).ty = x.ty
        /\ Len(evalLit(e, Rows).v) = Rows /\ \A i \in 1..Rows : evalLit(e, Rows).v[i] = x.v[1]
    <3>1. e.ty \in Types /\ e.val \in Cells(e.ty)
      BY <2>6, <2>7
    <3> QED BY <2>7, <3>1, LitFacts
  <2>10. /\ IsColumn(evalLit(e, 1), 1) /\ evalLit(e, 1).ty = x.ty
         /\ Len(evalLit(e, 1).v) = 1 /\ \A i \in 1..1 : evalLit(e, 1).v[i] = x.v[1]
    <3>1. e.ty \in Types /\ e.val \in Cells(e.ty)
      BY <2>6, <2>7
    <3> DEFINE m == 1
    <3>2. m \in Nat /\ m \in {1, m}
      OBVIOUS
    <3> HIDE DEF m
    <3>3. /\ IsColumn(evalLit(e, m), m) /\ evalLit(e, m).ty = e.ty
          /\ Len(evalLit(e, m).v) = m /\ \A i \in 1..m : evalLit(e, m).v[i] = e.val
      BY <3>1, <3>2, LitFacts
    <3> QED BY <2>7, <3>3 DEF m
  <2>11. evalLit(e, Rows) = Spread(x)
    BY <2>6, <2>7, <2>9, SameColumn
  <2>12. evalLit(e, 1) = x
    BY <2>5, <2>6, <2>7, <2>10, SameColumn
  <2>13. h[a].constant = TRUE
    <3>1. h[a].constant = Constant(n, Constants(h, kids))
      BY <1>0, <1>1
    <3>2. Constant(n, Constants(h, kids)) = TRUE
      BY <2>3 DEF Constant
    <3> QED BY <3>1, <3>2
  <2>14. Alike(h[a], g[b])
    <3> HIDE DEF n, ops
    <3>1. g = Made(h, e).exprs /\ b = Made(h, e).at
      BY <2>1 DEF e, x
    <3> HIDE DEF g, b
    <3>2. /\ g[b].value = evalLit(e, Rows) /\ g[b].alone = evalLit(e, 1)
          /\ g[b].constant = TRUE
      BY <2>8, <3>1
    <3>3. h[a].value = Spread(x) /\ h[a].alone = x
      BY <2>5 DEF x
    <3> HIDE DEF e
    <3>4. h[a].value = g[b].value
      BY <2>11, <3>2, <3>3
    <3>5. h[a].alone = g[b].alone
      BY <2>12, <3>2, <3>3
    <3>6. h[a].constant = g[b].constant
      BY <2>13, <3>2
    <3> QED BY <3>4, <3>5, <3>6 DEF Alike
  <2>15. kids = ops => ~Settled("fold", h, a)
    BY <1>3 DEF Settled, x
  <2>16. Outcome(h, FoldedAt(h, a, kids)) /\ LeftSettled("fold", g, b, Q)
    BY <2>1, <2>8 DEF e, x
  <2> QED BY <2>14, <2>15, <2>16
<1>4. CASE ~Folds(n, Constants(h, kids), x)
  <2>1. FoldedAt(h, a, kids) = Rebuilt(h, a, kids)
    BY <1>4, FoldedAtIs
  <2>2. LET g1 == Rebuilt(h, a, kids).exprs
            b1 == Rebuilt(h, a, kids).at
        IN  /\ Outcome(h, Rebuilt(h, a, kids)) /\ (kids = Operands(n) => b1 = a)
            /\ g1[b1].value = Valued(n, Values(h, kids), Rows, tab)
            /\ g1[b1].alone = Valued(n, Alones(h, kids), 1, NoColumns)
            /\ g1[b1].constant = Constant(n, Constants(h, kids))
    BY RebuiltFacts
  <2>3. x = Valued(n, Alones(h, kids), 1, NoColumns)
    BY <1>0, <1>1
  <2>4. LeftSettled("fold", Rebuilt(h, a, kids).exprs, Rebuilt(h, a, kids).at, Q)
    BY <1>4, <2>3, RebuiltSettled
  <2>5. Alike(h[a], g[b])
    <3>1. /\ g[b].value = Valued(n, Values(h, kids), Rows, tab)
          /\ g[b].alone = Valued(n, Alones(h, kids), 1, NoColumns)
          /\ g[b].constant = Constant(n, Constants(h, kids))
      BY <2>1, <2>2
    <3>2. /\ h[a].value = Valued(n, Values(h, kids), Rows, tab)
          /\ h[a].alone = Valued(n, Alones(h, kids), 1, NoColumns)
          /\ h[a].constant = Constant(n, Constants(h, kids))
      BY <1>0, <1>1
    <3> HIDE DEF g, b, n
    <3> QED BY <3>1, <3>2 DEF Alike
  <2> QED BY <2>1, <2>2, <2>4, <2>5
<1> QED
  BY <1>3, <1>4

\* A node's value is its operands' evaluated.
LEMMA HeldAt ==
    ASSUME tab \in Tables, NEW h, Heap(tab, h), NEW a \in 1..Len(h)
    PROVE  IsExpr(h[a].node) /\ Holds(h[a].node, h[a].value) /\ Typed(h[a].value, Rows)
<1>1. IsExpr(h[a].node) /\ Sound(h[a])
  BY HeapFacts
<1>2. h[a].value = Valued(h[a].node, Values(h, Operands(h[a].node)), Rows, tab)
  BY HeapFacts
<1>3. isLit(h[a].node) => h[a].value = evalLit(h[a].node, Rows)
  BY <1>1, <1>2, ValuedFacts DEF isLit
<1> QED
  BY <1>1, <1>3 DEF Sound, Holds

\* Which rule applies says what the node is.
LEMMA SimplifiedToFacts ==
    ASSUME NEW e, IsExpr(e), NEW c
    PROVE  /\ e.k = "bin" => SimplifiedTo(e, c) = Identity(e.op, c[1], c[2])
           /\ e.k # "bin" => SimplifiedTo(e, c) \in {"inner", "none"}
           /\ SimplifiedTo(e, c) = "inner" =>
                e.k = "un" /\ e.op = "NOT" /\ c[1].k = "un" /\ c[1].op = "NOT"
<1>1. e.k = "bin" => SimplifiedTo(e, c) = Identity(e.op, c[1], c[2])
  BY DEF SimplifiedTo
<1>2. e.k = "un" => SimplifiedTo(e, c) = IF e.op = "NOT" /\ c[1].k = "un" /\ c[1].op = "NOT"
                                         THEN "inner" ELSE "none"
  BY DEF SimplifiedTo
<1>3. e.k \notin {"bin", "un"} => SimplifiedTo(e, c) = "none"
  BY DEF SimplifiedTo
<1>4. e.k = "bin" => Identity(e.op, c[1], c[2]) \in {"left", "right", "zero", "true", "none"}
  BY ExprFacts, IdentityFacts
<1> QED
  BY <1>1, <1>2, <1>3, <1>4

\* The literals simplifyExpr makes.
LEMMA LiteralCells ==
    /\ Lit32(0) = Lit("INT32", 0) /\ "INT32" \in Types /\ 0 \in Cells("INT32")
    /\ Bool(TRUE) = Lit("BOOLEAN", 1) /\ "BOOLEAN" \in Types /\ 1 \in Cells("BOOLEAN")
<1>1. Half["INT32"] \in Nat \ {0}
  BY HalfFacts
<1>2. 0 \in -Half["INT32"]..Half["INT32"] - 1
  BY <1>1
<1>3. 0 \in Cells("INT32") /\ 1 \in Cells("BOOLEAN")
  BY <1>2, CellsFacts
<1>4. "INT32" \in Types /\ "BOOLEAN" \in Types
  BY DEF Types, ColTypes
<1> QED
  BY <1>3, <1>4 DEF Lit32, Bool

\* An identity of a binary node keeps what the node was, but for what LostAt says.
LEMMA IdentityAt ==
    ASSUME tab \in Tables, NEW h, Heap(tab, h), NEW a \in 1..Len(h), NEW kids, Kids(h, a, kids),
           h[a].node.k = "bin"
    PROVE  LET rule == Rule(h, a, kids)
               M    == Valued(h[a].node, Values(h, kids), Rows, tab)
               l    == LostAt(h, a, kids)
           IN  /\ rule \in {"left", "right", "zero", "true", "none"} /\ l \in Losses
               /\ rule = "left" => Kept(M, h[kids[1]].value, l)
               /\ rule = "right" => Kept(M, h[kids[2]].value, l)
               /\ rule = "zero" => Kept(M, evalLit(Lit32(0), Rows), l)
               /\ rule = "true" => Kept(M, evalLit(Bool(TRUE), Rows), l)
<1> DEFINE n    == h[a].node
           op   == n.op
           L    == h[kids[1]].node
           R    == h[kids[2]].node
           C    == h[kids[1]].value
           D    == h[kids[2]].value
           rule == Rule(h, a, kids)
           M    == Valued(n, Values(h, kids), Rows, tab)
           l    == LostAt(h, a, kids)
           m    == IF L.val = Null THEN "cells"
                   ELSE IF rule = "zero" /\ L.ty = "INT64" THEN "width" ELSE "nothing"
<1>1. IsExpr(n) /\ op \in BinaryOps /\ IsSeq(kids) /\ Len(kids) = 2
  <2>1. IsExpr(n)
    BY HeapFacts
  <2>2. Len(kids) = Len(Operands(n)) /\ IsSeq(kids)
    BY DEF Kids, Fits
  <2> HIDE DEF n
  <2>3. n.k = "bin"
    BY DEF n
  <2> QED BY <2>1, <2>2, <2>3, ExprFacts, OperandsFacts
<1>2. kids[1] \in 1..Len(h) /\ kids[2] \in 1..Len(h)
  BY <1>1 DEF Kids
<1>3. IsExpr(L) /\ IsExpr(R) /\ Holds(L, C) /\ Holds(R, D)
  BY <1>2, HeldAt
<1>4. /\ Values(h, kids)[1] = C /\ Values(h, kids)[2] = D
      /\ Nodes(h, kids)[1] = L /\ Nodes(h, kids)[2] = R
  <2>1. 1 \in 1..Len(kids) /\ 2 \in 1..Len(kids) /\ IsSeq(kids)
    BY <1>1
  <2>2. Values(h, kids)[1] = h[kids[1]].value /\ Values(h, kids)[2] = h[kids[2]].value
    BY <2>1, ValueAt
  <2>3. Nodes(h, kids)[1] = h[kids[1]].node /\ Nodes(h, kids)[2] = h[kids[2]].node
    BY <2>1, NodeAt
  <2> QED BY <2>2, <2>3
<1>5. op # "MOD" => M = evalBinary(op, C, D)
  <2>1. n.k = "bin"
    OBVIOUS
  <2> DEFINE vs == Values(h, kids)
  <2>2. vs[1] = C /\ vs[2] = D
    BY <1>4
  <2>3. M = Valued(n, vs, Rows, tab) /\ op = n.op
    OBVIOUS
  <2> HIDE DEF n, C, D, M, vs, op
  <2>4. n.op # "MOD" => Valued(n, vs, Rows, tab) = evalBinary(n.op, vs[1], vs[2])
    BY <1>1, <2>1, ValuedFacts DEF Combined
  <2> QED BY <2>2, <2>3, <2>4
<1>6. rule = Identity(op, L, R)
  <2>1. rule = SimplifiedTo(n, Nodes(h, kids))
    BY DEF Rule, Nodes
  <2> HIDE DEF n, L, R, rule
  <2>2. n.k = "bin"
    BY DEF n
  <2> QED BY <1>1, <1>4, <2>1, <2>2, SimplifiedToFacts
<1>7. /\ rule = "left" => l = LostBy(op, R, C)
      /\ rule = "right" => l = LostBy(op, L, D)
      /\ rule \in {"zero", "true"} => l = m
      /\ rule = "none" => l = "nothing"
  <2> HIDE DEF rule
  <2>1. rule = "left" => l = LostBy(op, R, C)
    BY DEF LostAt, rule
  <2>2. rule = "right" => l = LostBy(op, L, D)
    BY DEF LostAt, rule
  <2>3. rule \in {"zero", "true"} => l = m
    BY DEF LostAt, rule
  <2>4. rule = "none" => l = "nothing"
    BY DEF LostAt, rule
  <2> QED BY <2>1, <2>2, <2>3, <2>4
<1> HIDE DEF n, op, L, R, C, D, rule, M, l
<1>8. rule \in {"left", "right", "zero", "true", "none"}
  BY <1>1, <1>6, IdentityFacts
<1>9. m \in Losses /\ LostBy(op, R, C) \in Losses /\ LostBy(op, L, D) \in Losses
  BY LostByFacts DEF Losses
<1>10. l \in Losses
  <2> HIDE DEF m
  <2> QED BY <1>7, <1>8, <1>9 DEF Losses
<1>11. /\ rule = "left" => Kept(M, C, LostBy(op, R, C))
       /\ rule = "right" => Kept(M, D, LostBy(op, L, D))
       /\ rule = "zero" => Kept(M, evalLit(Lit32(0), Rows), m)
       /\ rule = "true" => Kept(M, evalLit(Bool(TRUE), Rows), m)
  <2>1. CASE op # "MOD"
    BY <1>1, <1>3, <1>5, <1>6, <2>1, IdentityKept
  <2>2. op = "MOD" => rule \notin {"left", "right", "zero", "true"}
    BY <1>1, <1>6, IdentityFacts
  <2> QED BY <2>1, <2>2
<1> HIDE DEF m
<1>12. /\ rule = "left" => Kept(M, C, l)
       /\ rule = "right" => Kept(M, D, l)
       /\ rule = "zero" => Kept(M, evalLit(Lit32(0), Rows), l)
       /\ rule = "true" => Kept(M, evalLit(Bool(TRUE), Rows), l)
  BY <1>7, <1>11
<1> QED
  BY <1>8, <1>10, <1>12 DEF rule, M, l, C, D, n

\* What simplification makes of a node: settled, and what the node is with its operands
\* simplified, but for what LostAt says.
LEMMA SimplifiedFacts ==
    ASSUME tab \in Tables, NEW h, Heap(tab, h), NEW a \in 1..Len(h), NEW kids, Kids(h, a, kids),
           NEW Q, Closed("simplify", h, Q), \A i \in 1..Len(kids) : kids[i] \in Q
    PROVE  LET g == SimplifiedAt(h, a, kids).exprs
               b == SimplifiedAt(h, a, kids).at
           IN  /\ Outcome(h, SimplifiedAt(h, a, kids)) /\ LeftSettled("simplify", g, b, Q)
               /\ LostAt(h, a, kids) \in Losses
               /\ Kept(Valued(h[a].node, Values(h, kids), Rows, tab), g[b].value, LostAt(h, a, kids))
               /\ kids = Operands(h[a].node) /\ Settled("simplify", h, a) => b = a
<1> DEFINE n    == h[a].node
           M    == Valued(n, Values(h, kids), Rows, tab)
           l    == LostAt(h, a, kids)
           new  == SimplifiedAt(h, a, kids)
           rule == Rule(h, a, kids)
<1>1. IsExpr(n) /\ IsSeq(kids) /\ Len(kids) = Len(Operands(n))
  BY HeapFacts DEF Kids, Fits
<1>2. rule = SimplifiedTo(n, Nodes(h, kids))
  BY DEF Rule, Nodes
<1>3. \A q \in Q : /\ q \in 1..Len(h) /\ LeftSettled("simplify", h, q, Q)
                   /\ Outcome(h, Found(h, q)) /\ Found(h, q).exprs = h /\ Found(h, q).at = q
  <2> TAKE q \in Q
  <2>1. q \in 1..Len(h) /\ LeftSettled("simplify", h, q, Q)
    BY DEF Closed, LeftSettled
  <2> QED BY <2>1, FoundFacts
<1>4. rule # "none" => ~(kids = Operands(n) /\ Settled("simplify", h, a))
  BY <1>2 DEF Settled
<1>5. CASE rule = "none"
  <2>1. new = Rebuilt(h, a, kids) /\ l = "nothing"
    BY <1>5 DEF SimplifiedAt, LostAt
  <2>2. LET g1 == Rebuilt(h, a, kids).exprs
            b1 == Rebuilt(h, a, kids).at
        IN  /\ Outcome(h, Rebuilt(h, a, kids)) /\ (kids = Operands(n) => b1 = a)
            /\ g1[b1].value = M
    BY RebuiltFacts
  <2>3. SimplifiedTo(n, Nodes(h, kids)) = "none"
    BY <1>2, <1>5
  <2>4. LeftSettled("simplify", Rebuilt(h, a, kids).exprs, Rebuilt(h, a, kids).at, Q)
    BY <2>3, RebuiltSettled
  <2> HIDE DEF M, l
  <2>5. Kept(M, new.exprs[new.at].value, l)
    BY <2>1, <2>2 DEF Kept
  <2>6. l \in Losses
    BY <2>1 DEF Losses
  <2> QED BY <2>1, <2>2, <2>4, <2>5, <2>6 DEF M, l
<1>6. CASE n.k = "bin" /\ rule # "none"
  <2>1. /\ rule \in {"left", "right", "zero", "true", "none"} /\ l \in Losses
        /\ rule = "left" => Kept(M, h[kids[1]].value, l)
        /\ rule = "right" => Kept(M, h[kids[2]].value, l)
        /\ rule = "zero" => Kept(M, evalLit(Lit32(0), Rows), l)
        /\ rule = "true" => Kept(M, evalLit(Bool(TRUE), Rows), l)
    BY <1>6, IdentityAt
  <2>2. kids[1] \in Q /\ kids[2] \in Q
    <3> HIDE DEF n
    <3>1. Len(kids) = 2
      BY <1>1, <1>6, OperandsFacts
    <3> QED BY <3>1
  <2> HIDE DEF M, l, rule
  <2>3. CASE rule = "left"
    <3>1. new = Found(h, kids[1])
      BY <2>3 DEF SimplifiedAt, rule
    <3> HIDE DEF new
    <3>2. /\ Outcome(h, new) /\ LeftSettled("simplify", new.exprs, new.at, Q)
          /\ Kept(M, new.exprs[new.at].value, l)
      BY <1>3, <2>1, <2>2, <2>3, <3>1
    <3> QED BY <1>4, <1>6, <2>1, <3>2 DEF new, M, l
  <2>4. CASE rule = "right"
    <3>1. new = Found(h, kids[2])
      BY <2>4 DEF SimplifiedAt, rule
    <3> HIDE DEF new
    <3>2. /\ Outcome(h, new) /\ LeftSettled("simplify", new.exprs, new.at, Q)
          /\ Kept(M, new.exprs[new.at].value, l)
      BY <1>3, <2>1, <2>2, <2>4, <3>1
    <3> QED BY <1>4, <1>6, <2>1, <3>2 DEF new, M, l
  <2>5. CASE rule = "zero"
    <3>1. new = Made(h, Lit("INT32", 0))
      BY <2>5, LiteralCells DEF SimplifiedAt, rule
    <3>2. /\ Outcome(h, Made(h, Lit("INT32", 0)))
          /\ LeftSettled("simplify", Made(h, Lit("INT32", 0)).exprs, Made(h, Lit("INT32", 0)).at, Q)
          /\ Made(h, Lit("INT32", 0)).exprs[Made(h, Lit("INT32", 0)).at].value
               = evalLit(Lit("INT32", 0), Rows)
      BY LiteralCells, MadeLit
    <3> HIDE DEF new
    <3>3. /\ Outcome(h, new) /\ LeftSettled("simplify", new.exprs, new.at, Q)
          /\ Kept(M, new.exprs[new.at].value, l)
      BY <2>1, <2>5, <3>1, <3>2, LiteralCells
    <3> QED BY <1>4, <1>6, <2>1, <3>3 DEF new, M, l
  <2>6. CASE rule = "true"
    <3>1. new = Made(h, Lit("BOOLEAN", 1))
      BY <2>6, LiteralCells DEF SimplifiedAt, rule
    <3>2. /\ Outcome(h, Made(h, Lit("BOOLEAN", 1)))
          /\ LeftSettled("simplify", Made(h, Lit("BOOLEAN", 1)).exprs,
                         Made(h, Lit("BOOLEAN", 1)).at, Q)
          /\ Made(h, Lit("BOOLEAN", 1)).exprs[Made(h, Lit("BOOLEAN", 1)).at].value
               = evalLit(Lit("BOOLEAN", 1), Rows)
      <4> DEFINE t == "BOOLEAN"
                 c == 1
      <4>1. t \in Types /\ c \in Cells(t)
        BY LiteralCells
      <4> HIDE DEF t, c
      <4>2. /\ Outcome(h, Made(h, Lit(t, c)))
            /\ LeftSettled("simplify", Made(h, Lit(t, c)).exprs, Made(h, Lit(t, c)).at, Q)
            /\ Made(h, Lit(t, c)).exprs[Made(h, Lit(t, c)).at].value = evalLit(Lit(t, c), Rows)
        BY <4>1, MadeLit
      <4> QED BY <4>2 DEF t, c
    <3> HIDE DEF new
    <3>3. /\ Outcome(h, new) /\ LeftSettled("simplify", new.exprs, new.at, Q)
          /\ Kept(M, new.exprs[new.at].value, l)
      BY <2>1, <2>6, <3>1, <3>2, LiteralCells
    <3> QED BY <1>4, <1>6, <2>1, <3>3 DEF new, M, l
  <2> QED BY <1>6, <2>1, <2>3, <2>4, <2>5, <2>6
<1>7. CASE n.k # "bin" /\ rule # "none"
  <2> DEFINE k == kids[1]
             m == h[k].node
             b == m.child
             ops == Operands(m)
  <2>1. rule = "inner" /\ n.k = "un" /\ n.op = "NOT"
    <3> HIDE DEF n, rule
    <3> QED BY <1>1, <1>2, <1>7, SimplifiedToFacts
  <2>2. 1 \in 1..Len(kids)
    <3> HIDE DEF n
    <3>1. Len(kids) = 1
      BY <1>1, <2>1, OperandsFacts
    <3> QED BY <3>1
  <2>3. k \in 1..Len(h) /\ k \in Q
    BY <1>3, <2>2
  <2>4. Nodes(h, kids)[1] = m /\ Values(h, kids)[1] = h[k].value
    BY <1>1, <2>2, NodeAt, ValueAt
  <2>5. m.k = "un" /\ m.op = "NOT"
    <3> DEFINE c == Nodes(h, kids)
    <3>1. SimplifiedTo(n, c) = "inner" /\ c[1] = m
      BY <1>2, <2>1, <2>4
    <3> HIDE DEF n, m, rule, c
    <3>2. c[1].k = "un" /\ c[1].op = "NOT"
      BY <1>1, <3>1, SimplifiedToFacts
    <3> QED BY <3>1, <3>2
  <2>6. IsExpr(m) /\ IsSeq(ops) /\ h[k].value = Valued(m, Values(h, ops), Rows, tab)
    BY <2>3, HeapFacts
  <2>7. Len(ops) = 1 /\ ops[1] = b
    <3> HIDE DEF m
    <3> QED BY <2>5, <2>6, OperandsFacts
  <2>8. b \in Q /\ b \in 1..Len(h)
    <3>1. 1 \in 1..Len(ops) /\ ops[1] \in Q
      BY <2>3, <2>7 DEF Closed
    <3> QED BY <1>3, <2>7, <3>1
  <2>9. Values(h, ops)[1] = h[b].value
    <3>1. 1 \in 1..Len(ops) /\ IsSeq(ops)
      BY <2>6, <2>7
    <3> HIDE DEF ops
    <3>2. Values(h, ops)[1] = h[ops[1]].value
      BY <3>1, ValueAt
    <3> QED BY <2>7, <3>2
  <2>10. h[k].value = evalUnary("NOT", h[b].value)
    <3> HIDE DEF m, b, ops
    <3> QED BY <2>5, <2>6, <2>9, ValuedFacts
  <2>11. M = evalUnary("NOT", h[k].value)
    <3> HIDE DEF n, k
    <3> QED BY <1>1, <2>1, <2>4, ValuedFacts
  <2>12. Typed(h[b].value, Rows)
    BY <2>8, HeldAt
  <2>13. Kept(M, h[b].value, "nothing")
    <3> DEFINE C == h[b].value
    <3> HIDE DEF C, M, b, k
    <3>1. Kept(evalUnary("NOT", evalUnary("NOT", C)), C, "nothing")
      BY <2>12, TwiceNegated DEF C
    <3> QED BY <2>10, <2>11, <3>1 DEF C
  <2>14. new = Found(h, b) /\ l = "nothing"
    <3> HIDE DEF rule
    <3> QED BY <2>1 DEF SimplifiedAt, LostAt, rule
  <2> HIDE DEF new, M, l, b
  <2>15. /\ Outcome(h, new) /\ LeftSettled("simplify", new.exprs, new.at, Q)
         /\ Kept(M, new.exprs[new.at].value, l) /\ l \in Losses
    BY <1>3, <2>8, <2>13, <2>14 DEF Losses
  <2> QED BY <1>4, <1>7, <2>15 DEF new, M, l
<1> QED
  BY <1>5, <1>6, <1>7

\* What simplifyExpr returns has the node's value up to the loss noted for the call: that of its
\* operands, carried through the node, and that of the identity.
LEMMA SimplifiedKept ==
    ASSUME tab \in Tables, NEW h, Heap(tab, h), NEW a \in 1..Len(h), NEW kids, Kids(h, a, kids),
           NEW Q, Closed("simplify", h, Q), \A i \in 1..Len(kids) : kids[i] \in Q, NEW l \in Losses,
           \A i \in 1..Len(kids) : Kept(h[Operands(h[a].node)[i]].value, h[kids[i]].value, l)
    PROVE  LET g == SimplifiedAt(h, a, kids).exprs
               b == SimplifiedAt(h, a, kids).at
               m == Loss("simplify", h, a, kids, l)
           IN  m \in Losses /\ Kept(h[a].value, g[b].value, m)
<1> DEFINE n   == h[a].node
           ops == Operands(n)
           V   == Values(h, ops)
           W   == Values(h, kids)
           M   == Valued(n, W, Rows, tab)
           new == SimplifiedAt(h, a, kids)
           s   == LostThrough(n, l)
           t   == LostAt(h, a, kids)
<1>1. /\ IsExpr(n) /\ IsSeq(ops) /\ IsSeq(kids) /\ Len(kids) = Len(ops)
      /\ h[a].value = Valued(n, V, Rows, tab) /\ Typed(h[a].value, Rows)
  BY HeapFacts DEF Kids, Fits, Sound
<1>2. /\ \A i \in 1..Len(ops) : ops[i] \in 1..Len(h)
      /\ \A i \in 1..Len(kids) : kids[i] \in 1..Len(h)
  BY HeapFacts DEF Kids
<1>3. Listed(tab, Rows) /\ Rows \in Nat /\ Rows \in {1, Rows}
  BY TablesAssumption, RowsAssumption DEF Listed
<1>4. \A i \in 1..Len(ops) : Kept(h[ops[i]].value, h[kids[i]].value, l)
  BY <1>1
<1> HIDE DEF ops
<1>5. \A i \in 1..Len(ops) : V[i] = h[ops[i]].value /\ W[i] = h[kids[i]].value
  <2>1. \A i \in 1..Len(ops) : V[i] = h[ops[i]].value
    BY <1>1, NotedAt
  <2>2. \A i \in 1..Len(kids) : W[i] = h[kids[i]].value
    BY <1>1, NotedAt
  <2> QED BY <1>1, <2>1, <2>2
<1> HIDE DEF V, W
<1>6. \A i \in 1..Len(ops) : Typed(V[i], Rows) /\ Typed(W[i], Rows) /\ Kept(V[i], W[i], l)
  <2> TAKE i \in 1..Len(ops)
  <2>1. ops[i] \in 1..Len(h) /\ kids[i] \in 1..Len(h)
    BY <1>1, <1>2
  <2>2. Typed(h[ops[i]].value, Rows) /\ Typed(h[kids[i]].value, Rows)
    BY <2>1, HeldAt
  <2> QED BY <1>4, <1>5, <2>2
<1>7. Kept(Valued(n, V, Rows, tab), M, s)
  <2> HIDE DEF n
  <2> QED BY <1>1, <1>3, <1>6, KeptThrough DEF ops
<1>8. Typed(M, Rows)
  <2> HIDE DEF n
  <2> QED BY <1>1, <1>3, <1>6, ValuedTyped DEF ops
<1>9. Outcome(h, new) /\ t \in Losses /\ Kept(M, new.exprs[new.at].value, t)
  BY SimplifiedFacts DEF W
<1>10. Typed(new.exprs[new.at].value, Rows)
  <2> HIDE DEF new
  <2> QED BY <1>9, HeldAt DEF Outcome
<1>11. s \in Losses
  BY DEF LostThrough, Losses
<1> HIDE DEF M, new, s, t
<1>12. Kept(h[a].value, new.exprs[new.at].value, Worse(s, t))
  BY <1>1, <1>3, <1>7, <1>8, <1>9, <1>10, <1>11, KeptTransitive
<1>13. Loss("simplify", h, a, kids, l) = Worse(s, t)
  BY DEF Loss, s, t
<1>14. Worse(s, t) \in Losses
  BY <1>9, <1>11, WorseFacts
<1> QED
  BY <1>12, <1>13, <1>14 DEF new

\* What either pass makes of a node.
LEMMA RewrittenFacts ==
    ASSUME tab \in Tables, NEW h, Heap(tab, h), NEW a \in 1..Len(h), NEW kids, Kids(h, a, kids),
           NEW pass \in {"fold", "simplify"},
           NEW Q, Closed(pass, h, Q), \A i \in 1..Len(kids) : kids[i] \in Q, NEW l \in Losses,
           \A i \in 1..Len(kids) : Kept(h[Operands(h[a].node)[i]].value, h[kids[i]].value, l),
           pass = "fold" =>
              \A i \in 1..Len(kids) : Alike(h[Operands(h[a].node)[i]], h[kids[i]])
    PROVE  LET new == RewrittenAt(pass, h, a, kids)
               m   == Loss(pass, h, a, kids, l)
           IN  /\ Outcome(h, new) /\ LeftSettled(pass, new.exprs, new.at, Q)
               /\ m \in Losses /\ Kept(h[a].value, new.exprs[new.at].value, m)
               /\ pass = "fold" => Alike(h[a], new.exprs[new.at])
               /\ kids = Operands(h[a].node) /\ Settled(pass, h, a) => new.at = a
<1> DEFINE new == RewrittenAt(pass, h, a, kids)
           m   == Loss(pass, h, a, kids, l)
<1>1. CASE pass = "fold"
  <2>1. new = FoldedAt(h, a, kids) /\ m = "nothing"
    BY <1>1 DEF RewrittenAt, Loss
  <2>2. LET g == FoldedAt(h, a, kids).exprs
            b == FoldedAt(h, a, kids).at
        IN  /\ Outcome(h, FoldedAt(h, a, kids)) /\ LeftSettled("fold", g, b, Q)
            /\ Alike(h[a], g[b])
            /\ kids = Operands(h[a].node) /\ Settled("fold", h, a) => b = a
    BY <1>1, FoldedFacts
  <2> HIDE DEF new, m
  <2>3. Kept(h[a].value, new.exprs[new.at].value, m) /\ m \in Losses
    BY <2>1, <2>2 DEF Kept, Alike, Losses
  <2> QED BY <1>1, <2>1, <2>2, <2>3 DEF new, m
<1>2. CASE pass = "simplify"
  <2>1. new = SimplifiedAt(h, a, kids) /\ m = Loss("simplify", h, a, kids, l)
    BY <1>2 DEF RewrittenAt
  <2>2. LET g == SimplifiedAt(h, a, kids).exprs
            b == SimplifiedAt(h, a, kids).at
        IN  /\ Outcome(h, SimplifiedAt(h, a, kids)) /\ LeftSettled("simplify", g, b, Q)
            /\ kids = Operands(h[a].node) /\ Settled("simplify", h, a) => b = a
    BY <1>2, SimplifiedFacts
  <2>3. LET g == SimplifiedAt(h, a, kids).exprs
            b == SimplifiedAt(h, a, kids).at
        IN  m \in Losses /\ Kept(h[a].value, g[b].value, m)
    BY <1>2, <2>1, SimplifiedKept
  <2> HIDE DEF new, m
  <2> QED BY <1>2, <2>1, <2>2, <2>3 DEF new, m
<1> QED
  BY <1>1, <1>2

-----------------------------------------------------------------------------
\* What calls have returned, as the nodes become more.

\* A node that a pass would leave stays so as the heap grows.
LEMMA SettledStays ==
    ASSUME NEW T, NEW h, Heap(T, h), NEW g, Extends(h, g), NEW a \in 1..Len(h), NEW pass
    PROVE  g[a] = h[a] /\ (Settled(pass, g, a) <=> Settled(pass, h, a))
<1> DEFINE n   == h[a].node
           ops == Operands(n)
<1>1. g[a] = h[a]
  BY DEF Extends
<1>2. IsSeq(ops) /\ \A i \in 1..Len(ops) : ops[i] \in 1..Len(h)
  BY HeapFacts
<1>3. \A i \in 1..Len(ops) : g[ops[i]] = h[ops[i]]
  BY <1>2 DEF Extends
<1> HIDE DEF ops
<1>4. /\ \A i \in 1..Len(ops) : g[ops[i]].constant = h[ops[i]].constant
      /\ \A i \in 1..Len(ops) : g[ops[i]].node = h[ops[i]].node
  BY <1>3
<1>5. IsSeq(ops) /\ Len(ops) = Len(ops)
  BY <1>2
<1>6. Constants(g, ops) = Constants(h, ops)
  BY <1>4, <1>5, ConstantsSame
<1>7. Nodes(g, ops) = Nodes(h, ops)
  BY <1>4, <1>5, NodesSame
<1> QED
  BY <1>1, <1>6, <1>7 DEF Settled, ops

\* What is known of returned calls stays so as the heap grows.
LEMMA PairedStays ==
    ASSUME NEW T, NEW h, Heap(T, h), NEW g, Heap(T, g), Extends(h, g), NEW pass, NEW P,
           Paired(pass, h, P)
    PROVE  Paired(pass, g, P)
<1>0. Len(h) \in Nat /\ Len(g) \in Nat /\ Len(h) <= Len(g)
  BY SeqFacts DEF Heap, Extends
<1>1. \A c \in P : c = <<c[1], c[2]>> /\ c[1] \in 1..Len(h) /\ c[2] \in 1..Len(h)
  BY DEF Paired
<1>2. \A a \in 1..Len(h) : a \in 1..Len(g) /\ g[a] = h[a] /\ (Settled(pass, g, a) <=> Settled(pass, h, a))
  BY <1>0, SettledStays
<1>3. \A c \in P : c = <<c[1], c[2]>> /\ c[1] \in 1..Len(g) /\ c[2] \in 1..Len(g)
  BY <1>1, <1>2
<1>4. \A c \in P : /\ Settled(pass, g, c[2])
                   /\ \A i \in 1..Len(Operands(g[c[2]].node)) :
                          \E d \in P : d[2] = Operands(g[c[2]].node)[i]
  BY <1>1, <1>2 DEF Paired
<1>5. \A c \in P : \/ c[2] = c[1] \/ ~Settled(pass, g, c[1])
                   \/ \E i \in 1..Len(Operands(g[c[1]].node)) :
                          \E d \in P : d[1] = Operands(g[c[1]].node)[i] /\ d[2] # d[1]
  <2> TAKE c \in P
  <2> DEFINE a == c[1]
  <2>1. \/ c[2] = a \/ ~Settled(pass, h, a)
        \/ \E i \in 1..Len(Operands(h[a].node)) :
              \E d \in P : d[1] = Operands(h[a].node)[i] /\ d[2] # d[1]
    BY DEF Paired
  <2>2. g[a] = h[a] /\ (Settled(pass, g, a) <=> Settled(pass, h, a))
    BY <1>1, <1>2
  <2> HIDE DEF a
  <2>3. \/ c[2] = a \/ ~Settled(pass, g, a)
        \/ \E i \in 1..Len(Operands(g[a].node)) :
              \E d \in P : d[1] = Operands(g[a].node)[i] /\ d[2] # d[1]
    BY <2>1, <2>2
  <2> QED BY <2>3 DEF a
<1>6. \A c, d \in P : d[1] = c[2] => d[2] = d[1]
  BY DEF Paired
<1> QED
  BY <1>3, <1>4, <1>5, <1>6 DEF Paired

\* The operands of what calls have returned were returned too.
LEMMA PairedClosed ==
    ASSUME NEW T, NEW h, Heap(T, h), NEW pass, NEW P, Paired(pass, h, P)
    PROVE  Closed(pass, h, {c[2] : c \in P})
<1> DEFINE Q == {c[2] : c \in P}
<1>1. ASSUME NEW q \in Q
      PROVE  /\ q \in 1..Len(h) /\ Settled(pass, h, q)
             /\ \A i \in 1..Len(Operands(h[q].node)) : Operands(h[q].node)[i] \in Q
  <2>1. PICK c \in P : q = c[2]
    BY <1>1
  <2>2. \A i \in 1..Len(Operands(h[q].node)) : \E d \in P : d[2] = Operands(h[q].node)[i]
    BY <2>1 DEF Paired
  <2>3. \A i \in 1..Len(Operands(h[q].node)) : Operands(h[q].node)[i] \in Q
    BY <2>2
  <2> QED BY <2>1, <2>3 DEF Paired
<1> QED
  BY <1>1 DEF Closed

\* A call returns, and the pointers it returns stay those that calls on them return.
LEMMA PairedAdded ==
    ASSUME NEW T, NEW h, Heap(T, h), NEW g, Heap(T, g), Extends(h, g), NEW pass, NEW P,
           Paired(pass, h, P), NEW a \in 1..Len(h), NEW kids, Kids(h, a, kids),
           \A i \in 1..Len(kids) : <<Operands(h[a].node)[i], kids[i]>> \in P,
           NEW r \in 1..Len(g), LeftSettled(pass, g, r, {c[2] : c \in P}),
           kids = Operands(h[a].node) /\ Settled(pass, h, a) => r = a
    PROVE  Paired(pass, g, P \cup {<<a, r>>})
<1> DEFINE N   == P \cup {<<a, r>>}
           ops == Operands(h[a].node)
           p   == <<a, r>>
<1>0. p = <<p[1], p[2]>> /\ p[1] = a /\ p[2] = r /\ p \in N /\ \A c \in N : c \in P \/ c = p
  OBVIOUS
<1>1. Paired(pass, g, P)
  BY PairedStays
<1>2. /\ a \in 1..Len(g) /\ g[a] = h[a] /\ (Settled(pass, g, a) <=> Settled(pass, h, a))
      /\ IsSeq(ops) /\ IsSeq(kids) /\ Len(kids) = Len(ops)
  <2>1. Len(h) \in Nat /\ Len(g) \in Nat /\ Len(h) <= Len(g)
    BY SeqFacts DEF Heap, Extends
  <2> QED BY <2>1, SettledStays, HeapFacts DEF Kids, Fits
<1>3. \A i \in 1..Len(kids) : \E e \in P : e[1] = ops[i] /\ e[2] = kids[i]
  <2> TAKE i \in 1..Len(kids)
  <2>1. <<ops[i], kids[i]>> \in P
    OBVIOUS
  <2>2. <<ops[i], kids[i]>>[1] = ops[i] /\ <<ops[i], kids[i]>>[2] = kids[i]
    OBVIOUS
  <2> QED BY <2>1, <2>2
<1>4. kids = ops \/ \E i \in 1..Len(kids) : kids[i] # ops[i]
  <2> HIDE DEF ops
  <2> QED BY <1>2, SameSeq
<1>5. /\ Settled(pass, g, r)
      /\ \A i \in 1..Len(Operands(g[r].node)) : \E d \in P : d[2] = Operands(g[r].node)[i]
  BY DEF LeftSettled
<1> HIDE DEF N, p, ops
<1>6. \A c \in N : c = <<c[1], c[2]>> /\ c[1] \in 1..Len(g) /\ c[2] \in 1..Len(g)
  <2>1. \A c \in P : c = <<c[1], c[2]>> /\ c[1] \in 1..Len(g) /\ c[2] \in 1..Len(g)
    BY <1>1 DEF Paired
  <2> QED BY <1>0, <1>2, <2>1
<1>7. \A c \in N : /\ Settled(pass, g, c[2])
                   /\ \A i \in 1..Len(Operands(g[c[2]].node)) :
                          \E d \in N : d[2] = Operands(g[c[2]].node)[i]
  <2>1. \A c \in P : /\ Settled(pass, g, c[2])
                     /\ \A i \in 1..Len(Operands(g[c[2]].node)) :
                          \E d \in P : d[2] = Operands(g[c[2]].node)[i]
    BY <1>1 DEF Paired
  <2>2. \A d \in P : d \in N
    BY DEF N
  <2> QED BY <1>0, <1>5, <2>1, <2>2
<1>8. \A c \in N : \/ c[2] = c[1] \/ ~Settled(pass, g, c[1])
                   \/ \E i \in 1..Len(Operands(g[c[1]].node)) :
                          \E d \in N : d[1] = Operands(g[c[1]].node)[i] /\ d[2] # d[1]
  <2> TAKE c \in N
  <2>1. CASE c \in P
    <3>1. \/ c[2] = c[1] \/ ~Settled(pass, g, c[1])
          \/ \E i \in 1..Len(Operands(g[c[1]].node)) :
                          \E d \in P : d[1] = Operands(g[c[1]].node)[i] /\ d[2] # d[1]
      BY <1>1, <2>1 DEF Paired
    <3> QED BY <3>1 DEF N
  <2>2. CASE c = p
    <3>1. CASE kids = ops
      BY <1>0, <1>2, <2>2, <3>1 DEF ops
    <3>2. CASE kids # ops
      <4>1. PICK i \in 1..Len(kids) : kids[i] # ops[i]
        BY <1>4, <3>2
      <4>2. PICK e \in P : e[1] = ops[i] /\ e[2] = kids[i]
        BY <1>3
      <4>3. Operands(g[c[1]].node) = ops
        BY <1>0, <1>2, <2>2 DEF ops
      <4> QED BY <1>2, <4>1, <4>2, <4>3 DEF N
    <3> QED BY <3>1, <3>2
  <2> QED BY <1>0, <2>1, <2>2
<1>9. ASSUME NEW c \in N, NEW d \in N, d[1] = c[2] PROVE d[2] = d[1]
  <2>1. CASE c \in P /\ d \in P
    BY <1>1, <1>9, <2>1 DEF Paired
  <2>2. CASE c \in P /\ d = p
    <3>1. c[2] = a
      BY <1>0, <1>9, <2>2
    <3>2. Settled(pass, h, a) /\ \A i \in 1..Len(ops) : \E e \in P : e[2] = ops[i]
      BY <2>2, <3>1 DEF Paired, ops
    <3>3. \A i \in 1..Len(kids) : kids[i] = ops[i]
      <4> TAKE i \in 1..Len(kids)
      <4>1. PICK e \in P : e[2] = ops[i]
        BY <1>2, <3>2
      <4>2. PICK f \in P : f[1] = ops[i] /\ f[2] = kids[i]
        BY <1>3
      <4> QED BY <4>1, <4>2 DEF Paired
    <3>4. kids = ops
      BY <1>4, <3>3
    <3> QED BY <1>0, <2>2, <3>2, <3>4 DEF ops
  <2>3. CASE c = p /\ d \in P
    <3>1. d[1] = r
      BY <1>0, <1>9, <2>3
    <3>2. \A i \in 1..Len(Operands(g[r].node)) : \A e \in P :
            e[1] = Operands(g[r].node)[i] => e[2] = e[1]
      BY <1>1, <1>5 DEF Paired
    <3>3. \/ d[2] = d[1] \/ ~Settled(pass, g, d[1])
          \/ \E i \in 1..Len(Operands(g[d[1]].node)) :
                  \E e \in P : e[1] = Operands(g[d[1]].node)[i] /\ e[2] # e[1]
      BY <1>1, <2>3 DEF Paired
    <3> QED BY <1>5, <3>1, <3>2, <3>3
  <2>4. CASE c = p /\ d = p
    BY <1>0, <1>9, <2>4
  <2> QED BY <1>0, <2>1, <2>2, <2>3, <2>4
<1>10. Paired(pass, g, N)
  BY <1>6, <1>7, <1>8, <1>9 DEF Paired
<1> QED
  BY <1>10 DEF N, p

-----------------------------------------------------------------------------
\* The calls under way.

\* A sequence without its last element.
LEMMA Fronted ==
    ASSUME NEW s, IsSeq(s), s # <<>>
    PROVE  /\ IsSeq(Front(s)) /\ Len(Front(s)) = Len(s) - 1 /\ Len(s) - 1 \in Nat
           /\ \A x \in 1..Len(s) - 1 : Front(s)[x] = s[x]
           /\ Last(s) = s[Len(s)]
<1> DEFINE n == Len(s) - 1
           t == SubSeq(s, 1, n)
           S == {s[x] : x \in DOMAIN s}
<1>1. s \in Seq(S) /\ Len(s) \in Nat /\ n \in Nat
  <2>1. Len(s) # 0 /\ Len(s) \in Nat
    BY SeqFacts
  <2> QED BY <2>1 DEF IsSeq
<1>2. Front(s) = t /\ Last(s) = s[Len(s)]
  BY DEF Front, Last
<1> HIDE DEF S
<1>3. t = [x \in 1..n |-> s[x]]
  BY <1>1
<1> HIDE DEF t
<1>4. \A x \in 1..n : t[x] = s[x]
  BY <1>3
<1>5. t = [x \in 1..n |-> t[x]]
  BY <1>3, <1>4
<1> HIDE DEF n
<1>6. IsSeq(t) /\ Len(t) = n
  BY <1>1, <1>5, MadeSeq
<1> QED
  BY <1>1, <1>2, <1>4, <1>6 DEF n

\* A sequence with another element at one place.
LEMMA Replaced ==
    ASSUME NEW s, IsSeq(s), NEW n \in 1..Len(s), NEW e
    PROVE  /\ IsSeq(Put(s, n, e)) /\ Len(Put(s, n, e)) = Len(s) /\ Put(s, n, e)[n] = e
           /\ \A x \in 1..Len(s) : x # n => Put(s, n, e)[x] = s[x]
<1> DEFINE t == Put(s, n, e)
<1>1. Len(s) \in Nat /\ s = [x \in 1..Len(s) |-> s[x]]
  BY SeqFacts
<1>2. t[n] = e /\ (\A x \in 1..Len(s) : x # n => t[x] = s[x]) /\ t = [x \in 1..Len(s) |-> t[x]]
  BY <1>1 DEF Put
<1> HIDE DEF t
<1>3. IsSeq(t) /\ Len(t) = Len(s)
  BY <1>1, <1>2, MadeSeq
<1> QED
  BY <1>2, <1>3 DEF t

\* A call under way stays one while other calls return.
LEMMA UnderWayStays ==
    ASSUME NEW T, NEW h, Heap(T, h), NEW g, Heap(T, g), Extends(h, g),
           NEW P, \A e \in P : e[2] \in 1..Len(h), NEW N, P \subseteq N,
           NEW c, UnderWay(h, P, c)
    PROVE  UnderWay(g, N, c) /\ g[c.at] = h[c.at]
<1> DEFINE a   == c.at
           ops == Operands(h[a].node)
           s   == c.kids
<1>0. /\ c = [at |-> c.at, kids |-> c.kids, lost |-> c.lost] /\ a \in 1..Len(h) /\ IsSeq(s)
      /\ c.lost \in Losses /\ Len(s) <= Len(ops)
      /\ \A j \in 1..Len(s) : <<ops[j], s[j]>> \in P /\ Kept(h[ops[j]].value, h[s[j]].value, c.lost)
  BY DEF UnderWay
<1>1. Len(h) \in Nat /\ Len(g) \in Nat /\ Len(h) <= Len(g) /\ \A x \in 1..Len(h) : g[x] = h[x]
  BY SeqFacts DEF Heap, Extends
<1>2. a \in 1..Len(g) /\ g[a] = h[a]
  BY <1>0, <1>1
<1>3. IsSeq(ops) /\ \A i \in 1..Len(ops) : ops[i] \in 1..Len(h)
  BY <1>0, HeapFacts
<1> HIDE DEF ops, s
<1>4. ASSUME NEW j \in 1..Len(s)
      PROVE  <<ops[j], s[j]>> \in N /\ Kept(g[ops[j]].value, g[s[j]].value, c.lost)
  <2>1. <<ops[j], s[j]>> \in P /\ Kept(h[ops[j]].value, h[s[j]].value, c.lost)
    BY <1>0
  <2>2. <<ops[j], s[j]>>[2] = s[j]
    OBVIOUS
  <2>3. s[j] \in 1..Len(h)
    BY <2>1, <2>2
  <2>4. Len(s) \in Nat /\ Len(ops) \in Nat
    BY <1>0, <1>3, SeqFacts
  <2>5. j \in 1..Len(ops)
    BY <1>0, <2>4
  <2>6. g[ops[j]] = h[ops[j]] /\ g[s[j]] = h[s[j]]
    BY <1>1, <1>3, <2>3, <2>5
  <2> QED BY <2>1, <2>6
<1>5. Operands(g[a].node) = ops
  BY <1>2 DEF ops
<1> QED
  BY <1>0, <1>2, <1>4, <1>5 DEF UnderWay, s

\* So do all calls under way.
LEMMA CalledStays ==
    ASSUME NEW T, NEW h, Heap(T, h), NEW g, Heap(T, g), Extends(h, g),
           NEW P, \A e \in P : e[2] \in 1..Len(h), NEW N, P \subseteq N,
           NEW cs, Called(h, P, cs)
    PROVE  Called(g, N, cs)
<1>1. IsSeq(cs) /\ Len(cs) \in Nat
  BY SeqFacts DEF Called
<1>2. \A x \in 1..Len(cs) : UnderWay(g, N, cs[x]) /\ g[cs[x].at] = h[cs[x].at]
  <2> TAKE x \in 1..Len(cs)
  <2> DEFINE c == cs[x]
  <2>1. UnderWay(h, P, c)
    BY DEF Called
  <2> HIDE DEF c
  <2>2. UnderWay(g, N, c) /\ g[c.at] = h[c.at]
    BY <2>1, UnderWayStays
  <2> QED BY <2>2 DEF c
<1>3. \A x \in 1..Len(cs) - 1 : NextIn(g, cs[x], cs[x + 1])
  <2> TAKE x \in 1..Len(cs) - 1
  <2>1. x \in 1..Len(cs)
    BY <1>1
  <2>2. NextIn(h, cs[x], cs[x + 1]) /\ g[cs[x].at] = h[cs[x].at]
    BY <1>2, <2>1 DEF Called
  <2> QED BY <2>2 DEF NextIn
<1> QED
  BY <1>1, <1>2, <1>3 DEF Called

\* A call just made is under way.
LEMMA StartedUnderWay ==
    ASSUME NEW T, NEW h, Heap(T, h), NEW P, NEW a \in 1..Len(h)
    PROVE  UnderWay(h, P, Started(a)) /\ Started(a).at = a
<1> DEFINE c == Started(a)
<1>1. /\ c = [at |-> c.at, kids |-> c.kids, lost |-> c.lost] /\ c.at = a
      /\ c.kids = <<>> /\ c.lost = "nothing"
  BY DEF Started
<1> HIDE DEF c
<1>2. IsSeq(c.kids) /\ Len(c.kids) = 0 /\ c.lost \in Losses
  BY <1>1, PairFacts DEF Losses
<1>3. Len(Operands(h[a].node)) \in Nat
  BY HeapFacts, SeqFacts
<1>4. UnderWay(h, P, c)
  BY <1>1, <1>2, <1>3 DEF UnderWay
<1> QED
  BY <1>1, <1>4 DEF c

\* One call under way.
LEMMA CalledOne ==
    ASSUME NEW h, NEW P, NEW c, UnderWay(h, P, c)
    PROVE  Called(h, P, <<c>>)
<1>1. IsSeq(<<c>>) /\ Len(<<c>>) = 1 /\ <<c>>[1] = c
  BY PairFacts
<1> QED
  BY <1>1 DEF Called

\* A call made by the innermost one, on its next operand.
LEMMA CalledMore ==
    ASSUME NEW h, NEW P, NEW cs, Called(h, P, cs), cs # <<>>,
           NEW d, UnderWay(h, P, d), NextIn(h, Last(cs), d)
    PROVE  Called(h, P, Append(cs, d)) /\ Append(cs, d) # <<>> /\ Append(cs, d)[1] = cs[1]
<1> DEFINE n == Len(cs)
           t == Append(cs, d)
<1>1. IsSeq(cs) /\ n \in Nat /\ n # 0 /\ Last(cs) = cs[n]
  BY SeqFacts, Fronted DEF Called
<1>2. IsSeq(t) /\ Len(t) = n + 1 /\ (\A x \in 1..n : t[x] = cs[x]) /\ t[n + 1] = d
  BY <1>1, Appended
<1> HIDE DEF t
<1>3. \A x \in 1..Len(t) : UnderWay(h, P, t[x])
  BY <1>1, <1>2 DEF Called
<1>4. ASSUME NEW x \in 1..Len(t) - 1 PROVE NextIn(h, t[x], t[x + 1])
  <2>1. CASE x = n
    BY <1>1, <1>2, <2>1
  <2>2. CASE x # n
    <3>1. x \in 1..n - 1 /\ x \in 1..n /\ x + 1 \in 1..n
      BY <1>1, <1>2, <2>2
    <3>2. NextIn(h, cs[x], cs[x + 1])
      BY <3>1 DEF Called
    <3> QED BY <1>2, <3>1, <3>2
  <2> QED BY <2>1, <2>2
<1>5. t # <<>> /\ t[1] = cs[1]
  BY <1>1, <1>2, PairFacts
<1> QED
  BY <1>2, <1>3, <1>4, <1>5 DEF Called, t

\* Without the innermost call, the others are under way, and its caller waits for it.
LEMMA CalledFewer ==
    ASSUME NEW h, NEW P, NEW cs, Called(h, P, cs), cs # <<>>
    PROVE  LET below == Front(cs)
               n     == Len(below)
           IN  /\ UnderWay(h, P, Last(cs)) /\ Called(h, P, below)
               /\ below = <<>> => cs[1] = Last(cs)
               /\ below # <<>> => /\ n \in 1..n /\ below[1] = cs[1]
                                  /\ UnderWay(h, P, below[n]) /\ NextIn(h, below[n], Last(cs))
<1> DEFINE below == Front(cs)
           n     == Len(below)
<1>1. /\ IsSeq(cs) /\ IsSeq(below) /\ n = Len(cs) - 1 /\ n \in Nat /\ Last(cs) = cs[Len(cs)]
      /\ \A x \in 1..n : below[x] = cs[x]
  BY Fronted DEF Called
<1>2. Len(cs) = n + 1 /\ (below = <<>> <=> n = 0)
  <2>1. Len(cs) \in Nat
    BY <1>1, SeqFacts
  <2> HIDE DEF below
  <2> QED BY <1>1, <2>1, SeqFacts
<1> HIDE DEF below, n
<1>3. UnderWay(h, P, Last(cs))
  BY <1>1, <1>2 DEF Called
<1>4. Called(h, P, below)
  <2>1. \A x \in 1..n : UnderWay(h, P, below[x])
    BY <1>1, <1>2 DEF Called
  <2>2. \A x \in 1..n - 1 : NextIn(h, below[x], below[x + 1])
    <3> TAKE x \in 1..n - 1
    <3>1. x \in 1..n /\ x + 1 \in 1..n /\ x \in 1..Len(cs) - 1
      BY <1>1, <1>2
    <3>2. NextIn(h, cs[x], cs[x + 1])
      BY <3>1 DEF Called
    <3> QED BY <1>1, <3>1, <3>2
  <2> QED BY <1>1, <2>1, <2>2 DEF Called, n
<1>5. n # 0 => n \in 1..n /\ 1 \in 1..n /\ n \in 1..Len(cs) - 1
  BY <1>1, <1>2
<1>6. n # 0 => /\ n \in 1..n /\ below[1] = cs[1]
               /\ UnderWay(h, P, below[n]) /\ NextIn(h, below[n], Last(cs))
  <2> SUFFICES ASSUME n # 0
               PROVE  /\ n \in 1..n /\ below[1] = cs[1]
                      /\ UnderWay(h, P, below[n]) /\ NextIn(h, below[n], Last(cs))
    OBVIOUS
  <2>1. n \in 1..n /\ 1 \in 1..n /\ n \in 1..Len(cs) - 1
    BY <1>5
  <2>2. NextIn(h, cs[n], cs[n + 1])
    BY <2>1 DEF Called
  <2> QED BY <1>1, <1>2, <1>4, <2>1, <2>2 DEF Called, n
<1> QED
  BY <1>1, <1>2, <1>3, <1>4, <1>6 DEF below, n

\* A call that has what one more call on an operand returned.
Grown(c, r, l) == [at |-> c.at, kids |-> Append(c.kids, r), lost |-> Worse(c.lost, l)]

\* A caller goes on with what its call has returned and lost.
LEMMA UnderWayGrown ==
    ASSUME NEW h, NEW P, NEW c, UnderWay(h, P, c), NEW d, NextIn(h, c, d),
           NEW r, <<d.at, r>> \in P, NEW l \in Losses, Kept(h[d.at].value, h[r].value, l)
    PROVE  UnderWay(h, P, Grown(c, r, l))
<1> DEFINE e   == Grown(c, r, l)
           s   == c.kids
           t   == Append(s, r)
           ops == Operands(h[c.at].node)
<1>0. /\ c.at \in 1..Len(h) /\ IsSeq(s) /\ c.lost \in Losses
      /\ \A j \in 1..Len(s) : <<ops[j], s[j]>> \in P /\ Kept(h[ops[j]].value, h[s[j]].value, c.lost)
  BY DEF UnderWay
<1>1. Len(s) < Len(ops) /\ d.at = ops[Len(s) + 1]
  BY DEF NextIn
<1>2. /\ e = [at |-> e.at, kids |-> e.kids, lost |-> e.lost]
      /\ e.at = c.at /\ e.kids = t /\ e.lost = Worse(c.lost, l)
  BY DEF Grown
<1> HIDE DEF e, s, ops
<1>3. IsSeq(t) /\ Len(t) = Len(s) + 1 /\ (\A j \in 1..Len(s) : t[j] = s[j]) /\ t[Len(s) + 1] = r
  BY <1>0, Appended
<1>4. Len(s) \in Nat
  BY <1>0, SeqFacts
<1> HIDE DEF t
<1>5. ASSUME NEW j \in 1..Len(t)
      PROVE  <<ops[j], t[j]>> \in P /\ Kept(h[ops[j]].value, h[t[j]].value, Worse(c.lost, l))
  <2>1. CASE j = Len(s) + 1
    <3>1. ops[j] = d.at /\ t[j] = r
      BY <1>1, <1>3, <2>1
    <3>2. Kept(h[d.at].value, h[r].value, Worse(c.lost, l))
      BY <1>0, KeptMonotone
    <3> QED BY <3>1, <3>2
  <2>2. CASE j \in 1..Len(s)
    <3>1. <<ops[j], s[j]>> \in P /\ Kept(h[ops[j]].value, h[s[j]].value, c.lost) /\ t[j] = s[j]
      BY <1>0, <1>3, <2>2
    <3>2. Kept(h[ops[j]].value, h[s[j]].value, Worse(c.lost, l))
      BY <1>0, <3>1, KeptMonotone
    <3> QED BY <3>1, <3>2
  <2> QED BY <1>3, <1>4, <2>1, <2>2
<1>6. Len(t) <= Len(ops)
  BY <1>1, <1>3, <1>4
<1>7. Worse(c.lost, l) \in Losses
  BY <1>0, WorseFacts
<1>8. UnderWay(h, P, e)
  BY <1>0, <1>2, <1>3, <1>5, <1>6, <1>7, SMTT(30) DEF UnderWay, ops
<1> QED
  BY <1>8 DEF e

\* The calls under way, when the innermost caller has gone on.
LEMMA CalledGrown ==
    ASSUME NEW h, NEW P, NEW cs, Called(h, P, cs), NEW n \in 1..Len(cs), n = Len(cs),
           NEW e, UnderWay(h, P, e), e.at = cs[n].at
    PROVE  LET t == Put(cs, n, e) IN Called(h, P, t) /\ t # <<>> /\ t[1].at = cs[1].at
<1> DEFINE t == Put(cs, n, e)
<1>0. IsSeq(cs) /\ n \in Nat /\ n # 0
  BY SeqFacts DEF Called
<1>1. IsSeq(t) /\ Len(t) = n /\ t[n] = e /\ \A x \in 1..n : x # n => t[x] = cs[x]
  BY <1>0, Replaced
<1> HIDE DEF t
<1>2. \A x \in 1..n : UnderWay(h, P, t[x])
  BY <1>1 DEF Called
<1>3. \A x \in 1..n : t[x].at = cs[x].at
  BY <1>1
<1>4. ASSUME NEW x \in 1..n - 1 PROVE NextIn(h, t[x], t[x + 1])
  <2>1. x \in 1..n /\ x + 1 \in 1..n /\ x # n
    BY <1>0
  <2>2. NextIn(h, cs[x], cs[x + 1]) /\ t[x] = cs[x] /\ t[x + 1].at = cs[x + 1].at
    BY <1>1, <1>3, <2>1 DEF Called
  <2> QED BY <2>2 DEF NextIn
<1>5. t # <<>> /\ 1 \in 1..n
  BY <1>0, <1>1, PairFacts
<1> QED
  BY <1>1, <1>2, <1>3, <1>4, <1>5 DEF Called, t

GrownIn(s, n, r, l) == [s EXCEPT ![n].kids = Append(@, r), ![n].lost = Worse(@, l)]

\* The caller as ReturnFromCall writes it.
LEMMA GrownAt ==
    ASSUME NEW s, IsSeq(s), NEW n \in 1..Len(s), NEW r, NEW l,
           s[n] = [at |-> s[n].at, kids |-> s[n].kids, lost |-> s[n].lost]
    PROVE  GrownIn(s, n, r, l) = Put(s, n, Grown(s[n], r, l))
<1> DEFINE S == {"at", "kids", "lost"}
           c == s[n]
           k == Append(c.kids, r)
           w == Worse(c.lost, l)
           d == Put(c, "kids", k)
           e == Put(d, "lost", w)
<1>1. n \in DOMAIN s
  BY SeqFacts
<1>2. c = [f \in S |-> c[f]]
  <2> DEFINE a == c.at
             x == c.kids
             y == c.lost
             z == [at |-> a, kids |-> x, lost |-> y]
  <2>1. c = z
    OBVIOUS
  <2> HIDE DEF a, x, y
  <2>2. z = [f \in S |-> z[f]]
    OBVIOUS
  <2> HIDE DEF z, c, S
  <2> QED BY <2>1, <2>2
<1> HIDE DEF c, k, w
<1>3. d = [f \in S |-> d[f]] /\ d.kids = k /\ d.at = c.at
  BY <1>2 DEF Put
<1> HIDE DEF d
<1>4. e = [f \in S |-> e[f]] /\ e.lost = w /\ e.kids = k /\ e.at = c.at
  BY <1>3 DEF Put
<1> HIDE DEF e
<1>5. e = [at |-> e.at, kids |-> e.kids, lost |-> e.lost]
  BY <1>4
<1>6. e = Grown(c, r, l)
  BY <1>4, <1>5 DEF Grown, k, w
<1>7. GrownIn(s, n, r, l) = Put(s, n, e)
  BY <1>1 DEF GrownIn, Put, c, d, e, k, w
<1> QED
  BY <1>6, <1>7 DEF c

-----------------------------------------------------------------------------
\* The steps.

\* The history of both passes stays true as the heap grows.
LEMMA RecordedStays ==
    ASSUME NEW T, NEW h, Heap(T, h), NEW g, Heap(T, g), Extends(h, g), NEW R, Recorded(h, R)
    PROVE  Recorded(g, R)
<1>1. Paired("fold", g, R.fold) /\ Paired("simplify", g, R.simplify)
  BY PairedStays DEF Recorded
<1>2. \A c \in R.fold : Alike(g[c[1]], g[c[2]])
  <2> TAKE c \in R.fold
  <2>1. c[1] \in 1..Len(h) /\ c[2] \in 1..Len(h)
    BY DEF Recorded, Paired
  <2>2. g[c[1]] = h[c[1]] /\ g[c[2]] = h[c[2]]
    BY <2>1 DEF Extends
  <2> QED BY <2>2 DEF Recorded
<1> QED
  BY <1>1, <1>2 DEF Recorded

\* No call is under way.
LEMMA CalledNone ==
    ASSUME NEW h, NEW P
    PROVE  Called(h, P, <<>>)
<1>1. IsSeq(<<>>) /\ Len(<<>>) = 0
  BY PairFacts
<1> QED
  BY <1>1 DEF Called

\* Values that are kept stay kept, as the nodes become more.
LEMMA KeptStays ==
    ASSUME NEW h, NEW g, Extends(h, g), NEW a \in 1..Len(h), NEW b \in 1..Len(h), NEW l,
           Kept(h[a].value, h[b].value, l)
    PROVE  Kept(g[a].value, g[b].value, l)
<1>1. g[a] = h[a] /\ g[b] = h[b]
  BY DEF Extends
<1> QED
  BY <1>1

\* The inductive invariant holds before anything is built ...
LEMMA InitStep ==
    ASSUME Init
    PROVE  IInv
<1> DEFINE T == {Leaves[i] : i \in DOMAIN Leaves}
           n == Len(Leaves)
<1>1. n \in Nat /\ DOMAIN Leaves = 1..n
  <2>1. Leaves \in Seq(T)
    BY NodesAssumption
  <2> HIDE DEF T
  <2> QED BY <2>1
<1>2. exprs = [i \in 1..n |-> Noted(<<>>, Leaves[i])]
  BY <1>1 DEF Init
<1> HIDE DEF n
<1>3. IsSeq(exprs) /\ Len(exprs) = n /\ \A i \in 1..n : exprs[i] = Entry(tab, <<>>, Leaves[i])
  <2>1. exprs = [i \in 1..n |-> exprs[i]] /\ \A i \in 1..n : exprs[i] = Noted(<<>>, Leaves[i])
    BY <1>2
  <2> QED BY <1>1, <2>1, MadeSeq, NotedEntry
<1>4. Heap(tab, <<>>)
  <2>1. IsSeq(<<>>) /\ Len(<<>>) = 0
    BY PairFacts
  <2> QED BY <2>1 DEF Heap
<1>5. ASSUME NEW i \in 1..n
      PROVE  /\ IsExpr(exprs[i].node) /\ Below(exprs[i].node, i - 1)
             /\ exprs[i] = Entry(tab, exprs, exprs[i].node) /\ Sound(exprs[i])
  <2> DEFINE e == Leaves[i]
  <2>1. IsExpr(e) /\ e.k \in {"col", "lit"}
    BY <1>1, NodesAssumption
  <2> HIDE DEF e
  <2>2. Len(Operands(e)) = 0
    BY <2>1, OperandsFacts
  <2>3. Below(e, i - 1) /\ Below(e, Len(<<>>))
    BY <2>2 DEF Below
  <2>4. Entry(tab, <<>>, e) = Entry(tab, exprs, e)
    BY <2>1, <2>2, EntrySame
  <2>5. Sound(Entry(tab, <<>>, e))
    BY <1>4, <2>1, <2>3, EntrySound DEF Init
  <2>6. exprs[i] = Entry(tab, <<>>, e) /\ exprs[i].node = e
    <3>1. exprs[i] = Entry(tab, <<>>, e)
      BY <1>3 DEF e
    <3> QED BY <3>1, EntryFacts
  <2> QED BY <2>1, <2>3, <2>4, <2>5, <2>6
<1>6. Heap(tab, exprs)
  BY <1>3, <1>5 DEF Heap
<1>7. Progress
  BY MaxAssumption DEF Init, Progress, Losses
<1>8. Recorded(exprs, results)
  <2>1. \A pass : Paired(pass, exprs, {})
    BY DEF Paired
  <2>2. results.fold = {} /\ results.simplify = {}
    BY DEF Init
  <2>3. results = [fold |-> results.fold, simplify |-> results.simplify]
    BY DEF Init
  <2> QED BY <2>1, <2>2, <2>3 DEF Recorded
<1>9. Called(exprs, Returned(results, pc), calls)
  BY CalledNone DEF Init
<1> QED
  BY <1>6, <1>7, <1>8, <1>9 DEF IInv, Init

\* ... and each step keeps it: an expression built of others,
LEMMA BuildStep ==
    ASSUME IInv, Build
    PROVE  IInv'
<1>1. PICK e \in Operators : \E new \in [DOMAIN Operands(e) -> DOMAIN exprs] :
                                exprs' = Made(exprs, WithOperands(e, new)).exprs
  BY DEF Build
<1>2. PICK new \in [DOMAIN Operands(e) -> DOMAIN exprs] :
              exprs' = Made(exprs, WithOperands(e, new)).exprs
  BY <1>1
<1> DEFINE m == WithOperands(e, new)
           h == exprs
           g == Made(h, m).exprs
<1>3. IsExpr(e) /\ IsSeq(Operands(e))
  BY NodesAssumption, OperandsFacts
<1>4. DOMAIN Operands(e) = 1..Len(Operands(e)) /\ Len(Operands(e)) \in Nat /\ DOMAIN h = 1..Len(h)
  BY <1>3, SeqFacts DEF IInv, Heap
<1>5. IsSeq(new) /\ Len(new) = Len(Operands(e)) /\ \A i \in 1..Len(new) : new[i] \in 1..Len(h)
  <2>1. /\ new = [i \in 1..Len(Operands(e)) |-> new[i]]
        /\ \A i \in 1..Len(Operands(e)) : new[i] \in 1..Len(h)
    BY <1>2, <1>4
  <2>2. IsSeq(new) /\ Len(new) = Len(Operands(e))
    BY <1>4, <2>1, MadeSeq
  <2> QED BY <2>1, <2>2
<1>6. IsExpr(m) /\ Operands(m) = new
  BY <1>3, <1>5, WithOperandsFacts DEF Fits
<1> HIDE DEF m
<1>7. Below(m, Len(h))
  BY <1>5, <1>6 DEF Below
<1>8. Heap(tab, g) /\ Extends(h, g)
  BY <1>6, <1>7, MadeFacts DEF IInv
<1>9. exprs' = g
  BY <1>2 DEF m
<1> HIDE DEF g
<1>10. UNCHANGED <<tab, pc, root, expr, iter, calls, results, lost>> /\ pc = "build"
  BY DEF Build
<1>11. Progress'
  BY <1>10 DEF IInv, Progress
<1>12. Recorded(exprs, results)'
  <2>1. Recorded(g, results)
    BY <1>8, RecordedStays DEF IInv
  <2> QED BY <1>9, <1>10, <2>1
<1>13. calls = <<>>
  BY <1>10 DEF IInv, Progress
<1>14. Called(exprs, Returned(results, pc), calls)'
  <2>1. Called(g, Returned(results, pc), <<>>)
    BY CalledNone
  <2> QED BY <1>9, <1>10, <1>13, <2>1
<1> QED
  BY <1>8, <1>9, <1>10, <1>11, <1>12, <1>14 DEF IInv

\* the start of optimize(),
LEMMA OptimizeStep ==
    ASSUME IInv, Optimize
    PROVE  IInv'
<1>1. /\ pc = "build" /\ exprs # <<>> /\ root' = Len(exprs) /\ expr' = Len(exprs) /\ pc' = "fold"
      /\ UNCHANGED <<tab, exprs, iter, calls, results, lost>>
  BY DEF Optimize
<1>2. Len(exprs) \in 1..Len(exprs)
  BY <1>1, SeqFacts DEF IInv, Heap
<1>3. calls = <<>>
  BY <1>1 DEF IInv, Progress
<1>4. Progress'
  <2>1. Kept(exprs[Len(exprs)].value, exprs[Len(exprs)].value, lost)
    BY DEF Kept
  <2> QED BY <1>1, <1>2, <1>3, <2>1 DEF IInv, Progress
<1>5. Called(exprs, Returned(results, pc), calls)'
  BY <1>1, <1>3, CalledNone
<1> QED
  BY <1>1, <1>4, <1>5 DEF IInv

\* the start of a pass,
LEMMA StartPassStep ==
    ASSUME IInv, StartPass
    PROVE  IInv'
<1>1. /\ pc \in {"fold", "simplify"} /\ calls' = <<Started(expr)>>
      /\ UNCHANGED <<tab, exprs, pc, root, expr, iter, results, lost>>
  BY DEF StartPass
<1>2. expr \in 1..Len(exprs)
  BY <1>1 DEF IInv, Progress
<1>3. UnderWay(exprs, Returned(results, pc), Started(expr)) /\ Started(expr).at = expr
  BY <1>2, StartedUnderWay DEF IInv
<1>4. Called(exprs, Returned(results, pc), <<Started(expr)>>)
  BY <1>3, CalledOne
<1>5. Called(exprs, Returned(results, pc), calls)'
  BY <1>1, <1>4
<1>6. Progress'
  BY <1>1, <1>3 DEF IInv, Progress
<1> QED
  BY <1>1, <1>5, <1>6 DEF IInv

\* a call on the next operand,
LEMMA CallOnOperandStep ==
    ASSUME IInv, CallOnOperand
    PROVE  IInv'
<1> DEFINE top == Last(calls)
           ops == Operands(exprs[top.at].node)
           a   == ops[Len(top.kids) + 1]
           P   == Returned(results, pc)
<1>1. /\ calls # <<>> /\ Len(top.kids) < Len(ops) /\ calls' = Append(calls, Started(a))
      /\ UNCHANGED <<tab, exprs, pc, root, expr, iter, results, lost>>
  BY DEF CallOnOperand
<1>2. UnderWay(exprs, P, top)
  BY <1>1, CalledFewer DEF IInv
<1>3. a \in 1..Len(exprs)
  <2>1. top.at \in 1..Len(exprs) /\ IsSeq(top.kids)
    BY <1>2 DEF UnderWay
  <2>2. IsSeq(ops) /\ \A i \in 1..Len(ops) : ops[i] \in 1..Len(exprs)
    BY <2>1, HeapFacts DEF IInv
  <2>3. Len(top.kids) \in Nat /\ Len(ops) \in Nat
    BY <2>1, <2>2, SeqFacts
  <2>4. Len(top.kids) + 1 \in 1..Len(ops)
    BY <1>1, <2>3
  <2> QED BY <2>2, <2>4
<1> HIDE DEF a, P
<1>4. UnderWay(exprs, P, Started(a)) /\ Started(a).at = a
  BY <1>3, StartedUnderWay DEF IInv
<1>5. NextIn(exprs, top, Started(a))
  BY <1>1, <1>4 DEF NextIn, a
<1>6. Called(exprs, P, calls)
  BY DEF IInv, P
<1>7. /\ Called(exprs, P, Append(calls, Started(a))) /\ Append(calls, Started(a)) # <<>>
      /\ Append(calls, Started(a))[1] = calls[1]
  BY <1>1, <1>4, <1>5, <1>6, CalledMore
<1>8. Called(exprs, Returned(results, pc), calls)'
  BY <1>1, <1>7 DEF P
<1>9. Progress'
  BY <1>1, <1>7 DEF IInv, Progress
<1> QED
  BY <1>1, <1>8, <1>9 DEF IInv

\* and the end of a round.
LEMMA CompareStep ==
    ASSUME IInv, Compare
    PROVE  IInv'
<1>1. /\ pc = "compare" /\ iter' = iter + 1
      /\ pc' \in {"done"} \cup (IF iter' = MaxRounds THEN {} ELSE {"fold"})
      /\ UNCHANGED <<tab, exprs, root, expr, calls, results, lost>>
  BY DEF Compare
<1>2. calls = <<>>
  BY <1>1 DEF IInv, Progress
<1>3. pc' \in {"done", "fold"} /\ (pc' # "done" => iter' # MaxRounds)
  BY <1>1
<1>4. iter' \in 0..MaxRounds /\ (pc' # "done" => iter' < MaxRounds)
  <2>1. iter \in 0..MaxRounds /\ iter < MaxRounds /\ MaxRounds \in Nat
    BY <1>1, MaxAssumption DEF IInv, Progress
  <2> QED BY <1>1, <1>3, <2>1
<1>5. Progress'
  BY <1>1, <1>2, <1>3, <1>4 DEF IInv, Progress
<1>6. Called(exprs, Returned(results, pc), calls)'
  BY <1>1, <1>2, CalledNone
<1> QED
  BY <1>1, <1>5, <1>6 DEF IInv

\* What the innermost call returns, and what is recorded of it.
LEMMA Returning ==
    ASSUME IInv, ReturnFromCall
    PROVE  LET top == Last(calls)
               new == RewrittenAt(pc, exprs, top.at, top.kids)
               m   == Loss(pc, exprs, top.at, top.kids, top.lost)
               g   == new.exprs
               N   == Returned(results, pc) \cup {<<top.at, new.at>>}
           IN  /\ pc \in {"fold", "simplify"} /\ UnderWay(exprs, Returned(results, pc), top)
               /\ Outcome(exprs, new) /\ m \in Losses
               /\ Kept(exprs[top.at].value, g[new.at].value, m)
               /\ pc = "fold" => Alike(exprs[top.at], g[new.at])
               /\ Paired(pc, g, N)
<1> DEFINE h    == exprs
           top  == Last(calls)
           a    == top.at
           kids == top.kids
           ops  == Operands(h[a].node)
           P    == Returned(results, pc)
           Q    == {c[2] : c \in P}
           new  == RewrittenAt(pc, h, a, kids)
           m    == Loss(pc, h, a, kids, top.lost)
           g    == new.exprs
<1>1. calls # <<>> /\ Len(kids) = Len(ops)
  BY DEF ReturnFromCall
<1>2. pc \in {"fold", "simplify"}
  BY <1>1 DEF IInv, Progress
<1>3. UnderWay(h, P, top)
  BY <1>1, CalledFewer DEF IInv
<1>4. Heap(tab, h) /\ tab \in Tables /\ Paired(pc, h, P)
  BY <1>2 DEF IInv, Recorded, Returned
<1>5. /\ a \in 1..Len(h) /\ IsSeq(kids) /\ top.lost \in Losses
      /\ \A j \in 1..Len(kids) : /\ <<ops[j], kids[j]>> \in P
                                 /\ Kept(h[ops[j]].value, h[kids[j]].value, top.lost)
  BY <1>3 DEF UnderWay
<1>6. \A c \in P : c[1] \in 1..Len(h) /\ c[2] \in 1..Len(h) /\ c[2] \in Q
  BY <1>4 DEF Paired
<1>7. \A j \in 1..Len(kids) : kids[j] \in 1..Len(h) /\ kids[j] \in Q
  <2> TAKE j \in 1..Len(kids)
  <2>1. <<ops[j], kids[j]>> \in P /\ <<ops[j], kids[j]>>[2] = kids[j]
    BY <1>5
  <2> HIDE DEF P, Q, ops, kids
  <2> QED BY <1>6, <2>1
<1>8. Kids(h, a, kids)
  BY <1>1, <1>5, <1>7 DEF Kids, Fits
<1>9. Closed(pc, h, Q)
  BY <1>4, PairedClosed
<1>10. ASSUME pc = "fold" PROVE \A j \in 1..Len(kids) : Alike(h[ops[j]], h[kids[j]])
  <2> TAKE j \in 1..Len(kids)
  <2> DEFINE c == <<ops[j], kids[j]>>
  <2>1. c \in results.fold
    BY <1>5, <1>10 DEF Returned
  <2>2. c[1] = ops[j] /\ c[2] = kids[j]
    OBVIOUS
  <2> HIDE DEF c
  <2>3. Alike(h[c[1]], h[c[2]])
    BY <2>1 DEF IInv, Recorded
  <2> QED BY <2>2, <2>3
<1> HIDE DEF Q, P
<1>11. /\ Outcome(h, new) /\ LeftSettled(pc, g, new.at, Q)
       /\ m \in Losses /\ Kept(h[a].value, g[new.at].value, m)
       /\ pc = "fold" => Alike(h[a], g[new.at])
       /\ kids = ops /\ Settled(pc, h, a) => new.at = a
  <2> DEFINE pass == pc
             l == top.lost
  <2>1. /\ pass \in {"fold", "simplify"} /\ l \in Losses
        /\ \A j \in 1..Len(kids) : kids[j] \in Q
        /\ \A j \in 1..Len(kids) : Kept(h[Operands(h[a].node)[j]].value, h[kids[j]].value, l)
        /\ pass = "fold" => \A j \in 1..Len(kids) : Alike(h[Operands(h[a].node)[j]], h[kids[j]])
        /\ Closed(pass, h, Q)
    BY <1>2, <1>5, <1>7, <1>9, <1>10
  <2> HIDE DEF pass, l, kids, a
  <2>2. LET new1 == RewrittenAt(pass, h, a, kids)
            m1   == Loss(pass, h, a, kids, l)
        IN  /\ Outcome(h, new1) /\ LeftSettled(pass, new1.exprs, new1.at, Q)
            /\ m1 \in Losses /\ Kept(h[a].value, new1.exprs[new1.at].value, m1)
            /\ pass = "fold" => Alike(h[a], new1.exprs[new1.at])
            /\ kids = Operands(h[a].node) /\ Settled(pass, h, a) => new1.at = a
    BY <1>4, <1>5, <1>8, <2>1, RewrittenFacts
  <2> QED BY <2>2 DEF pass, l
<1>12. Paired(pc, g, P \cup {<<a, new.at>>})
  <2>1. Heap(tab, g) /\ Extends(h, g) /\ new.at \in 1..Len(g)
    BY <1>11 DEF Outcome
  <2>2. \A j \in 1..Len(kids) : <<Operands(h[a].node)[j], kids[j]>> \in P
    BY <1>5
  <2> DEFINE pass == pc
             r == new.at
  <2> HIDE DEF pass, g, r, kids, a
  <2>3. LeftSettled(pass, g, r, {c[2] : c \in P})
    BY <1>11 DEF pass, r, Q
  <2>4. kids = Operands(h[a].node) /\ Settled(pass, h, a) => r = a
    BY <1>11 DEF pass, r
  <2>5. Paired(pass, h, P) /\ r \in 1..Len(g)
    BY <1>4, <2>1 DEF pass, r
  <2>6. Paired(pass, g, P \cup {<<a, r>>})
    BY <1>4, <1>5, <1>8, <2>1, <2>2, <2>3, <2>4, <2>5, PairedAdded
  <2> QED BY <2>6 DEF pass, r
<1> QED
  BY <1>2, <1>3, <1>11, <1>12 DEF P

\* The history with one more call that returned.
LEMMA RecordedAdded ==
    ASSUME NEW h, NEW R, Recorded(h, R), NEW pass, NEW p, NEW S, NEW N,
           S = Put(R, pass, N), N = Returned(R, pass) \cup {p}, Paired(pass, h, N),
           (pass = "fold" /\ Alike(h[p[1]], h[p[2]])) \/ pass = "simplify"
    PROVE  Recorded(h, S) /\ Returned(S, pass) = N
<1> DEFINE F == R.fold
           G == R.simplify
<1>1. R = [fold |-> F, simplify |-> G]
  BY DEF Recorded
<1> HIDE DEF F, G
<1>2. CASE pass = "fold"
  <2>1. N = F \cup {p}
    BY <1>2 DEF Returned, F
  <2>2. S = [fold |-> N, simplify |-> G]
    BY <1>1, <1>2 DEF Put
  <2>3. S.fold = N /\ S.simplify = G
    BY <2>2
  <2>4. S = [fold |-> S.fold, simplify |-> S.simplify]
    BY <2>2, <2>3
  <2>5. Paired("fold", h, S.fold) /\ Paired("simplify", h, S.simplify)
    BY <1>2, <2>3 DEF Recorded, G
  <2>6. \A c \in S.fold : Alike(h[c[1]], h[c[2]])
    BY <1>2, <2>1, <2>3 DEF Recorded, F
  <2> QED BY <1>2, <2>3, <2>4, <2>5, <2>6, SMTT(30) DEF Recorded, Returned
<1>3. CASE pass = "simplify"
  <2>1. N = G \cup {p}
    BY <1>3 DEF Returned, G
  <2>2. S = [fold |-> F, simplify |-> N]
    BY <1>1, <1>3 DEF Put
  <2>3. S.fold = F /\ S.simplify = N
    BY <2>2
  <2>4. S = [fold |-> S.fold, simplify |-> S.simplify]
    BY <2>2, <2>3
  <2>5. Paired("fold", h, S.fold) /\ Paired("simplify", h, S.simplify)
    BY <1>3, <2>3 DEF Recorded, F
  <2>6. \A c \in S.fold : Alike(h[c[1]], h[c[2]])
    BY <2>3 DEF Recorded, F
  <2> QED BY <1>3, <2>3, <2>4, <2>5, <2>6, SMTT(30) DEF Recorded, Returned
<1> QED
  BY <1>2, <1>3

\* A call that returns keeps the inductive invariant, and a folding pass that returns keeps the value.
LEMMA ReturnFromCallStep ==
    ASSUME IInv, ReturnFromCall
    PROVE  IInv' /\ (pc = "fold" /\ pc' # pc => exprs'[expr'].value = exprs[expr].value)
<1> DEFINE h     == exprs
           top   == Last(calls)
           below == Front(calls)
           n     == Len(below)
           a     == top.at
           new   == RewrittenAt(pc, h, a, top.kids)
           m     == Loss(pc, h, a, top.kids, top.lost)
           g     == new.exprs
           r     == new.at
           P     == Returned(results, pc)
           N     == P \cup {<<a, r>>}
           R     == [results EXCEPT ![pc] = @ \cup {<<a, r>>}]
<1>1. /\ pc \in {"fold", "simplify"} /\ UnderWay(h, P, top)
      /\ Outcome(h, new) /\ m \in Losses
      /\ Kept(h[a].value, g[r].value, m)
      /\ pc = "fold" => Alike(h[a], g[r])
      /\ Paired(pc, g, N)
  BY Returning
<1>2. /\ calls # <<>> /\ exprs' = g /\ results' = R /\ UNCHANGED <<tab, root, iter>>
      /\ below = <<>> =>
            /\ calls' = <<>> /\ expr' = r /\ lost' = Worse(lost, m)
            /\ pc' = IF pc = "fold" THEN "simplify" ELSE "compare"
      /\ below # <<>> =>
            /\ calls' = [below EXCEPT ![n].kids = Append(@, r), ![n].lost = Worse(@, m)]
            /\ UNCHANGED <<pc, expr, lost>>
  BY DEF ReturnFromCall
<1>3. Heap(tab, h) /\ Recorded(h, results) /\ Called(h, P, calls) /\ tab \in Tables
  BY DEF IInv
<1>4. Heap(tab, g) /\ Extends(h, g) /\ r \in 1..Len(g) /\ a \in 1..Len(h)
  BY <1>1 DEF Outcome, UnderWay
<1> HIDE DEF g, r, m, top, below, P, R, new
<1>5. Len(h) \in Nat /\ Len(g) \in Nat /\ Len(h) <= Len(g) /\ \A x \in 1..Len(h) : g[x] = h[x] /\ x \in 1..Len(g)
  <2>1. Len(h) \in Nat /\ Len(g) \in Nat
    BY <1>3, <1>4, SeqFacts DEF Heap
  <2> QED BY <1>4, <2>1 DEF Extends
<1>6. Recorded(g, R) /\ Returned(R, pc) = N
  <2>1. Recorded(g, results)
    BY <1>3, <1>4, RecordedStays
  <2> DEFINE p    == <<a, r>>
             pass == pc
  <2>2. p[1] = a /\ p[2] = r /\ g[a] = h[a]
    BY <1>4, <1>5
  <2>3. /\ (pass = "fold" /\ Alike(g[p[1]], g[p[2]])) \/ pass = "simplify"
        /\ Paired(pass, g, N) /\ N = Returned(results, pass) \cup {p}
    BY <1>1, <2>2 DEF P
  <2>4. R = Put(results, pass, N)
    <3>1. results[pass] = P
      BY <1>1 DEF P, Returned
    <3>2. R = Put(results, pass, results[pass] \cup {p})
      BY DEF R, Put
    <3> QED BY <3>1, <3>2
  <2> HIDE DEF p, pass, N
  <2>5. Recorded(g, R) /\ Returned(R, pass) = N
    BY <2>1, <2>3, <2>4, RecordedAdded
  <2> QED BY <2>5 DEF pass
<1>7. Recorded(exprs, results)' /\ Heap(tab, exprs)' /\ (tab \in Tables)'
  BY <1>2, <1>3, <1>4, <1>6
<1>8. /\ root \in 1..Len(h) /\ expr \in 1..Len(h) /\ Kept(h[root].value, h[expr].value, lost)
      /\ calls[1].at = expr /\ iter \in 0..MaxRounds /\ iter < MaxRounds /\ lost \in Losses
  BY <1>1, <1>2 DEF IInv, Progress
<1>9. CASE below = <<>>
  <2>1. a = expr
    <3>1. calls[1] = top
      BY <1>2, <1>3, <1>9, CalledFewer DEF below, top
    <3> QED BY <1>8, <3>1
  <2>2. /\ calls' = <<>> /\ expr' = r /\ lost' = Worse(lost, m)
        /\ pc' = IF pc = "fold" THEN "simplify" ELSE "compare"
    BY <1>2, <1>9
  <2>3. Kept(g[root].value, g[r].value, Worse(lost, m)) /\ Worse(lost, m) \in Losses
    <3> DEFINE V == h[root].value
               W == h[expr].value
               X == g[r].value
    <3>1. Typed(V, Rows) /\ Typed(W, Rows) /\ Typed(X, Rows)
      BY <1>3, <1>4, <1>8, HeldAt
    <3>2. Kept(V, W, lost) /\ Kept(W, X, m) /\ Rows \in Nat
      BY <1>1, <1>8, <2>1, RowsAssumption
    <3>3. g[root] = h[root]
      BY <1>5, <1>8
    <3> HIDE DEF V, W, X
    <3>4. Kept(V, X, Worse(lost, m))
      BY <1>1, <1>8, <3>1, <3>2, KeptTransitive
    <3> QED BY <1>1, <1>8, <3>3, <3>4, WorseFacts DEF V, X
  <2>4. pc' \in {"simplify", "compare"}
    BY <2>2
  <2>5. root' \in 1..Len(g) /\ expr' \in 1..Len(g)
    BY <1>2, <1>4, <1>5, <1>8, <2>2
  <2>6. Progress'
    BY <1>2, <1>8, <2>2, <2>3, <2>4, <2>5 DEF Progress
  <2>7. Called(exprs, Returned(results, pc), calls)'
    BY <2>2, CalledNone
  <2>8. pc = "fold" => exprs'[expr'].value = exprs[expr].value
    BY <1>1, <1>2, <2>1, <2>2 DEF Alike
  <2> QED BY <1>7, <2>6, <2>7, <2>8 DEF IInv
<1>10. CASE below # <<>>
  <2>1. /\ calls' = [below EXCEPT ![n].kids = Append(@, r), ![n].lost = Worse(@, m)]
        /\ pc' = pc /\ expr' = expr /\ lost' = lost
    BY <1>2, <1>10
  <2>2. /\ Called(h, P, below) /\ n \in 1..n /\ below[1] = calls[1]
        /\ UnderWay(h, P, below[n]) /\ NextIn(h, below[n], top)
    BY <1>2, <1>3, <1>10, CalledFewer DEF below, top
  <2> DEFINE c == below[n]
             e == Grown(c, r, m)
             s == Put(below, n, e)
  <2>3. IsSeq(below) /\ c = [at |-> c.at, kids |-> c.kids, lost |-> c.lost]
    BY <2>2 DEF Called, UnderWay
  <2>4. calls' = s
    <3>1. n \in 1..Len(below) /\ calls' = GrownIn(below, n, r, m)
      BY <2>1, <2>2 DEF GrownIn
    <3> HIDE DEF n
    <3>2. GrownIn(below, n, r, m) = Put(below, n, Grown(below[n], r, m))
      BY <2>3, <3>1, GrownAt
    <3> QED BY <3>1, <3>2
  <2>5. P \subseteq N /\ \A x \in P : x[2] \in 1..Len(h)
    <3>1. \A x \in P : x[2] \in 1..Len(h)
      BY <1>1, <1>3 DEF P, Recorded, Returned, Paired
    <3> QED BY <3>1
  <2> HIDE DEF N
  <2>6. Called(g, N, below)
    BY <1>3, <1>4, <2>2, <2>5, CalledStays
  <2>7. UnderWay(g, N, c) /\ g[c.at] = h[c.at]
    BY <1>3, <1>4, <2>2, <2>5, UnderWayStays
  <2>8. NextIn(g, c, top)
    BY <2>2, <2>7 DEF NextIn
  <2>9. <<top.at, r>> \in N /\ Kept(g[top.at].value, g[r].value, m)
    BY <1>1, <1>4, <1>5 DEF N
  <2> HIDE DEF c
  <2>10. UnderWay(g, N, e)
    BY <1>1, <2>7, <2>8, <2>9, UnderWayGrown
  <2>11. e.at = below[n].at
    BY DEF Grown, c
  <2> HIDE DEF e
  <2>12. Called(g, N, s) /\ s # <<>> /\ s[1].at = below[1].at
    BY <2>2, <2>6, <2>10, <2>11, CalledGrown
  <2> HIDE DEF s
  <2>13. Called(exprs, Returned(results, pc), calls)'
    BY <1>2, <1>6, <2>1, <2>4, <2>12
  <2>14. root' \in 1..Len(g) /\ expr' \in 1..Len(g) /\ Kept(g[root].value, g[expr].value, lost)
    BY <1>2, <1>4, <1>5, <1>8, <2>1, KeptStays
  <2>15. Progress'
    BY <1>1, <1>2, <1>8, <2>1, <2>2, <2>4, <2>12, <2>14 DEF Progress
  <2> QED BY <1>7, <2>1, <2>13, <2>15 DEF IInv
<1> QED
  BY <1>9, <1>10

\* No step breaks the inductive invariant.
LEMMA Inductive ==
    ASSUME IInv, [Next]_vars
    PROVE  IInv'
<1>1. CASE Build
  BY <1>1, BuildStep
<1>2. CASE Optimize
  BY <1>2, OptimizeStep
<1>3. CASE StartPass
  BY <1>3, StartPassStep
<1>4. CASE CallOnOperand
  BY <1>4, CallOnOperandStep
<1>5. CASE ReturnFromCall
  BY <1>5, ReturnFromCallStep
<1>6. CASE Compare
  BY <1>6, CompareStep
<1>7. CASE UNCHANGED vars
  BY <1>7 DEF vars, IInv, Progress
<1> QED
  BY <1>1, <1>2, <1>3, <1>4, <1>5, <1>6, <1>7 DEF Next

\* The passes keep a heap of immutable nodes, pair what calls return with what they were
\* on, and stand in calls that each wait for the next operand (IInv).
THEOREM InductiveInvariant == Spec => []IInv
<1>1. Init => IInv
  BY InitStep
<1>2. IInv /\ [Next]_vars => IInv'
  BY Inductive
<1> QED
  BY <1>1, <1>2, PTL DEF Spec

\* The inductive invariant has the type invariant,
LEMMA TypesFollow ==
    ASSUME IInv
    PROVE  TypeOK
<1> DEFINE h == exprs
<1>1. Len(h) \in Nat /\ DOMAIN h = 1..Len(h)
  BY SeqFacts DEF IInv, Heap
<1>2. ASSUME NEW a \in DOMAIN h
      PROVE  /\ IsExpr(h[a].node)
             /\ \A i \in DOMAIN Operands(h[a].node) : Operands(h[a].node)[i] \in 1..a - 1
             /\ h[a].value = Throws \/ IsColumn(h[a].value, Rows)
             /\ h[a].alone = Throws \/ IsColumn(h[a].alone, 1)
  <2>1. /\ IsExpr(h[a].node) /\ IsSeq(Operands(h[a].node)) /\ Sound(h[a])
    BY <1>1, HeapFacts DEF IInv
  <2>2. DOMAIN Operands(h[a].node) = 1..Len(Operands(h[a].node))
    BY <2>1, SeqFacts
  <2>3. Below(h[a].node, a - 1)
    BY <1>1 DEF IInv, Heap
  <2> QED BY <2>1, <2>2, <2>3 DEF Sound, Typed, Below
<1>3. ASSUME NEW x \in DOMAIN calls
      PROVE  /\ calls[x].at \in DOMAIN h /\ ToSet(calls[x].kids) \subseteq DOMAIN h
             /\ Len(calls[x].kids) <= Len(Operands(h[calls[x].at].node))
  <2> DEFINE c   == calls[x]
             s   == c.kids
             ops == Operands(h[c.at].node)
             P   == Returned(results, pc)
  <2>1. UnderWay(h, P, c)
    BY SeqFacts DEF IInv, Called
  <2>2. pc \in {"fold", "simplify"}
    <3>1. IsSeq(calls) /\ calls # <<>>
      BY SeqFacts, PairFacts DEF IInv, Called
    <3> QED BY <3>1 DEF IInv, Progress
  <2>3. \A e \in P : e[2] \in 1..Len(h)
    BY <2>2 DEF IInv, Recorded, Returned, Paired
  <2>4. /\ c.at \in 1..Len(h) /\ IsSeq(s) /\ Len(s) <= Len(ops)
        /\ \A j \in 1..Len(s) : <<ops[j], s[j]>> \in P
    BY <2>1 DEF UnderWay
  <2>5. \A j \in 1..Len(s) : s[j] \in 1..Len(h)
    <3> TAKE j \in 1..Len(s)
    <3>1. <<ops[j], s[j]>> \in P /\ <<ops[j], s[j]>>[2] = s[j]
      BY <2>4
    <3> HIDE DEF P, s, ops
    <3> QED BY <2>3, <3>1
  <2>6. DOMAIN s = 1..Len(s)
    BY <2>4, SeqFacts
  <2>7. ToSet(s) \subseteq 1..Len(h)
    BY <2>5, <2>6 DEF ToSet
  <2> QED BY <1>1, <2>4, <2>7
<1>4. {root, expr} \subseteq DOMAIN h \cup {0}
  BY <1>1 DEF IInv, Progress
<1>5. /\ pc \in {"build", "fold", "simplify", "compare", "done"}
      /\ iter \in 0..MaxRounds /\ lost \in Losses
  BY DEF IInv, Progress
<1> QED
  BY <1>2, <1>3, <1>4, <1>5 DEF TypeOK

\* the values kept up to the loss noted,
LEMMA ValuesFollow ==
    ASSUME IInv
    PROVE  ValueKept /\ NarrowedValueCongruent
<1>1. ASSUME root # 0 PROVE Kept(Value(root), Value(expr), lost)
  BY <1>1 DEF IInv, Progress, Value
<1>2. ValueKept
  BY <1>1 DEF ValueKept, Kept
<1>3. NarrowedValueCongruent
  BY <1>1 DEF NarrowedValueCongruent, Kept
<1> QED
  BY <1>2, <1>3

\* and idempotence.
LEMMA IdempotentFollows ==
    ASSUME IInv
    PROVE  Idempotent
<1>1. results = [fold |-> results.fold, simplify |-> results.simplify]
  BY DEF IInv, Recorded
<1>2. DOMAIN results = {"fold", "simplify"}
  BY <1>1
<1>3. /\ \A c, d \in results["fold"] : d[1] = c[2] => d[2] = d[1]
      /\ \A c, d \in results["simplify"] : d[1] = c[2] => d[2] = d[1]
  BY DEF IInv, Recorded, Paired
<1> QED
  BY <1>2, <1>3 DEF Idempotent

\* A folding pass that returns leaves the value of the expression as it was.
LEMMA FoldingStep ==
    ASSUME IInv, [Next]_vars
    PROVE  [pc = "fold" /\ PassReturns => Value(expr)' = Value(expr)]_vars
<1> SUFFICES ASSUME pc = "fold", pc' # pc, Next
             PROVE  exprs'[expr'].value = exprs[expr].value
  BY DEF PassReturns, Value, vars
<1>1. CASE ReturnFromCall
  BY <1>1, ReturnFromCallStep
<1>2. CASE Build \/ Optimize \/ Compare
  BY <1>2 DEF Build, Optimize, Compare
<1>3. CASE StartPass \/ CallOnOperand
  BY <1>3 DEF StartPass, CallOnOperand
<1> QED
  BY <1>1, <1>2, <1>3 DEF Next

\* Types, operands below what they are operands of, and calls on nodes that are there.
THEOREM TypeCorrect == Spec => []TypeOK
<1>1. IInv => TypeOK
  BY TypesFollow
<1> QED
  BY <1>1, InductiveInvariant, PTL

\* foldExpr and simplifyExpr keep the value of an expression, whatever the expression, the
\* table and the number of rounds, where no identity that loses something was applied.
THEOREM ValuesKept == Spec => []ValueKept
<1>1. IInv => ValueKept
  BY ValuesFollow
<1> QED
  BY <1>1, InductiveInvariant, PTL

\* Where one narrowed a type and no more, the cells agree modulo the narrower width.
THEOREM NarrowedValuesCongruent == Spec => []NarrowedValueCongruent
<1>1. IInv => NarrowedValueCongruent
  BY ValuesFollow
<1> QED
  BY <1>1, InductiveInvariant, PTL

\* A pass on what it returned returns the same pointers.
THEOREM PassesIdempotent == Spec => []Idempotent
<1>1. IInv => Idempotent
  BY IdempotentFollows
<1> QED
  BY <1>1, InductiveInvariant, PTL

\* Folding changes no value, and drops nothing that throws.
THEOREM FoldingKeepsValues == Spec => FoldingExact
<1>1. IInv /\ [Next]_vars => [pc = "fold" /\ PassReturns => Value(expr)' = Value(expr)]_vars
  BY FoldingStep
<1> QED
  BY <1>1, InductiveInvariant, PTL DEF Spec, FoldingExact
=============================================================================
