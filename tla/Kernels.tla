------------------------------ MODULE Kernels ------------------------------
(***************************************************************************)
(* Columns, and what each kind of expression makes of the columns of its   *)
(* operands (evalExprOn and its helpers, without the recursion).           *)
(*                                                                         *)
(* A column is [ty, v]: an Arrow type and its cells in row order.  A cell  *)
(* is Null or an integer; booleans are 0 and 1, strings are ranks in a     *)
(* sorted dictionary, so that comparing cells compares strings.            *)
(***************************************************************************)
EXTENDS Integers, Sequences, FiniteSets, SequencesExt

CONSTANTS
    Null,        \* the null cell
    Half,        \* the integers of a type are -Half..Half - 1: 2^31 and 2^63 in the code
    StringFuncs  \* the string kernels: func -> [ty |-> result type, of |-> cell -> cell]

ASSUME NullAssumption == Null \notin Int

ASSUME HalfAssumption ==
    /\ Half.INT32 \in Nat \ {0} /\ Half.INT64 \in Nat \ {0}
    /\ Half.INT64 % Half.INT32 = 0

\* What a call that throws returns; nothing else has this type.
Throws == [ty |-> "throws", v |-> <<>>]

IsNumeric(t) == t \in {"INT32", "INT64"}

Promote(s, t) == IF "INT64" \in {s, t} THEN "INT64" ELSE "INT32"

\* Arrow's unchecked kernels wrap around; a sum of booleans is unsigned.
Wrap(t, n) ==
    IF t = "UINT64" THEN n % (2 * Half.INT64) ELSE ((n + Half[t]) % (2 * Half[t])) - Half[t]

\* C++ division and remainder truncate towards zero.
Abs(n) == IF n < 0 THEN -n ELSE n
Sign(n) == IF n < 0 THEN -1 ELSE 1
Quot(a, b) == Sign(a) * Sign(b) * (Abs(a) \div Abs(b))
Rem(a, b)  == a - b * Quot(a, b)

Truth(b) == IF b THEN 1 ELSE 0

Arithmetic == {"ADD", "SUB", "MUL", "DIV", "MOD"}
Orderings  == {"LT", "LE", "GT", "GE"}
Logical    == {"AND", "OR"}

\* validateBinaryOp: the operand types each operator accepts.  The other Arrow types
\* (of an untyped column, or a sum of booleans) have no ColType.
ColTypes == {"INT32", "INT64", "STRING", "BOOLEAN"}

ValidOperands(op, s, t) ==
    LET numeric == IsNumeric(s) /\ IsNumeric(t) IN
    {s, t} \subseteq ColTypes /\
    CASE op \in Arithmetic   -> numeric
      [] op \in {"EQ", "NEQ"} -> numeric \/ s = t
      [] op \in Orderings    -> numeric \/ (s = t /\ s = "STRING")
      [] op \in Logical      -> s = "BOOLEAN" /\ t = "BOOLEAN"

ResultType(op, s, t) ==
    IF op = "MOD" THEN s ELSE IF op \in Arithmetic THEN Promote(s, t) ELSE "BOOLEAN"

\* Kleene logic: a null operand is decided by the other one where it can be.
And3(a, b) == IF 0 \in {a, b} THEN 0 ELSE IF Null \in {a, b} THEN Null ELSE 1
Or3(a, b)  == IF 1 \in {a, b} THEN 1 ELSE IF Null \in {a, b} THEN Null ELSE 0

\* One row of a binary operator whose operands are not null.
Apply(op, t, a, b) ==
    CASE op = "ADD" -> Wrap(t, a + b)
      [] op = "SUB" -> Wrap(t, a - b)
      [] op = "MUL" -> Wrap(t, a * b)
      [] op = "DIV" -> Wrap(t, Quot(a, b))
      [] op = "MOD" -> IF b = 0 THEN Null ELSE Rem(a, b)
      [] op = "EQ"  -> Truth(a = b)
      [] op = "NEQ" -> Truth(a # b)
      [] op = "LT"  -> Truth(a < b)
      [] op = "LE"  -> Truth(a <= b)
      [] op = "GT"  -> Truth(a > b)
      [] op = "GE"  -> Truth(a >= b)

\* A row that makes the whole column throw: integer division by zero, and the
\* modulo loop appending an Int64Scalar to an int32 builder.
Breaks(op, t, a, b) ==
    \/ op = "DIV" /\ b = 0
    \/ op = "MOD" /\ b # 0 /\ t = "INT32"

BinaryCell(op, t, a, b) ==
    CASE op = "AND" -> And3(a, b)
      [] op = "OR"  -> Or3(a, b)
      [] OTHER      -> IF Null \in {a, b} THEN Null ELSE Apply(op, t, a, b)

Refused(op, L, R) ==
    \/ Throws \in {L, R}
    \/ ~ValidOperands(op, L.ty, R.ty)
    \/ Len(L.v) # Len(R.v)
    \/ \E i \in 1..Len(L.v) : /\ Null \notin {L.v[i], R.v[i]}
                             /\ Breaks(op, ResultType(op, L.ty, R.ty), L.v[i], R.v[i])

evalBinary(op, L, R) ==
    LET t == ResultType(op, L.ty, R.ty) IN
    IF Refused(op, L, R) THEN Throws
    ELSE [ty |-> t, v |-> [i \in 1..Len(L.v) |-> BinaryCell(op, t, L.v[i], R.v[i])]]

\* The first n cells of a column.
Upto(C, n) == [ty |-> C.ty, v |-> [i \in 1..n |-> C.v[i]]]

\* The modulo goes by the rows of the table.  An operand with fewer of them, an aggregate,
\* ends the program (ValueOrDie), which Throws stands for as well.
evalMod(L, R, n) ==
    IF Throws \in {L, R} \/ Len(L.v) < n \/ Len(R.v) < n THEN Throws
    ELSE evalBinary("MOD", Upto(L, n), Upto(R, n))

\* The operand type each unary operator accepts, and what it makes of a cell.  NOT and ABS
\* check it themselves; NEG leaves it to Arrow, which negates unsigned integers and nulls.
ValidOperand(op, t) ==
    \/ op = "NOT" /\ t = "BOOLEAN"
    \/ op \in {"NEG", "ABS"} /\ IsNumeric(t)
    \/ op = "NEG" /\ t \in {"UINT64", "NA"}
    \/ op \in {"IS_NULL", "IS_NOT_NULL"}

InvertedBits(op, t, x) == IF op = "ABS" THEN Wrap(t, Abs(x)) ELSE -1 - x     \* mutant

Inverted(op, t, x) ==
    CASE op = "NOT" -> 1 - x
      [] op = "NEG" -> Wrap(t, -x)
      [] op = "ABS" -> Wrap(t, Abs(x))

UnaryCell(op, t, x) ==
    CASE op = "IS_NULL"     -> Truth(x = Null)
      [] op = "IS_NOT_NULL" -> Truth(x # Null)
      [] OTHER              -> IF x = Null THEN Null ELSE Inverted(op, t, x)

evalUnary(op, C) ==
    IF C = Throws \/ ~ValidOperand(op, C.ty) THEN Throws
    ELSE [ty |-> IF op \in {"IS_NULL", "IS_NOT_NULL"} THEN "BOOLEAN" ELSE C.ty,
          v  |-> [i \in 1..Len(C.v) |-> UnaryCell(op, C.ty, C.v[i])]]

evalString(f, C) ==
    IF C.ty # "STRING" THEN Throws
    ELSE [ty |-> StringFuncs[f].ty,
          v |-> [i \in 1..Len(C.v) |-> IF C.v[i] = Null THEN Null ELSE StringFuncs[f].of[C.v[i]]]]

\* A literal, in a table of n rows.
evalLit(e, n) == [ty |-> e.ty, v |-> [i \in 1..n |-> e.val]]

\* The type of a sum: booleans are counted, and a column of nulls only has an integer sum.
SumType(t) == IF t \in {"BOOLEAN", "UINT64"} THEN "UINT64" ELSE "INT64"

\* Aggregates skip nulls and give one row; without a non-null cell only COUNT has a value.
evalAgg(f, C) ==
    LET present == SelectSeq(C.v, LAMBDA x : x # Null)
        Pick(Better(_, _)) ==
            IF present = <<>> THEN Null
            ELSE FoldLeft(LAMBDA x, y : IF Better(y, x) THEN y ELSE x, Head(present), present)
        One(t, x) == [ty |-> t, v |-> <<x>>]
    IN CASE C = Throws -> Throws
         [] f = "COUNT" -> One("INT64", Len(present))
         [] f = "SUM" /\ C.ty # "STRING" ->
              LET t == SumType(C.ty) IN
              One(t, IF present = <<>> THEN Null
                     ELSE FoldLeft(LAMBDA x, y : Wrap(t, x + y), 0, present))
         [] f = "MIN" -> One(C.ty, Pick(LAMBDA x, y : x < y))
         [] f = "MAX" -> One(C.ty, Pick(LAMBDA x, y : x > y))
         [] OTHER -> Throws
=============================================================================
