--------------------------- MODULE MCLazyDataFrame ---------------------------
(***************************************************************************)
(* Small instances of LazyDataFrame: files, and menus of arguments for the *)
(* calls, by the file a frame begins with.                                 *)
(***************************************************************************)
EXTENDS LazyDataFrame

MCHalf == [INT32 |-> 32, INT64 |-> 128]
MCRank == [a |-> 1, b |-> 2, c |-> 3, f |-> 4, i |-> 5, k |-> 6, n |-> 7, s |-> 8]
MCStringFuncs == [length |-> [ty |-> "INT32", of |-> [r \in 0..1 |-> r + 1]]]

\* In l and r, keys that repeat, match twice, and do not match, null cells and a zero; in e
\* every pair of an integer and a boolean cell, and integers that overflow; in o one row.
MCFiles ==
    LET row(i) == <<(i - 1) \div 3, (i - 1) % 3>> IN
    [l |-> << [name |-> "a", ty |-> "INT64", v |-> <<2, Null, 0>>],
              [name |-> "k", ty |-> "INT64", v |-> <<1, 2, 1>>] >>,
     r |-> << [name |-> "b", ty |-> "INT64", v |-> <<5, 3, Null>>],
              [name |-> "k", ty |-> "INT64", v |-> <<1, 1, 3>>] >>,
     e |-> << [name |-> "a", ty |-> "INT64", v |-> [i \in 1..9 |-> <<2, Null, -1>>[row(i)[1] + 1]]],
              [name |-> "f", ty |-> "BOOLEAN", v |-> [i \in 1..9 |-> <<1, 0, Null>>[row(i)[2] + 1]]],
              [name |-> "i", ty |-> "INT32", v |-> [i \in 1..9 |-> IF i = 9 THEN Null ELSE 9 * i - 40]] >>,
     o |-> << [name |-> "a", ty |-> "INT64", v |-> <<-7>>],
              [name |-> "f", ty |-> "BOOLEAN", v |-> <<1>>] >>]

A == Col("a")
B == Col("b")
K == Col("k")

Equal(e, x)   == Bin("EQ", e, Lit32(x))
Greater(e, x) == Bin("GT", e, Lit32(x))
OnKey(p, h)   == [plan |-> p, on |-> <<"k">>, how |-> h]

\* No calls; the menus below are this one with some.
NoCalls == [selects |-> {}, predicates |-> {}, withColumns |-> {}, keys |-> {}, aggs |-> {},
            rights |-> {}, sorts |-> {}, heads |-> {}, maxOps |-> 0]

\* On l, every plan of up to four calls, with a join that keeps the rows of the side a
\* filter may go to, and expressions that fold and simplify.
MCSelects == { <<Alias(Bin("MUL", Lit32(1), Bin("ADD", A, Bin("SUB", Lit32(2), Lit32(2)))), "b"), K>>,
               <<Alias(Agg("SUM", A), "s")>> }
MCPredicates == { Bin("AND", Equal(K, 1), Bin("OR", Bool(TRUE), Greater(K, 0))),
                  Un("NOT", Un("NOT", Greater(Bin("ADD", A, B), 6))),
                  Bin("LT", Bin("DIV", Lit32(4), Bin("SUB", K, Lit32(2))), Lit32(0)) }
MCWithColumns == { [name |-> "k", expr |-> Bin("ADD", K, A)] }
MCAggs == { [s |-> Agg("SUM", A), n |-> Agg("COUNT", A)] }
MCRights == { OnKey(Filter(Scan("r"), Greater(B, 3)), "inner"), OnKey(Scan("r"), "left") }

FourCalls ==
    [selects |-> MCSelects, predicates |-> MCPredicates, withColumns |-> MCWithColumns,
     keys |-> { <<"k">> }, aggs |-> MCAggs, rights |-> MCRights,
     sorts |-> {[by |-> <<"k">>, ascending |-> FALSE]}, heads |-> {1, 2}, maxOps |-> 4]

\* On e, one with_column or filter of well-typed expressions of up to two operators, every
\* one with a computed operand on the right, or with one on the left of a column; and of an
\* aggregate, whose column with_column must refuse.
F == Col("f")
Ints  == {A, Lit32(0), Lit32(1)}
Bools == {F, Bool(TRUE), Bool(FALSE)}

Binary(ops, S, T) == {Bin(op, x, y) : op \in ops, x \in S, y \in T}
Unary(ops, S)     == {Un(op, x) : op \in ops, x \in S}

Compute(S, T) == Binary(Arithmetic, S, T) \cup Unary({"NEG", "ABS"}, S)
Relate(S, T) == Binary({"EQ", "NEQ", "LT"}, S, T) \cup Unary({"IS_NULL"}, S)
Decide(S, T)  == Binary(Logical, S, T) \cup Unary({"NOT", "IS_NULL"}, S) \cup Binary({"EQ"}, S, T)

Ints2  == Compute(Ints, Compute(Ints, Ints)) \cup Compute(Compute(Ints, Ints), {A})
Bools1 == Decide(Bools, Bools) \cup Relate(Ints, Ints)
Bools2 == Decide(Bools1, {F}) \cup Decide(Bools, Bools1)
          \cup Relate(Compute(Ints, Ints), {A}) \cup Relate(Ints, Compute(Ints, Ints))

Texts   == {Lit("STRING", 0), Lit("STRING", 1)}
OfTexts == Compute({Str("length", t) : t \in Texts}, {Alias(A, "f"), Lit32(1)})
           \cup Binary({"SUB", "EQ", "LT"}, Texts, Texts)

\* Sums and products of a 32-bit column with 64-bit literals, which leave its range.
I       == Col("i")
Wide    == {I, Lit("INT64", 0), Lit("INT64", 1), Lit("INT64", 3)}
Sums(S, T) == Binary({"ADD", "SUB", "MUL"}, S, T)
Widened == Sums({I, Lit32(0), Lit32(1)}, Sums(Wide, Wide)) \cup Sums(Sums(Wide, Wide), {I})

OneExpression ==
    [NoCalls EXCEPT !.withColumns = {[name |-> "c", expr |-> e] :
                                        e \in Ints2 \cup OfTexts \cup Widened \cup {Agg("COUNT", A)}},
                    !.predicates = Bools2, !.maxOps = 1]

\* On o, whose row the modulo of aggregates has operands for, and sums that have no ColType;
\* a filter on false leaves no row to it, and a group none to cut.
OfSums == { <<Alias(Bin("MOD", Agg("SUM", A), Bin("ADD", Agg("COUNT", A), Lit32(2))), "s")>>,
            <<Alias(Agg("SUM", Un("NEG", Agg("SUM", F))), "s")>> }

OneRow ==
    [NoCalls EXCEPT !.selects = OfSums, !.predicates = {F, Un("NOT", F)}, !.keys = { <<"f">> },
                    !.aggs = {[s |-> Bin("MOD", A, Agg("COUNT", F))]}, !.maxOps = 3]

CollectMenus == [l |-> FourCalls, e |-> OneExpression, o |-> OneRow]

\* The runs that show where a result changes or a plan does not settle: two or three calls
\* each, and for the last one a chain of with_column under a head.
OnlyOnL(menu) == [path \in {"l"} |-> menu]

OuterMenus ==
    OnlyOnL([NoCalls EXCEPT !.rights = {OnKey(Scan("r"), "left"), OnKey(Scan("r"), "inner")},
                            !.predicates = {Greater(B, 3)}, !.maxOps = 2])
GroupMenus ==
    OnlyOnL([NoCalls EXCEPT !.keys = { <<"k">> }, !.predicates = {Equal(K, 1)},
                            !.aggs = {[s |-> Agg("SUM", A)]}, !.maxOps = 3])
SumMenus ==
    OnlyOnL([NoCalls EXCEPT !.selects = { <<Alias(Agg("SUM", K), "s")>> }, !.heads = {1},
                            !.maxOps = 2])
ZeroMenus ==
    OnlyOnL([NoCalls EXCEPT !.withColumns = {[name |-> "c", expr |-> Bin("MUL", A, Lit32(0))]},
                            !.maxOps = 1])
DeepMenus ==
    OnlyOnL([NoCalls EXCEPT !.withColumns = {[name |-> "c", expr |-> K]}, !.heads = {1},
                            !.maxOps = 11])
=============================================================================
