--------------------------- MODULE EquiJoinProofs ---------------------------
(***************************************************************************)
(* The hash join implements the relational join.                           *)
(***************************************************************************)
EXTENDS EquiJoin, HashJoinProofs

\* Row keys agree exactly when the keys do, so the two modules owe the same rows.
LEMMA OwedIsRow ==
    ASSUME in \in JoinInputs, NEW a \in LeftRows \cup {0}, NEW b \in RightRows \cup {0}
    PROVE  Owed(a, b) <=> <<a, b>> \in Promise!Rows
<1>1. \A x \in LeftRows, y \in RightRows : KeyMatch(x, y) <=> Promise!Match(x, y)
    BY UnambiguousKeys
    DEF KeyMatch, LeftKey, RightKey, Promise!Match, LeftRows, RightRows, HasNull,
        Promise!HasNull
<1>2. 0 \notin LeftRows /\ 0 \notin RightRows BY InputFacts
<1>3. Promise!LeftRows = LeftRows /\ Promise!RightRows = RightRows
      /\ (Promise!KeepsLeft <=> KeepsLeft) /\ (Promise!KeepsRight <=> KeepsRight)
    BY DEF Promise!LeftRows, Promise!RightRows, LeftRows, RightRows,
           Promise!KeepsLeft, Promise!KeepsRight, KeepsLeft, KeepsRight
<1> QED BY <1>1, <1>2, <1>3 DEF Owed, Promise!Rows

\* Appending one row is an Emit step.
LEMMA EmitStep ==
    ASSUME IInv, IInv', UNCHANGED in, phase \notin {"done", "error"},
           phase' \notin {"done", "error"},
           NEW a \in LeftRows \cup {0}, NEW b \in RightRows \cup {0},
           out' = Append(out, <<a, b>>)
    PROVE  Promise!Emit
<1>1. out \in Seq(OutRow) BY DEF IInv, TypeOK, OutRow
<1>2. /\ Len(out') = Len(out) + 1 /\ Len(out) \in Nat
      /\ \A i \in 1..Len(out) : out'[i] = out[i]
      /\ out'[Len(out) + 1] = <<a, b>>
      /\ Has(a, b)'
    BY <1>1, HasAppend DEF OutRow
<1>3. Owed(a, b) BY <1>2, Fixed DEF IInv, OutputProgress
<1>4. <<a, b>> \in Promise!Rows BY <1>3, OwedIsRow DEF IInv, TypeOK
<1>5. \A i \in 1..Len(out) : Before(out[i], <<a, b>>)
    BY <1>2 DEF IInv, OutputOrdered, Before
<1>6. \A q \in Promise!Emitted : Promise!Before(q, <<a, b>>)
    BY <1>5 DEF Promise!Emitted, Promise!Before, Before
<1> QED BY <1>4, <1>6 DEF Promise!Emit, Promise!Running

\* A join that returns has emitted all rows.
LEMMA FinishStep ==
    ASSUME IInv, IInv', UNCHANGED <<in, out>>, phase \notin {"done", "error"},
           phase' = "done"
    PROVE  Promise!Finish
<1>1. \A a \in LeftRows \cup {0}, b \in RightRows \cup {0} : Has(a, b) <=> Owed(a, b)
    <2> TAKE a \in LeftRows \cup {0}, b \in RightRows \cup {0}
    <2>1. Has(a, b) <=> Owed(a, b) /\ Passed(a, b)'
        BY Fixed, HasSame DEF IInv, OutputProgress
    <2>2. Passed(a, b)'
        <3>1. /\ Len(in.left) \in Nat /\ LeftRows = 1..Len(in.left)
              /\ l' = Len(in.left) + 1
            BY InputFacts DEF IInv, TypeOK, OutputProgress
        <3> QED BY <3>1 DEF Passed
    <2> QED BY <2>1, <2>2
<1>2. \A i \in 1..Len(out) : out[i] \in (LeftRows \cup {0}) \X (RightRows \cup {0})
    BY DEF IInv, TypeOK
<1>3. Promise!Rows \subseteq (LeftRows \cup {0}) \X (RightRows \cup {0})
    BY DEF Promise!Rows, Promise!LeftRows, Promise!RightRows, LeftRows, RightRows
<1>4. \A a \in LeftRows \cup {0}, b \in RightRows \cup {0} :
          <<a, b>> \in Promise!Emitted <=> <<a, b>> \in Promise!Rows
    BY <1>1, OwedIsRow DEF IInv, TypeOK, Promise!Emitted, Has
<1>5. Promise!Emitted \subseteq (LeftRows \cup {0}) \X (RightRows \cup {0})
    BY <1>2 DEF Promise!Emitted
<1>6. Promise!Emitted = Promise!Rows BY <1>3, <1>4, <1>5
<1> QED BY <1>6 DEF Promise!Finish, Promise!Running

LEMMA RefineStep ==
    ASSUME IInv, IInv', [Next]_vars
    PROVE  [Promise!Next]_(Promise!vars)
<1> USE DEF Promise!Next
<1>1. CASE Check
    <2>1. in.how \notin Promise!Supported \/ in.on = 0 \/ ~in.present \/ phase' = "index"
        BY <1>1 DEF Check, Supported, Promise!Supported
    <2> QED BY <2>1, <1>1 DEF Check, Promise!Fail, Promise!Internal, Promise!Running
<1>2. CASE IndexRow \/ IndexBuilt
    BY <1>2 DEF IndexRow, IndexBuilt, Promise!Internal, Promise!Running
<1>3. CASE ProbeMiss
    <2>1. CASE KeepsLeft
        BY <2>1, <1>3, EmitStep DEF ProbeMiss, WithLeftOnly
    <2>2. CASE ~KeepsLeft
        BY <2>2, <1>3 DEF ProbeMiss, WithLeftOnly, Promise!Internal, Promise!Running
    <2> QED BY <2>1, <2>2
<1>4. CASE ProbeHit
    <2>1. rhs_index[LeftKey(l)][j] \in RightRows
        <3>1. /\ rhs_index[LeftKey(l)] \in Seq(RightRows)
              /\ j \in 1..Len(rhs_index[LeftKey(l)])
            BY <1>4 DEF ProbeHit, Hits, IInv, TypeOK, OutputProgress
        <3> QED BY <3>1
    <2> QED BY <2>1, <1>4, EmitStep DEF ProbeHit
<1>5. CASE Probed
    <2>1. CASE KeepsRight
        BY <2>1, <1>5 DEF Probed, Promise!Internal, Promise!Running
    <2>2. CASE ~KeepsRight BY <2>2, <1>5, FinishStep DEF Probed
    <2> QED BY <2>1, <2>2
<1>6. CASE RightOnly
    <2>1. CASE r \in right_matched
        BY <2>1, <1>6 DEF RightOnly, Promise!Internal, Promise!Running
    <2>2. CASE r \notin right_matched /\ in.sameType
        BY <2>2, <1>6, EmitStep DEF RightOnly
    <2>3. CASE r \notin right_matched /\ ~in.sameType
        <3>1. Promise!KeepsRight
            BY <1>6 DEF RightOnly, IInv, OutputProgress, KeepsRight, Promise!KeepsRight
        <3> QED BY <3>1, <2>3, <1>6 DEF RightOnly, Promise!Fail, Promise!Running
    <2> QED BY <2>1, <2>2, <2>3
<1>7. CASE Return
    BY <1>7, FinishStep DEF Return
<1>8. CASE UNCHANGED vars
    BY <1>8 DEF vars, Promise!vars
<1> QED BY <1>1, <1>2, <1>3, <1>4, <1>5, <1>6, <1>7, <1>8 DEF Next

\* EagerDataFrame::join implements the relational join for all tables and modes on
\* which rowKey is unambiguous.
THEOREM JoinRefinement == Spec => ImplementsRelationalJoin
<1>1. Init => Promise!Init BY DEF Init, Promise!Init, Promise!Running
<1>2. IInv /\ IInv' /\ [Next]_vars => [Promise!Next]_(Promise!vars) BY RefineStep
<1> QED
    BY <1>1, <1>2, JoinInvariant, PTL DEF Spec, ImplementsRelationalJoin, Promise!Spec
=============================================================================
