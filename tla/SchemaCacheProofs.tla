-------------------------- MODULE SchemaCacheProofs --------------------------
(***************************************************************************)
(* Theorems about SchemaCache, for any number of threads, files, columns   *)
(* and rewrites.                                                           *)
(***************************************************************************)
EXTENDS SchemaCache, TLAPS

\* The file as it is now is one of its versions.
Recorded == \A p \in Paths : file[p] \in had[p]

\* A scan that is projected at all is projected to every lasting column that is read.
LastingWanted ==
    \A t \in Threads : wanted[t] = {} \/ required[t] \cap Lasting(path[t]) \subseteq wanted[t]

\* A thread that is not done asking has a round left: what bounds asked.
RoundsLeft ==
    \A t \in Threads : pc[t] \in {"ask", "find", "open", "read", "store"} => asked[t] < Asks

Typed == TypeOK /\ RoundsLeft

IInv == Typed /\ MutualExclusion /\ Recorded /\ Honest /\ LastingWanted /\ LastingDelivered

\* The headers some version of p had, and the empty one.
Known(p) == had[p] \cup {{}}

\* An honest header keeps a projection complete.
LEMMA ProjectKeepsLasting ==
    ASSUME NEW p, NEW h \in Known(p), NEW R, NEW w,
           w = {} \/ R \cap Lasting(p) \subseteq w
    PROVE  LET v == Project(R, h, w) IN v = {} \/ R \cap Lasting(p) \subseteq v
  BY DEF Known, Project, Lasting

\* A complete projection, run on any version of the file, delivers the lasting columns.
LEMMA PresentKeepsLasting ==
    ASSUME NEW p, NEW h \in had[p], h # {}, NEW R, NEW w,
           w = {} \/ R \cap Lasting(p) \subseteq w
    PROVE  R \cap Lasting(p) \subseteq Present(w, h)
<1>1. Lasting(p) \subseteq h
  BY DEF Lasting
<1>2. CASE w \cap h = {}
  BY <1>1, <1>2 DEF Present
<1>3. CASE w \cap h # {}
  BY <1>1, <1>3 DEF Present
<1> QED
  BY <1>2, <1>3

-----------------------------------------------------------------------------
\* Types, and the rounds that are left.

LEMMA TypedInit == Init => Typed
<1> SUFFICES ASSUME Init PROVE Typed
  OBVIOUS
<1> USE DEF Init
<1>1. cache \in [Paths -> SUBSET Headers] /\ had \in [Paths -> SUBSET Headers]
  BY DEF Headers
<1>2. /\ pc \in [Threads -> Locals] /\ asked \in [Threads -> 0..Asks]
      /\ rewrites \in 0..MaxRewrites /\ owner \in Threads \cup {Nobody}
  BY BoundsAssumption DEF Locals
<1>3. /\ cols \in [Threads -> Headers] /\ wanted \in [Threads -> Headers]
      /\ got \in [Threads -> Headers]
  BY DEF Headers
<1>4. RoundsLeft
  BY BoundsAssumption DEF RoundsLeft
<1> QED
  BY <1>1, <1>2, <1>3, <1>4 DEF TypeOK, Typed

\* A round that ends counts as one, whatever header it got.
LEMMA TypedReturn ==
    ASSUME Typed, NEW t \in Threads, NEW h \in Headers, NEW from \in {"find", "store"},
           Step(t, from, AfterReturn(t)), Return(t, h)
    PROVE  /\ pc' \in [Threads -> Locals] /\ asked' \in [Threads -> 0..Asks]
           /\ wanted' \in [Threads -> Headers] /\ RoundsLeft'
<1> USE DEF Typed, TypeOK
<1>1. asked[t] < Asks /\ asked[t] \in Nat /\ Asks \in Nat
  BY BoundsAssumption DEF Step, RoundsLeft
<1>2. AfterReturn(t) \in Locals
  BY DEF AfterReturn, Locals
<1>3. pc' \in [Threads -> Locals]
  BY <1>2 DEF Step
<1>4. asked' \in [Threads -> 0..Asks]
  BY <1>1 DEF Return
<1>5. Project(required[t], h, wanted[t]) \in Headers
  BY DEF Project, Headers
<1>6. wanted' \in [Threads -> Headers]
  BY <1>5 DEF Return
<1>7. ASSUME NEW u \in Threads, pc'[u] \in {"ask", "find", "open", "read", "store"}
      PROVE  asked'[u] < Asks
  <2>1. CASE u = t
    <3>1. pc'[t] = AfterReturn(t)
      BY DEF Step
    <3>2. asked[t] + 1 # Asks
      BY <3>1, <2>1, <1>7 DEF AfterReturn
    <3>3. asked'[t] = asked[t] + 1
      BY DEF Return
    <3> QED
      BY <3>2, <3>3, <1>1, <2>1
  <2>2. CASE u # t
    <3>1. pc'[u] = pc[u] /\ asked'[u] = asked[u]
      BY <2>2 DEF Step, Return
    <3> QED
      BY <3>1, <1>7 DEF RoundsLeft
  <2> QED
    BY <2>1, <2>2
<1> QED
  BY <1>3, <1>4, <1>6, <1>7 DEF RoundsLeft

LEMMA TypedStep == Typed /\ [Next]_vars => Typed'
<1> SUFFICES ASSUME Typed, [Next]_vars PROVE Typed'
  OBVIOUS
<1> USE DEF Typed, TypeOK
<1>1. ASSUME NEW t \in Threads, Lock(t) PROVE Typed'
  BY <1>1 DEF Lock, local, Step, RoundsLeft, Locals
<1>2. ASSUME NEW t \in Threads, Find(t) PROVE Typed'
  <2>1. owner' \in Threads \cup {Nobody}
    BY <1>2 DEF Find, Unlocked
  <2>2. CASE Step(t, "find", "open") /\ UNCHANGED <<asked, wanted>>
    BY <1>2, <2>1, <2>2 DEF Find, Step, RoundsLeft, Locals
  <2>3. ASSUME NEW h \in cache[key(t)], Step(t, "find", AfterReturn(t)), Return(t, h)
        PROVE  Typed'
    <3>1. h \in Headers
      BY DEF key
    <3>2. /\ pc' \in [Threads -> Locals] /\ asked' \in [Threads -> 0..Asks]
          /\ wanted' \in [Threads -> Headers] /\ RoundsLeft'
      BY <2>3, <3>1, TypedReturn
    <3> QED
      BY <1>2, <2>1, <3>2 DEF Find
  <2> QED
    BY <1>2, <2>2, <2>3 DEF Find
<1>3. ASSUME NEW t \in Threads, Read(t) PROVE Typed'
  <2>1. PICK h \in {file[path[t]], {}} : cols' = [cols EXCEPT ![t] = h]
    BY <1>3 DEF Read
  <2>2. h \in Headers
    BY DEF Headers
  <2>3. cols' \in [Threads -> Headers]
    BY <2>1, <2>2
  <2> QED
    BY <1>3, <2>3 DEF Read, Step, RoundsLeft, Locals
<1>4. ASSUME NEW t \in Threads, Store(t) PROVE Typed'
  <2>1. owner' \in Threads \cup {Nobody}
    BY <1>4 DEF Store, Unlocked
  <2>2. /\ pc' \in [Threads -> Locals] /\ asked' \in [Threads -> 0..Asks]
        /\ wanted' \in [Threads -> Headers] /\ RoundsLeft'
    <3>1. cols[t] \in Headers /\ Step(t, "store", AfterReturn(t)) /\ Return(t, cols[t])
      BY <1>4 DEF Store
    <3> QED
      BY <3>1, TypedReturn
  <2>3. cache' \in [Paths -> SUBSET Headers]
    BY <1>4 DEF Store, key
  <2>4. cols' \in [Threads -> Headers]
    BY <1>4 DEF Store, Headers
  <2> QED
    BY <1>4, <2>1, <2>2, <2>3, <2>4 DEF Store
<1>5. ASSUME NEW t \in Threads, Run(t) PROVE Typed'
  <2>1. Present(wanted[t], file[path[t]]) \in Headers
    BY DEF Present, Headers
  <2> QED
    BY <1>5, <2>1 DEF Run, Step, RoundsLeft, Locals
<1>6. ASSUME NEW t \in Threads, RunFails(t) PROVE Typed'
  BY <1>6 DEF RunFails, local, Step, RoundsLeft, Locals
<1>7. ASSUME NEW p \in Paths, NEW h \in Headers, Rewrite(p, h) PROVE Typed'
  <2>1. rewrites' \in 0..MaxRewrites
    BY <1>7, BoundsAssumption DEF Rewrite
  <2>2. file' \in [Paths -> Headers] /\ had' \in [Paths -> SUBSET Headers]
    BY <1>7 DEF Rewrite
  <2> QED
    BY <1>7, <2>1, <2>2 DEF Rewrite, local, RoundsLeft
<1>8. CASE UNCHANGED vars
  BY <1>8 DEF vars, local, RoundsLeft
<1> QED
  BY <1>1, <1>2, <1>3, <1>4, <1>5, <1>6, <1>7, <1>8 DEF Next, Collect

-----------------------------------------------------------------------------
\* The mutex.

LEMMA MutexStep == Typed /\ MutualExclusion /\ [Next]_vars => MutualExclusion'
<1> SUFFICES ASSUME Typed, MutualExclusion, [Next]_vars PROVE MutualExclusion'
  OBVIOUS
<1> USE NobodyAssumption DEF Typed, TypeOK, MutualExclusion
<1>1. ASSUME NEW t \in Threads, Lock(t) PROVE MutualExclusion'
  BY <1>1 DEF Lock, CanLock, Step
<1>2. ASSUME NEW t \in Threads, owner' = Unlocked(t), pc[t] \in {"find", "store"},
             NEW to \in {"open", AfterReturn(t)}, pc' = [pc EXCEPT ![t] = to]
      PROVE  MutualExclusion'
  <2>1. to \notin {"find", "store"}
    BY DEF AfterReturn
  <2> QED
    BY <1>2, <2>1 DEF Unlocked
<1>3. ASSUME NEW t \in Threads, Find(t) PROVE MutualExclusion'
  BY <1>2, <1>3 DEF Find, Step
<1>4. ASSUME NEW t \in Threads, Read(t) PROVE MutualExclusion'
  BY <1>4 DEF Read, Step
<1>5. ASSUME NEW t \in Threads, Store(t) PROVE MutualExclusion'
  BY <1>2, <1>5 DEF Store, Step
<1>6. ASSUME NEW t \in Threads, Run(t) \/ RunFails(t) PROVE MutualExclusion'
  BY <1>6 DEF Run, RunFails, Step
<1>7. ASSUME NEW p \in Paths, NEW h \in Headers, Rewrite(p, h) PROVE MutualExclusion'
  BY <1>7 DEF Rewrite
<1>8. CASE UNCHANGED vars
  BY <1>8 DEF vars
<1> QED
  BY <1>1, <1>3, <1>4, <1>5, <1>6, <1>7, <1>8 DEF Next, Collect

-----------------------------------------------------------------------------
\* What is in the cache, and what reaches the plans.

LEMMA HonestStep == Typed /\ Recorded /\ Honest /\ [Next]_vars => Recorded' /\ Honest'
<1> SUFFICES ASSUME Typed, Recorded, Honest, [Next]_vars PROVE Recorded' /\ Honest'
  OBVIOUS
<1> USE DEF Typed, TypeOK, Recorded, Honest
<1>1. ASSUME NEW t \in Threads, Lock(t) PROVE Recorded' /\ Honest'
  BY <1>1 DEF Lock, local
<1>2. ASSUME NEW t \in Threads, Find(t) PROVE Recorded' /\ Honest'
  BY <1>2 DEF Find
<1>3. ASSUME NEW t \in Threads, Read(t) PROVE Recorded' /\ Honest'
  BY <1>3 DEF Read
<1>4. ASSUME NEW t \in Threads, Store(t) PROVE Recorded' /\ Honest'
  BY <1>4 DEF Store, key
<1>5. ASSUME NEW t \in Threads, Run(t) \/ RunFails(t) PROVE Recorded' /\ Honest'
  BY <1>5 DEF Run, RunFails, local
<1>6. ASSUME NEW p \in Paths, NEW h \in Headers, Rewrite(p, h) PROVE Recorded' /\ Honest'
  BY <1>6 DEF Rewrite, local
<1>7. CASE UNCHANGED vars
  BY <1>7 DEF vars, local
<1> QED
  BY <1>1, <1>2, <1>3, <1>4, <1>5, <1>6, <1>7 DEF Next, Collect

\* A file's versions only get more, and so its lasting columns fewer.
LEMMA LastingShrinks ==
    ASSUME Typed, [Next]_vars, NEW p \in Paths
    PROVE  Lasting(p)' \subseteq Lasting(p)
<1>1. had[p] \subseteq had'[p]
  <2>1. CASE had' = had
    BY <2>1
  <2>2. ASSUME NEW q \in Paths, NEW h \in Headers, Rewrite(q, h) PROVE had[p] \subseteq had'[p]
    BY <2>2 DEF Rewrite, Typed, TypeOK
  <2> QED
    BY <2>1, <2>2 DEF Next, Collect, vars, Lock, Find, Read, Store, Run, RunFails
<1> QED
  BY <1>1 DEF Lasting

LEMMA LastingStep ==
    IInv /\ [Next]_vars => LastingWanted' /\ LastingDelivered'
<1> SUFFICES ASSUME IInv, [Next]_vars PROVE LastingWanted' /\ LastingDelivered'
  OBVIOUS
<1> USE DEF IInv, Typed, TypeOK
<1> DEFINE Complete(t) == wanted[t] = {} \/ required[t] \cap Lasting(path[t]) \subseteq wanted[t]
           Delivered(t) == pc[t] = "done" => required[t] \cap Lasting(path[t]) \subseteq got[t]
<1>1. /\ path' = path /\ required' = required
      /\ \A p \in Paths : Lasting(p)' \subseteq Lasting(p)
  <2>1. path' = path /\ required' = required
    BY DEF Next, Collect, vars, local, Lock, Find, Read, Store, Run, RunFails, Rewrite
  <2> QED
    BY <2>1, LastingShrinks
<1>2. ASSUME NEW t \in Threads
      PROVE  path[t] \in Paths /\ Lasting(path[t])' \subseteq Lasting(path[t])
  BY <1>1 DEF Lasting
<1>3. ASSUME NEW t \in Threads, wanted'[t] = wanted[t] PROVE Complete(t)'
  BY <1>1, <1>2, <1>3 DEF LastingWanted
<1>4. ASSUME NEW t \in Threads, got'[t] = got[t], pc'[t] = pc[t] \/ pc'[t] # "done"
      PROVE  Delivered(t)'
  BY <1>1, <1>2, <1>4 DEF LastingDelivered
<1>5. ASSUME NEW t \in Threads, NEW h \in Known(path[t]), Return(t, h)
      PROVE  Complete(t)'
  <2>1. wanted'[t] = Project(required[t], h, wanted[t])
    BY <1>5 DEF Return
  <2>2. wanted'[t] = {} \/ required[t] \cap Lasting(path[t]) \subseteq wanted'[t]
    BY <2>1, <1>5, ProjectKeepsLasting DEF LastingWanted
  <2> QED
    BY <2>2, <1>1, <1>2
<1>6. ASSUME NEW t \in Threads, Find(t) \/ Store(t) PROVE Complete(t)'
  <2>1. CASE UNCHANGED wanted
    BY <2>1, <1>3
  <2>2. ASSUME NEW h \in cache[key(t)], Return(t, h) PROVE Complete(t)'
    BY <2>2, <1>5 DEF key, Known, Honest
  <2>3. CASE Return(t, cols[t])
    BY <2>3, <1>5 DEF Known, Honest
  <2> QED
    BY <1>6, <2>1, <2>2, <2>3 DEF Find, Store
<1>7. ASSUME NEW t \in Threads, Run(t) PROVE Delivered(t)'
  <2>1. got'[t] = Present(wanted[t], file[path[t]])
    BY <1>7 DEF Run
  <2>2. file[path[t]] \in had[path[t]] /\ file[path[t]] # {}
    BY <1>7 DEF Run, Recorded
  <2>3. required[t] \cap Lasting(path[t]) \subseteq got'[t]
    BY <2>1, <2>2, PresentKeepsLasting DEF LastingWanted
  <2> QED
    BY <2>3, <1>1, <1>2
<1>8. ASSUME NEW t \in Threads, Collect(t), NEW u \in Threads
      PROVE  Complete(u)' /\ Delivered(u)'
  <2>1. CASE u = t /\ (Find(t) \/ Store(t))
    <3>1. got'[t] = got[t] /\ pc'[t] # "done"
      BY <2>1 DEF Find, Store, Step, AfterReturn
    <3> QED
      BY <2>1, <3>1, <1>4, <1>6
  <2>2. CASE u = t /\ Run(t)
    BY <2>2, <1>3, <1>7 DEF Run
  <2>3. CASE u = t /\ (Lock(t) \/ Read(t) \/ RunFails(t))
    <3>1. got'[t] = got[t] /\ wanted'[t] = wanted[t] /\ pc'[t] # "done"
      BY <2>3 DEF Lock, Read, RunFails, local, Step
    <3> QED
      BY <2>3, <3>1, <1>3, <1>4
  <2>4. CASE u # t
    <3>1. got'[u] = got[u] /\ wanted'[u] = wanted[u] /\ pc'[u] = pc[u]
      BY <1>8, <2>4 DEF Collect, Lock, Find, Read, Store, Run, RunFails, Return, local, Step
    <3> QED
      BY <3>1, <1>3, <1>4
  <2> QED
    BY <1>8, <2>1, <2>2, <2>3, <2>4 DEF Collect
<1>9. CASE (\E p \in Paths, h \in Headers : Rewrite(p, h)) \/ UNCHANGED vars
  <2>1. UNCHANGED <<got, wanted, pc>>
    BY <1>9 DEF Rewrite, vars, local
  <2> QED
    BY <2>1, <1>3, <1>4 DEF LastingWanted, LastingDelivered
<1> QED
  BY <1>8, <1>9 DEF Next, LastingWanted, LastingDelivered

-----------------------------------------------------------------------------
LEMMA InvInit == Init => IInv
<1> SUFFICES ASSUME Init PROVE IInv
  OBVIOUS
<1>1. Typed
  BY TypedInit
<1>2. MutualExclusion
  BY NobodyAssumption DEF Init, MutualExclusion
<1>3. Recorded /\ Honest
  BY DEF Init, Recorded, Honest
<1>4. LastingWanted /\ LastingDelivered
  BY DEF Init, LastingWanted, LastingDelivered
<1> QED
  BY <1>1, <1>2, <1>3, <1>4 DEF IInv

\* The inductive invariant, of every interleaving.
THEOREM CacheInvariant == Spec => []IInv
<1>1. IInv /\ [Next]_vars => IInv'
  BY TypedStep, MutexStep, HonestStep, LastingStep DEF IInv
<1> QED
  BY InvInit, <1>1, PTL DEF Spec

\* Every variable keeps its type, and no optimize() asks more often than it has rounds.
THEOREM CacheTypeCorrect == Spec => []TypeOK
<1>1. IInv => TypeOK
  BY DEF IInv, Typed
<1> QED
  BY CacheInvariant, <1>1, PTL

\* scanOutputColumns touches its map under the mutex only, one thread at a time.
THEOREM CacheMutualExclusion == Spec => []MutualExclusion
<1>1. IInv => MutualExclusion
  BY DEF IInv
<1> QED
  BY CacheInvariant, <1>1, PTL

\* Whatever the races, an entry is a header of its own file, or the empty one.
THEOREM CacheHonest == Spec => []Honest
<1>1. IInv => Honest
  BY DEF IInv
<1> QED
  BY CacheInvariant, <1>1, PTL

\* A stale entry never costs a plan a column that the file has had all along.
THEOREM CacheLastingDelivered == Spec => []LastingDelivered
<1>1. IInv => LastingDelivered
  BY DEF IInv
<1> QED
  BY CacheInvariant, <1>1, PTL
=============================================================================
