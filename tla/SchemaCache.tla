----------------------------- MODULE SchemaCache -----------------------------
(***************************************************************************)
(* The process-wide cache of file headers in scanOutputColumns, shared by  *)
(* the collect() calls of many threads.  A mutex guards the map, but it is *)
(* released while the header is read, and nothing ever removes an entry.   *)
(* Other programs, or sink_csv, may rewrite a file at any moment.          *)
(* A thread is one collect() call; how long it waits for its first lock is *)
(* when it was called.                                                     *)
(*                                                                         *)
(* A header is a set of columns; the empty one stands for a file that      *)
(* cannot be read.  An entry of the cache is a set of at most one header.  *)
(***************************************************************************)
EXTENDS Naturals

CONSTANTS
    Threads, Paths, Columns,
    Needs,        \* the sets of columns that the operators above a scan may read
    Nobody,       \* the owner of a free mutex
    Asks,         \* rounds of one optimize(), each of which projects the scan
    MaxRewrites   \* bound: times a file is rewritten

ASSUME NobodyAssumption == Nobody \notin Threads
ASSUME NeedsAssumption == Needs \subseteq SUBSET Columns
ASSUME BoundsAssumption == Asks \in Nat \ {0} /\ MaxRewrites \in Nat

VARIABLES
    file,      \* path -> the columns of the file as it is now
    cache,     \* path -> the cached header, if there is one
    owner,     \* the thread that holds cache_mu
    pc,        \* thread -> where it is
    path,      \* thread -> the path its plan scans
    required,  \* thread -> the columns the operators above the scan read
    cols,      \* thread -> the header it has read and not stored
    asked,     \* thread -> how often it has asked
    wanted,    \* thread -> projected_columns of its scan; empty for every column
    got,       \* thread -> the columns the scan delivered
    had,       \* path -> the headers the file has had: only the properties read it
    rewrites

local  == <<path, required, cols, asked, wanted, got>>
vars   == <<file, cache, owner, pc, local, had, rewrites>>

Headers == SUBSET Columns

Init ==
    /\ file \in [Paths -> Headers]
    /\ cache = [p \in Paths |-> {}]
    /\ owner = Nobody
    /\ pc = [t \in Threads |-> "ask"]
    /\ path \in [Threads -> Paths]
    /\ required \in [Threads -> Needs]
    /\ cols = [t \in Threads |-> {}]
    /\ asked = [t \in Threads |-> 0]
    /\ wanted = [t \in Threads |-> {}]
    /\ got = [t \in Threads |-> {}]
    /\ had = [p \in Paths |-> {file[p]}]
    /\ rewrites = 0

Step(t, from, to) == pc[t] = from /\ pc' = [pc EXCEPT ![t] = to]

CanLockAlways == TRUE                                                      \* mutant

CanLock == owner = Nobody

KeepsLock(t) == t                                                          \* mutant

\* The owner once thread t has left the scope of its lock_guard.
Unlocked(t) == Nobody

KeyWithoutPath(t) == CHOOSE p \in Paths : TRUE                             \* mutant

key(t) == path[t]

\* projected_columns of the scan, given the file's columns as far as they are known.
Project(need, columns, projected) ==
    IF need \cap columns = {} THEN projected ELSE need \cap columns

\* scanOutputColumns returns h, the scan is projected, and the round is over.
Return(t, h) ==
    /\ asked' = [asked EXCEPT ![t] = @ + 1]
    /\ wanted' = [wanted EXCEPT ![t] = Project(required[t], h, @)]

OneMore(t) == IF asked[t] = Asks THEN "run" ELSE "ask"                     \* mutant

AfterReturn(t) == IF asked[t] + 1 = Asks THEN "run" ELSE "ask"

-----------------------------------------------------------------------------
\* lock_guard, at the lookup and at the store.
Lock(t) ==
    /\ CanLock
    /\ owner' = t
    /\ Step(t, "ask", "find") \/ Step(t, "read", "store")
    /\ UNCHANGED <<file, cache, local, had, rewrites>>

Find(t) ==
    /\ owner' = Unlocked(t)
    /\ \/ /\ cache[key(t)] = {}
          /\ Step(t, "find", "open")
          /\ UNCHANGED <<asked, wanted>>
       \/ \E h \in cache[key(t)] :
          /\ Step(t, "find", AfterReturn(t))
          /\ Return(t, h)
    /\ UNCHANGED <<file, cache, path, required, cols, got, had, rewrites>>

\* readCsvHeader, readParquetColumns: without the lock, and opening may fail.
Read(t) ==
    /\ Step(t, "open", "read")
    /\ cols' \in {[cols EXCEPT ![t] = h] : h \in {file[path[t]], {}}}
    /\ UNCHANGED <<file, cache, owner, path, required, asked, wanted, got,
                   had, rewrites>>

Store(t) ==
    /\ Step(t, "store", AfterReturn(t))
    /\ cache' = [cache EXCEPT ![key(t)] = {cols[t]}]
    /\ owner' = Unlocked(t)
    /\ Return(t, cols[t])
    /\ cols' = [cols EXCEPT ![t] = {}]
    /\ UNCHANGED <<file, path, required, got, had, rewrites>>

OnlyPresent(projected, columns) == projected \cap columns                  \* mutant

\* runScan: the projected columns the file has, every column if it has none of them.
Present(projected, columns) ==
    IF projected \cap columns = {} THEN columns ELSE projected \cap columns

Run(t) ==
    /\ file[path[t]] # {}
    /\ Step(t, "run", "done")
    /\ got' = [got EXCEPT ![t] = Present(wanted[t], file[path[t]])]
    /\ UNCHANGED <<file, cache, owner, path, required, cols, asked, wanted,
                   had, rewrites>>

\* The file cannot be opened: executePlan throws.
RunFails(t) ==
    /\ file[path[t]] = {}
    /\ Step(t, "run", "failed")
    /\ UNCHANGED <<file, cache, owner, local, had, rewrites>>

Rewrite(p, h) ==
    /\ rewrites < MaxRewrites
    /\ file' = [file EXCEPT ![p] = h]
    /\ had' = [had EXCEPT ![p] = @ \cup {h}]
    /\ rewrites' = rewrites + 1
    /\ UNCHANGED <<cache, owner, pc, local>>

Collect(t) ==
    Lock(t) \/ Find(t) \/ Read(t) \/ Store(t) \/ Run(t) \/ RunFails(t)

Next ==
    \/ \E t \in Threads : Collect(t)
    \/ \E p \in Paths, h \in Headers : Rewrite(p, h)

Spec == Init /\ [][Next]_vars

\* A thread that can go on does.  Lock acquisition needs no more than that: a thread
\* takes the mutex 2 * Asks times at most, so the others find it free for good.
FairSpec == Spec /\ \A t \in Threads : WF_vars(Collect(t))

-----------------------------------------------------------------------------
Locals == {"ask", "find", "open", "read", "store", "run", "done", "failed"}

TypeOK ==
    /\ file \in [Paths -> Headers]
    /\ cache \in [Paths -> SUBSET Headers]
    /\ owner \in Threads \cup {Nobody}
    /\ pc \in [Threads -> Locals]
    /\ path \in [Threads -> Paths]
    /\ required \in [Threads -> Needs]
    /\ cols \in [Threads -> Headers]
    /\ asked \in [Threads -> 0..Asks]
    /\ wanted \in [Threads -> Headers]
    /\ got \in [Threads -> Headers]
    /\ had \in [Paths -> SUBSET Headers]
    /\ rewrites \in 0..MaxRewrites

\* The map is only touched under cache_mu, by one thread at a time: the mutex is held
\* exactly while its owner looks up or stores, on every path out of both scopes.
MutualExclusion == \A t \in Threads : pc[t] \in {"find", "store"} <=> owner = t

\* Whatever two threads that both missed, and a rewrite in between, leave in the cache,
\* it is a header this very file has had, or the empty one of a failed open.
Honest ==
    /\ \A p \in Paths : cache[p] \subseteq had[p] \cup {{}}
    /\ \A t \in Threads : cols[t] \in had[path[t]] \cup {{}}

\* The columns a file has in each version in which it can be read.
Lasting(p) == {c \in Columns : \A h \in had[p] : h # {} => c \in h}

\* A stale header never costs a column the file has always had: whatever the races, a
\* plan is handed each lasting column that it reads.  For a file that is not rewritten
\* those are all the columns it reads.
LastingDelivered ==
    \A t \in Threads : pc[t] = "done" => required[t] \cap Lasting(path[t]) \subseteq got[t]

\* Every collect() comes to an end: no thread waits for the mutex for good.
Finishes == \A t \in Threads : pc[t] = "ask" ~> pc[t] \in {"done", "failed"}
=============================================================================
