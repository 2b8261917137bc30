-------------------------- MODULE MergeTypeProofs ---------------------------
(***************************************************************************)
(* What the actions of MergeScheduler do to its variables, for any number of *)
(* threads, documents and merges: the inductive invariant, the lemmas about *)
(* sequences and counts it needs, and that a step keeps the types.         *)
(***************************************************************************)
EXTENDS MergeScheduler, FiniteSetTheorems, TLAPS

Taken == {m \in MergeIds : pc[m] \in {"new", "merging", "ran"}}

\* The merges registered have the first identities, and a merge is queued
\* once, before it is taken.
QueueInv ==
    /\ \E k \in 0..MaxMerges : \A m \in MergeIds : group[m] # {} <=> m <= k
    /\ \A i, j \in DOMAIN pending : i # j => pending[i] # pending[j]
    /\ \A m \in Range(pending) : pc[m] = "none"
    /\ \A m \in MergeIds : pc[m] # "none" \/ m \in Range(pending) => group[m] # {}

\* A claim lasts as long as its merge; no claimed segment leaves the view but by
\* its merge or by a drop.
ClaimInv ==
    /\ \A m \in Holding : group[m] \subseteq merging
    /\ \A m, n \in Holding : m # n => group[m] \intersect group[n] = {}
    /\ drops = 0 => /\ \A s \in merging : \E m \in Holding : s \in group[m]
                    /\ \A m \in Holding : group[m] \subseteq segs

\* The documents of the view have all been added.
AddedInv == \A s \in segs : s \subseteq added

\* A force merge holds merges back from its call to its body.
PauseInv ==
    \A t \in Threads : pc[t] \in {"exclusive", "await"} /\ job[t] = "force_merge" => t \in paused_by

\* The merges that have begun, and those among them that were aborted.
RunningInv ==
    /\ \A m \in MergeIds : m \in running <=> pc[m] \in {"merging", "ran"}
    /\ \A m \in aborted : pc[m] \notin {"none", "new"}

\* Who is at one of these labels holds the scheduler's lock.
MonitorInv == \A a \in Actors : pc[a] \in {"check", "pop", "leave", "serial"} => monitor = a

\* The listed threads, and the ones among them at rate zero.
ListInv ==
    /\ \A i, j \in DOMAIN list : i # j => list[i] # list[j]
    /\ Scheduler = "concurrent" =>
         /\ \A m \in MergeIds : m \in Range(list) <=> pc[m] \notin {"none", "dropping", "gone"}
         /\ \A a \in Actors : pc[a] \notin {"serial", "ended"}
    /\ Scheduler = "serial" => list = <<>>
    /\ paused = PausedOf(list)

\* A merge on its caller's thread has its caller waiting for it.
SerialInv ==
    Scheduler = "serial" =>
      /\ \A m \in MergeIds : pc[m] \in {"none", "new", "merging", "ran", "ended"}
      /\ \A m \in Taken : \E t \in Threads : pc[t] = "serial" /\ target[t] = m
      /\ \A t \in Threads : pc[t] \notin {"check", "pop", "stalled", "join"}
      /\ \A t \in Threads : pc[t] = "serial" =>
           target[t] \in MergeIds /\ pc[target[t]] # "none"

\* A merge whose run is over has a result, a failure only where something failed.
ResultInv ==
    /\ \A m \in MergeIds : pc[m] \notin {"none", "new", "merging"} => result[m] # "none"
    /\ failures = 0 /\ drops = 0 =>
         \A m \in MergeIds : pc[m] # "failed" /\ result[m] # "failed"

\* A merge whose caller will return its error.
Doomed(m) ==
    \/ pc[m] = "merging" /\ m \in aborted
    \/ pc[m] \in {"ran", "ended"} /\ result[m] = "aborted"

\* Someone will look at the queue again: an actor of the scheduler, or a thread
\* that waits for the merges in it.
Attended ==
    IF Scheduler = "concurrent"
      THEN \E a \in Actors :
             pc[a] \in {"enter", "stalled", "check", "pop", "new", "merging", "ran", "done"}
      ELSE \E t \in Threads :
             pc[t] \in {"enter", "await"} \/ (pc[t] = "serial" /\ ~Doomed(target[t]))

WorkInv == failures = 0 /\ drops = 0 /\ pending # <<>> => Attended

IInv ==
    /\ TypeOK /\ QueueInv /\ ClaimInv /\ AddedInv /\ PauseInv /\ RunningInv /\ MonitorInv
    /\ ListInv /\ SerialInv /\ ResultInv /\ WorkInv
    /\ SleepersHaveAborted /\ NoMergeRegisteredWhileBlocked

-----------------------------------------------------------------------------
(* How many big merges are slowed down *)

Before(sz, j) == {i \in DOMAIN sz : sz[i] > sz[j] \/ (sz[i] = sz[j] /\ i < j)}
BigOnes(sz) == {i \in DOMAIN sz : sz[i] > BigMerge}
Slowed(sz) == {k \in DOMAIN sz : Cardinality(Before(sz, k)) < Cardinality(BigOnes(sz)) - MaxThreadCount}

LEMMA SameCount ==
  ASSUME NEW S, NEW T, IsFiniteSet(S), NEW f \in [S -> T],
         \A x, y \in S : f[x] = f[y] => x = y,
         \A z \in T : \E x \in S : f[x] = z
  PROVE  IsFiniteSet(T) /\ Cardinality(T) = Cardinality(S)
<1>1. f \in Bijection(S, T)
  BY Zenon DEF Bijection, Injection, Surjection, IsInjective
<1>2. ExistsBijection(S, T)
  BY <1>1, Zenon DEF ExistsBijection
<1>3. QED
  BY <1>2, FS_Bijection, Zenon

LEMMA BeforeSets ==
  ASSUME NEW n \in Nat, NEW sz \in [1..n -> Nat]
  PROVE  /\ IsFiniteSet(1..n)
         /\ \A j \in 1..n : /\ IsFiniteSet(Before(sz, j)) /\ Cardinality(Before(sz, j)) \in Nat
                            /\ j \notin Before(sz, j)
         /\ IsFiniteSet(BigOnes(sz)) /\ Cardinality(BigOnes(sz)) \in Nat
         /\ BigOnes(sz) \subseteq 1..n
<1>1. IsFiniteSet(1..n)
  BY FS_Interval
<1>2. \A j \in 1..n : Before(sz, j) \subseteq 1..n /\ j \notin Before(sz, j)
  BY DEF Before
<1>3. BigOnes(sz) \subseteq 1..n
  BY Zenon DEF BigOnes
<1>4. QED
  BY <1>1, <1>2, <1>3, FS_Subset, FS_CardinalityType, Zenon

\* Of two listed threads, the one that comes before has fewer before it.
LEMMA BeforeOrders ==
  ASSUME NEW n \in Nat, NEW sz \in [1..n -> Nat], NEW i \in 1..n, NEW j \in 1..n, i \in Before(sz, j)
  PROVE  Cardinality(Before(sz, i)) < Cardinality(Before(sz, j))
<1>1. Before(sz, i) \subseteq Before(sz, j)
  BY DEF Before
<1>2. i \notin Before(sz, i) /\ IsFiniteSet(Before(sz, j)) /\ IsFiniteSet(Before(sz, i))
  BY BeforeSets, Zenon
<1>3. Before(sz, i) # Before(sz, j)
  BY <1>2, Zenon
<1>4. Cardinality(Before(sz, i)) \in Nat /\ Cardinality(Before(sz, j)) \in Nat
  BY BeforeSets, Zenon
<1>5. /\ Cardinality(Before(sz, i)) <= Cardinality(Before(sz, j))
      /\ Cardinality(Before(sz, i)) = Cardinality(Before(sz, j)) => Before(sz, i) = Before(sz, j)
  BY <1>1, <1>2, FS_Subset, Zenon
<1>6. QED
  BY <1>3, <1>4, <1>5

LEMMA BeforeInjective ==
  ASSUME NEW n \in Nat, NEW sz \in [1..n -> Nat], NEW i \in 1..n, NEW j \in 1..n,
         Cardinality(Before(sz, i)) = Cardinality(Before(sz, j))
  PROVE  i = j
<1>1. i \in Before(sz, j) \/ j \in Before(sz, i) \/ i = j
  BY DEF Before
<1>2. Cardinality(Before(sz, i)) \in Nat /\ Cardinality(Before(sz, j)) \in Nat
  BY BeforeSets, Zenon
<1>3. QED
  BY <1>1, <1>2, BeforeOrders

\* The big ones come first.
LEMMA BigFirst ==
  ASSUME NEW n \in Nat, NEW sz \in [1..n -> Nat], NEW j \in 1..n
  PROVE  j \in BigOnes(sz) <=> Cardinality(Before(sz, j)) < Cardinality(BigOnes(sz))
<1>0. BigMerge \in Nat
  BY SchedulerAssumption, Zenon
<1>1. ASSUME j \in BigOnes(sz) PROVE Cardinality(Before(sz, j)) < Cardinality(BigOnes(sz))
  <2>1. Before(sz, j) \subseteq BigOnes(sz)
    BY <1>0, <1>1 DEF Before, BigOnes
  <2>2. Before(sz, j) # BigOnes(sz)
    BY <1>1, BeforeSets, Zenon
  <2>3. QED
    BY <2>1, <2>2, FS_Subset, BeforeSets
<1>2. ASSUME j \notin BigOnes(sz) PROVE Cardinality(BigOnes(sz)) <= Cardinality(Before(sz, j))
  <2>1. BigOnes(sz) \subseteq Before(sz, j)
    BY <1>0, <1>2 DEF Before, BigOnes
  <2>2. QED
    BY <2>1, FS_Subset, BeforeSets, Zenon
<1>3. QED
  BY <1>1, <1>2, BeforeSets

\* The big ones take the places 0..b-1 in this order.
LEMMA BigPlaces ==
  ASSUME NEW n \in Nat, NEW sz \in [1..n -> Nat], NEW b, b = Cardinality(BigOnes(sz)),
         NEW r \in 0..(b - 1)
  PROVE  \E j \in BigOnes(sz) : Cardinality(Before(sz, j)) = r
<1> DEFINE B == BigOnes(sz)
           f == [j \in B |-> Cardinality(Before(sz, j))]
<1>1. b \in Nat /\ IsFiniteSet(B) /\ B \subseteq 1..n
  BY BeforeSets, Zenon
<1>2. \A j \in B : Cardinality(Before(sz, j)) \in 0..(b - 1)
  <2> SUFFICES ASSUME NEW j \in B PROVE Cardinality(Before(sz, j)) \in 0..(b - 1)
    BY Zenon
  <2>1. j \in 1..n /\ Cardinality(Before(sz, j)) \in Nat
    BY <1>1, BeforeSets, Zenon
  <2>2. Cardinality(Before(sz, j)) < b
    BY <2>1, BigFirst, Zenon
  <2>3. QED
    BY <1>1, <2>1, <2>2
<1>3. \A i, j \in B : f[i] = f[j] => i = j
  BY <1>1, BeforeInjective, Zenon
<1>4. f \in Injection(B, 0..(b - 1))
  BY <1>2, <1>3, Zenon DEF Injection, IsInjective
<1>5. IsFiniteSet(0..(b - 1)) /\ Cardinality(0..(b - 1)) = b
  BY <1>1, FS_Interval
<1> HIDE DEF f, B
<1>6. f \in Surjection(B, 0..(b - 1))
  <2>1. Cardinality(B) = b
    BY Zenon DEF B
  <2>2. QED
    BY <1>4, <1>5, <2>1, FS_Injection, Zenon
<1>7. PICK j \in B : f[j] = r
  BY <1>6, Zenon DEF Surjection
<1>8. QED
  BY <1>7, Zenon DEF f, B

LEMMA SlowedCount ==
  ASSUME NEW n \in Nat, NEW sz \in [1..n -> Nat], NEW b, b = Cardinality(BigOnes(sz))
  PROVE  /\ IsFiniteSet(BigOnes(sz) \ Slowed(sz))
         /\ Cardinality(BigOnes(sz) \ Slowed(sz)) = IF b <= MaxThreadCount THEN b ELSE MaxThreadCount
<1> DEFINE B == BigOnes(sz)
           rank(j) == Cardinality(Before(sz, j))
<1>0. b \in Nat /\ IsFiniteSet(B) /\ B \subseteq 1..n /\ MaxThreadCount \in Nat
      /\ \A j \in 1..n : rank(j) \in Nat
  BY BeforeSets, SchedulerAssumption, Zenon
<1>f. IsFiniteSet(B \ Slowed(sz))
  BY <1>0, FS_Subset
<1>1. CASE b <= MaxThreadCount
  <2>1. Slowed(sz) = {}
    BY <1>0, <1>1 DEF Slowed
  <2>2. B \ Slowed(sz) = B
    BY <2>1, Zenon
  <2>3. QED
    BY <1>1, <1>f, <2>2, Zenon
<1>2. CASE ~(b <= MaxThreadCount)
  <2> DEFINE U == B \ Slowed(sz)
             T == (b - MaxThreadCount)..(b - 1)
             f == [j \in U |-> rank(j)]
  <2>1. \A j \in U : j \in 1..n /\ rank(j) >= b - MaxThreadCount /\ rank(j) < b /\ rank(j) \in Nat
    <3> SUFFICES ASSUME NEW j \in U
                 PROVE  j \in 1..n /\ rank(j) >= b - MaxThreadCount /\ rank(j) < b /\ rank(j) \in Nat
      BY Zenon
    <3>1. j \in 1..n /\ j \in B /\ j \notin Slowed(sz) /\ rank(j) \in Nat
      BY <1>0, Zenon
    <3>2. rank(j) < b
      BY <3>1, BigFirst, Zenon
    <3>3. ~(rank(j) < b - MaxThreadCount)
      BY <3>1, Zenon DEF Slowed
    <3>4. QED
      BY <1>0, <3>1, <3>2, <3>3
  <2>2. f \in [U -> T]
    BY <1>0, <2>1
  <2>3. \A i, j \in U : f[i] = f[j] => i = j
    BY <2>1, BeforeInjective, Zenon
  <2>4. ASSUME NEW z \in T PROVE \E j \in U : f[j] = z
    <3>1. z \in 0..(b - 1) /\ z >= b - MaxThreadCount
      BY <1>0, <1>2
    <3>2. PICK j \in B : rank(j) = z
      BY <3>1, BigPlaces, Zenon
    <3>3. j \notin Slowed(sz)
      BY <1>0, <3>1, <3>2 DEF Slowed
    <3>4. QED
      BY <3>2, <3>3, Zenon
  <2>5. Cardinality(T) = MaxThreadCount
    <3>1. MaxThreadCount # 0
      BY SchedulerAssumption, Zenon
    <3>2. QED
      BY <1>0, <1>2, <3>1, FS_Interval
  <2> HIDE DEF f, T, U
  <2>6. Cardinality(T) = Cardinality(U)
    <3>1. IsFiniteSet(U)
      BY <1>f, Zenon DEF U
    <3>2. QED
      BY <2>2, <2>3, <2>4, <3>1, SameCount, Zenon
  <2>7. QED
    BY <1>2, <1>f, <2>5, <2>6, Zenon DEF U
<1>3. QED
  BY <1>1, <1>2, Zenon

-----------------------------------------------------------------------------
(* What the actions do to the variables that hold the types *)

PcOK ==
    /\ pc \in [Actors -> ThreadLabels \union MergeLabels]
    /\ \A t \in Threads : pc[t] \in ThreadLabels
    /\ \A m \in MergeIds : pc[m] \in MergeLabels

Fits(a, label) ==
    /\ a \in Threads => label \in ThreadLabels
    /\ a \in MergeIds => label \in MergeLabels

OnlyMoves(a) == \A b \in Actors : b # a => pc'[b] = pc[b]

LEMMA GotoEffect ==
  ASSUME PcOK, NEW a \in Actors, NEW label, Fits(a, label), Goto(a, label)
  PROVE  PcOK' /\ pc'[a] = label /\ OnlyMoves(a)
BY Zenon DEF PcOK, Fits, Goto, OnlyMoves, Actors

LEMMA LabelsFit ==
  /\ \A t \in Threads : \A l \in ThreadLabels : Fits(t, l)
  /\ \A m \in MergeIds : \A l \in MergeLabels : Fits(m, l)
  /\ Threads \subseteq Actors /\ MergeIds \subseteq Actors
  /\ \A t \in Threads : t \notin MergeIds
BY ActorAssumption, Zenon DEF Fits, Actors

LEMMA TwoMove ==
  ASSUME PcOK, NEW a \in Actors, NEW m \in MergeIds, NEW label, Fits(a, label), a # m,
         pc' = [pc EXCEPT ![a] = label, ![m] = "new"]
  PROVE  /\ PcOK' /\ pc'[a] = label /\ pc'[m] = "new"
         /\ \A b \in Actors : b # a /\ b # m => pc'[b] = pc[b]
<1>1. m \in Actors /\ "new" \in MergeLabels
  BY Zenon DEF Actors, MergeLabels
<1>2. QED
  BY <1>1, ActorAssumption, Zenon DEF PcOK, Fits, Actors

Moves(a, label) == PcOK' /\ pc'[a] = label /\ OnlyMoves(a)

LEMMA ScheduleMergesMoves ==
  ASSUME PcOK, NEW t \in Threads, NEW j, ScheduleMerges(t, j)
  PROVE  pc[t] = "idle" /\ Moves(t, "enter")
<1>1. Fits(t, "enter") /\ t \in Actors
  BY LabelsFit, Zenon DEF ThreadLabels
<1>2. QED
  BY <1>1, GotoEffect, Zenon DEF ScheduleMerges, Moves, Calls

LEMMA StopMergesMoves ==
  ASSUME PcOK, NEW t \in Threads, StopMerges(t)
  PROVE  pc[t] = "idle" /\ Moves(t, "stopping")
<1>1. Fits(t, "stopping") /\ t \in Actors
  BY LabelsFit, Zenon DEF ThreadLabels
<1>2. QED
  BY <1>1, GotoEffect, Zenon DEF StopMerges, Moves, Calls

LEMMA CallExclusiveMoves ==
  ASSUME PcOK, NEW t \in Threads, NEW j, CallExclusive(t, j)
  PROVE  pc[t] = "idle" /\ Moves(t, "exclusive")
<1>1. Fits(t, "exclusive") /\ t \in Actors
  BY LabelsFit, Zenon DEF ThreadLabels
<1>2. QED
  BY <1>1, GotoEffect, Zenon DEF CallExclusive, Moves, Calls

LEMMA DropRegisteredMoves ==
  ASSUME PcOK, NEW t \in Threads, DropRegistered(t)
  PROVE  pc[t] = "stopping" /\ Moves(t, "idle")
<1>1. Fits(t, "idle") /\ t \in Actors
  BY LabelsFit, Zenon DEF ThreadLabels
<1>2. QED
  BY <1>1, GotoEffect, Zenon DEF DropRegistered, Moves

LEMMA SerialFailsMoves ==
  ASSUME PcOK, NEW t \in Threads, SerialFails(t)
  PROVE  pc[t] = "serial" /\ Moves(t, "idle")
<1>1. Fits(t, "idle") /\ t \in Actors
  BY LabelsFit, Zenon DEF ThreadLabels
<1>2. QED
  BY <1>1, GotoEffect, Zenon DEF SerialFails, Moves

LEMMA TakeHandleMoves ==
  ASSUME PcOK, NEW t \in Threads, TakeHandle(t)
  PROVE  pc[t] = "sync" /\ Moves(t, "join")
<1>1. Fits(t, "join") /\ t \in Actors
  BY LabelsFit, Zenon DEF ThreadLabels
<1>2. QED
  BY <1>1, GotoEffect, Zenon DEF TakeHandle, Moves

LEMMA JoinMoves ==
  ASSUME PcOK, NEW t \in Threads, Join(t)
  PROVE  pc[t] = "join" /\ Moves(t, "sync")
<1>1. Fits(t, "sync") /\ t \in Actors
  BY LabelsFit, Zenon DEF ThreadLabels
<1>2. QED
  BY <1>1, GotoEffect, Zenon DEF Join, Moves

LEMMA SyncReturnsMoves ==
  ASSUME PcOK, NEW t \in Threads, SyncReturns(t)
  PROVE  pc[t] = "sync" /\ Moves(t, "idle")
<1>1. Fits(t, "idle") /\ t \in Actors
  BY LabelsFit, Zenon DEF ThreadLabels
<1>2. QED
  BY <1>1, GotoEffect, Zenon DEF SyncReturns, Moves

LEMMA BeginMergeMoves ==
  ASSUME PcOK, NEW m \in MergeIds, BeginMerge(m)
  PROVE  pc[m] = "new" /\ Moves(m, "merging")
<1>1. Fits(m, "merging") /\ m \in Actors
  BY LabelsFit, Zenon DEF MergeLabels
<1>2. QED
  BY <1>1, GotoEffect, Zenon DEF BeginMerge, Moves

LEMMA RunMergeMoves ==
  ASSUME PcOK, NEW m \in MergeIds, RunMerge(m)
  PROVE  pc[m] = "merging" /\ Moves(m, "ran")
<1>1. Fits(m, "ran") /\ m \in Actors
  BY LabelsFit, Zenon DEF MergeLabels
<1>2. QED
  BY <1>1, GotoEffect, Zenon DEF RunMerge, Moves

LEMMA DropSourceMoves ==
  ASSUME PcOK, NEW m \in MergeIds, DropSource(m)
  PROVE  pc[m] = "dropping" /\ Moves(m, "gone")
<1>1. Fits(m, "gone") /\ m \in Actors
  BY LabelsFit, Zenon DEF MergeLabels
<1>2. QED
  BY <1>1, GotoEffect, Zenon DEF DropSource, Moves

LEMMA LeaveListMoves ==
  ASSUME PcOK, NEW m \in MergeIds, LeaveList(m)
  PROVE  pc[m] \in {"leave", "failed"} /\ Moves(m, "dropping")
<1>1. Fits(m, "dropping") /\ m \in Actors
  BY LabelsFit, Zenon DEF MergeLabels
<1>2. QED
  BY <1>1, GotoEffect, Zenon DEF LeaveList, Moves

Overs == {"ended", "failed", "done"}

LEMMA OverMoves ==
  ASSUME PcOK, NEW m \in MergeIds, NEW how, Goto(m, Over(how))
  PROVE  /\ Moves(m, Over(how)) /\ Over(how) \in Overs
         /\ Over(how) = "ended" <=> Scheduler = "serial"
         /\ Over(how) = "failed" => how = "failed"
<1>1. /\ Over(how) \in Overs
      /\ Over(how) = "ended" <=> Scheduler = "serial"
      /\ Over(how) = "failed" => how = "failed"
  BY Zenon DEF Over, Overs
<1>2. Fits(m, Over(how)) /\ m \in Actors
  BY <1>1, LabelsFit, Zenon DEF MergeLabels, Overs
<1>3. QED
  BY <1>1, <1>2, GotoEffect, Zenon DEF Moves

LEMMA BodyOrWaitMoves ==
  ASSUME PcOK, NEW t \in Threads, BodyOrWait(t)
  PROVE  \/ merging' = {} /\ Body(t) /\ Moves(t, "idle")
         \/ merging' # {} /\ Moves(t, "await") /\ asleep' = asleep \union {t}
            /\ segs' = segs /\ paused_by' = paused_by
<1>1. Fits(t, "idle") /\ Fits(t, "await") /\ t \in Actors
  BY LabelsFit, Zenon DEF ThreadLabels
<1>2. CASE merging' = {}
  BY <1>1, <1>2, GotoEffect, Zenon DEF BodyOrWait, Body, Moves
<1>3. CASE merging' # {}
  BY <1>1, <1>3, GotoEffect, Zenon DEF BodyOrWait, Moves
<1>4. QED
  BY <1>2, <1>3, Zenon

LEMMA MaybeStallMoves ==
  ASSUME PcOK, NEW a \in Actors, MaybeStall(a)
  PROVE  /\ pc[a] \in {"enter", "stalled", "done", "check"}
         /\ monitor = None \/ (pc[a] = "check" /\ monitor = a)
         /\ \/ a \in MergeIds /\ Moves(a, "leave") /\ monitor' = a
               /\ CountMergeThreads(a) >= MaxMergeCount
            \/ a \in Threads /\ Moves(a, "stalled") /\ monitor' = None
            \/ Moves(a, "pop") /\ monitor' = a
<1>1. Fits(a, "pop")
  BY LabelsFit, Zenon DEF ThreadLabels, MergeLabels, Actors
<1>2. CASE pending # <<>> /\ CountMergeThreads(a) >= MaxMergeCount /\ a \in MergeIds
  <2>1. Fits(a, "leave")
    BY <1>2, LabelsFit, Zenon DEF MergeLabels
  <2>2. Goto(a, "leave") /\ monitor' = a
    BY <1>2, Zenon DEF MaybeStall
  <2>3. QED
    BY <1>2, <2>1, <2>2, GotoEffect, Zenon DEF MaybeStall, Moves
<1>3. CASE pending # <<>> /\ CountMergeThreads(a) >= MaxMergeCount /\ a \in Threads
  <2>1. Fits(a, "stalled")
    BY <1>3, LabelsFit, Zenon DEF ThreadLabels
  <2>2. Goto(a, "stalled") /\ monitor' = None
    BY <1>3, LabelsFit, Zenon DEF MaybeStall
  <2>3. QED
    BY <1>3, <2>1, <2>2, GotoEffect, Zenon DEF MaybeStall, Moves
<1>4. CASE ~(pending # <<>> /\ CountMergeThreads(a) >= MaxMergeCount)
  <2>1. Goto(a, "pop") /\ monitor' = a
    BY <1>4, Zenon DEF MaybeStall
  <2>2. QED
    BY <1>1, <1>4, <2>1, GotoEffect, Zenon DEF MaybeStall, Moves
<1>5. QED
  BY <1>2, <1>3, <1>4, Zenon DEF Actors
-----------------------------------------------------------------------------
(* Sequences without repetition *)

Distinct(s) == \A i, j \in DOMAIN s : i # j => s[i] # s[j]

LEMMA HeadTail ==
  ASSUME NEW S, NEW s \in Seq(S), s # <<>>
  PROVE  /\ Head(s) \in Range(s) /\ Range(s) \subseteq S /\ Tail(s) \in Seq(S)
         /\ Distinct(s) => Distinct(Tail(s)) /\ Range(Tail(s)) = Range(s) \ {Head(s)}
<1>1. /\ Len(s) \in Nat /\ Len(s) > 0 /\ DOMAIN s = 1..Len(s) /\ Head(s) = s[1]
      /\ DOMAIN Tail(s) = 1..(Len(s) - 1) /\ \A i \in 1..(Len(s) - 1) : Tail(s)[i] = s[i + 1]
      /\ \A i \in 1..Len(s) : s[i] \in S
      /\ Tail(s) \in Seq(S)
  OBVIOUS
<1>2. Head(s) \in Range(s) /\ Range(s) \subseteq S
  BY <1>1 DEF Range
<1>3. ASSUME Distinct(s) PROVE Distinct(Tail(s))
  BY <1>1, <1>3 DEF Distinct
<1>4. ASSUME Distinct(s) PROVE Range(Tail(s)) = Range(s) \ {Head(s)}
  <2>1. ASSUME NEW x \in Range(Tail(s)) PROVE x \in Range(s) \ {Head(s)}
    <3>1. PICK i \in 1..(Len(s) - 1) : x = s[i + 1]
      BY <1>1, <2>1, Zenon DEF Range
    <3>2. i + 1 \in DOMAIN s /\ i + 1 # 1 /\ 1 \in DOMAIN s
      BY <1>1, <3>1
    <3>3. QED
      BY <1>1, <1>4, <3>1, <3>2, Zenon DEF Range, Distinct
  <2>2. ASSUME NEW x \in Range(s) \ {Head(s)} PROVE x \in Range(Tail(s))
    <3>1. PICK i \in DOMAIN s : x = s[i]
      BY <2>2, Zenon DEF Range
    <3>2. i # 1
      BY <1>1, <2>2, <3>1, Zenon
    <3>3. i - 1 \in 1..(Len(s) - 1) /\ Tail(s)[i - 1] = s[i]
      BY <1>1, <3>1, <3>2
    <3>4. QED
      BY <1>1, <3>1, <3>3, Zenon DEF Range
  <2>3. QED
    BY <2>1, <2>2, Zenon
<1>5. QED
  BY <1>1, <1>2, <1>3, <1>4, Zenon

LEMMA AppendOne ==
  ASSUME NEW S, NEW s \in Seq(S), NEW x \in S, x \notin Range(s)
  PROVE  /\ Append(s, x) \in Seq(S) /\ Range(Append(s, x)) = Range(s) \union {x}
         /\ Distinct(s) => Distinct(Append(s, x))
<1>1. /\ Len(s) \in Nat /\ DOMAIN s = 1..Len(s) /\ DOMAIN Append(s, x) = 1..(Len(s) + 1)
      /\ Append(s, x)[Len(s) + 1] = x
      /\ \A i \in 1..Len(s) : Append(s, x)[i] = s[i]
      /\ Append(s, x) \in Seq(S)
  OBVIOUS
<1>2. Range(Append(s, x)) = Range(s) \union {x}
  BY <1>1 DEF Range
<1>3. \A i \in 1..Len(s) : s[i] # x
  BY <1>1, Zenon DEF Range
<1>4. ASSUME Distinct(s) PROVE Distinct(Append(s, x))
  BY <1>1, <1>3, <1>4 DEF Distinct
<1>5. QED
  BY <1>1, <1>2, <1>4, Zenon

LEMMA Concat ==
  ASSUME NEW S, NEW a \in Seq(S), NEW b \in Seq(S)
  PROVE  /\ a \o b \in Seq(S) /\ Len(a \o b) = Len(a) + Len(b)
         /\ \A k \in 1..(Len(a) + Len(b)) :
              (a \o b)[k] = IF k <= Len(a) THEN a[k] ELSE b[k - Len(a)]
OBVIOUS

LEMMA WithoutOne ==
  ASSUME NEW S, NEW s \in Seq(S), NEW i \in DOMAIN s
  PROVE  /\ Without(s, i) \in Seq(S) /\ Range(s) \ {s[i]} \subseteq Range(Without(s, i))
         /\ Distinct(s) => Distinct(Without(s, i)) /\ Range(Without(s, i)) = Range(s) \ {s[i]}
<1> DEFINE w == Without(s, i)
           back(k) == IF k < i THEN k ELSE k + 1
<1>1. /\ Len(s) \in Nat /\ DOMAIN s = 1..Len(s) /\ i \in 1..Len(s)
      /\ w \in Seq(S) /\ DOMAIN w = 1..(Len(s) - 1)
      /\ \A k \in 1..(Len(s) - 1) : w[k] = s[back(k)]
  <2> DEFINE a == SubSeq(s, 1, i - 1)
             b == SubSeq(s, i + 1, Len(s))
  <2>1. /\ Len(s) \in Nat /\ DOMAIN s = 1..Len(s) /\ i \in 1..Len(s)
        /\ \A k \in 1..Len(s) : s[k] \in S
    OBVIOUS
  <2>2. a \in Seq(S) /\ Len(a) = i - 1 /\ \A k \in 1..(i - 1) : a[k] = s[k]
    BY <2>1
  <2>3. b \in Seq(S) /\ Len(b) = Len(s) - i /\ \A k \in 1..(Len(s) - i) : b[k] = s[k + i]
    BY <2>1
  <2>4. w = a \o b
    BY Zenon DEF Without
  <2> HIDE DEF a, b
  <2>5. /\ w \in Seq(S) /\ Len(w) = Len(s) - 1
        /\ \A k \in 1..(Len(s) - 1) : w[k] = IF k <= Len(a) THEN a[k] ELSE b[k - Len(a)]
    <3>1. Len(a) + Len(b) = Len(s) - 1
      BY <2>1, <2>2, <2>3
    <3>2. a \in Seq(S) /\ b \in Seq(S)
      BY <2>2, <2>3, Zenon
    <3>3. /\ a \o b \in Seq(S) /\ Len(a \o b) = Len(a) + Len(b)
          /\ \A k \in 1..(Len(a) + Len(b)) :
               (a \o b)[k] = IF k <= Len(a) THEN a[k] ELSE b[k - Len(a)]
      BY ONLY <3>2, Concat, Zenon
    <3>4. QED
      BY ONLY <2>4, <3>1, <3>3, Zenon
  <2> HIDE DEF w
  <2>6. ASSUME NEW k \in 1..(Len(s) - 1) PROVE w[k] = s[back(k)]
    <3>1. CASE k < i
      BY <2>1, <2>2, <2>5, <3>1
    <3>2. CASE k >= i
      <4>1. k - Len(a) \in 1..(Len(s) - i) /\ ~(k <= Len(a))
        BY <2>1, <2>2, <3>2
      <4>2. w[k] = b[k - Len(a)] /\ b[k - Len(a)] = s[k - Len(a) + i]
        BY <2>3, <2>5, <4>1, Zenon
      <4>3. k - Len(a) + i = k + 1
        BY <2>1, <2>2
      <4>4. QED
        BY <2>1, <3>2, <4>2, <4>3
    <3>3. QED
      BY <2>1, <3>1, <3>2
  <2>7. QED
    BY <2>1, <2>5, <2>6
<1>2. \A k \in 1..(Len(s) - 1) : back(k) \in 1..Len(s) /\ back(k) # i
  BY <1>1
<1>3. \A j, k \in 1..(Len(s) - 1) : j # k => back(j) # back(k)
  BY <1>1
<1>4. \A j \in 1..Len(s) : j # i => \E k \in 1..(Len(s) - 1) : back(k) = j
  <2> SUFFICES ASSUME NEW j \in 1..Len(s), j # i PROVE \E k \in 1..(Len(s) - 1) : back(k) = j
    BY Zenon
  <2>1. CASE j < i
    BY <1>1, <2>1
  <2>2. CASE j > i
    <3>1. j - 1 \in 1..(Len(s) - 1) /\ back(j - 1) = j
      BY <1>1, <2>2
    <3>2. QED
      BY <3>1, Zenon
  <2>3. QED
    BY <1>1, <2>1, <2>2
<1> HIDE DEF w, back
<1>5. Range(s) \ {s[i]} \subseteq Range(w)
  <2> SUFFICES ASSUME NEW x \in Range(s), x # s[i] PROVE x \in Range(w)
    BY Zenon
  <2>1. PICK j \in 1..Len(s) : x = s[j]
    BY <1>1, Zenon DEF Range
  <2>2. PICK k \in 1..(Len(s) - 1) : back(k) = j
    BY <1>4, <2>1, Zenon
  <2>3. QED
    BY <1>1, <2>1, <2>2, Zenon DEF Range
<1>6. ASSUME Distinct(s) PROVE Distinct(w)
  BY <1>1, <1>2, <1>3, <1>6, Zenon DEF Distinct
<1>7. ASSUME Distinct(s) PROVE Range(w) \subseteq Range(s) \ {s[i]}
  <2> SUFFICES ASSUME NEW x \in Range(w) PROVE x \in Range(s) /\ x # s[i]
    BY Zenon
  <2>1. PICK k \in 1..(Len(s) - 1) : x = s[back(k)]
    BY <1>1, Zenon DEF Range
  <2>2. QED
    BY <1>1, <1>2, <1>7, <2>1, Zenon DEF Distinct, Range
<1>8. ASSUME Distinct(s) PROVE Range(w) = Range(s) \ {s[i]}
  BY <1>5, <1>7, <1>8, Zenon
<1>9. QED
  BY <1>1, <1>5, <1>6, <1>8, Zenon DEF w

-----------------------------------------------------------------------------
(* Taking merges from the queue *)

LEMMA ReturnedMoves ==
  ASSUME PcOK, NEW a \in Actors, Goto(a, Returned(a))
  PROVE  /\ Moves(a, Returned(a))
         /\ a \in MergeIds => Returned(a) = "leave"
         /\ a \in Threads => Returned(a) \in {"sync", "idle"}
<1>1. /\ a \in MergeIds => Returned(a) = "leave"
      /\ a \in Threads => Returned(a) \in {"sync", "idle"}
  BY LabelsFit, Zenon DEF Returned
<1>2. Fits(a, Returned(a))
  BY <1>1, Zenon DEF Fits, ThreadLabels, MergeLabels
<1>3. QED
  BY <1>1, <1>2, GotoEffect, Zenon DEF Moves

Takes(a, label) ==
    /\ pending # <<>> /\ Head(pending) \in MergeIds /\ a # Head(pending)
    /\ pc[Head(pending)] = "none" /\ PcOK'
    /\ pc'[a] = label /\ pc'[Head(pending)] = "new"
    /\ \A b \in Actors : b # a /\ b # Head(pending) => pc'[b] = pc[b]

LEMMA TakesMerge ==
  ASSUME PcOK, pending \in Seq(MergeIds), QueueInv, pending # <<>>,
         NEW a \in Actors, NEW label, Fits(a, label), pc[a] # "none",
         pc' = [pc EXCEPT ![a] = label, ![Head(pending)] = "new"]
  PROVE  Takes(a, label)
<1>1. Head(pending) \in MergeIds /\ pc[Head(pending)] = "none"
  BY HeadTail, Zenon DEF QueueInv
<1>2. a # Head(pending)
  BY <1>1, Zenon
<1>3. QED
  BY <1>1, <1>2, TwoMove, Zenon DEF Takes

LEMMA StartMergeThreadMoves ==
  ASSUME PcOK, pending \in Seq(MergeIds), QueueInv, NEW a \in Actors, StartMergeThread(a)
  PROVE  pc[a] = "pop" /\ Takes(a, "check")
<1>1. /\ pc[a] = "pop" /\ pending # <<>>
      /\ pc' = [pc EXCEPT ![a] = "check", ![Head(pending)] = "new"]
  BY Zenon DEF StartMergeThread
<1>2. Fits(a, "check")
  BY Zenon DEF Fits, ThreadLabels, MergeLabels
<1>3. pc[a] # "none"
  BY <1>1, Zenon
<1>4. QED
  BY <1>1, <1>2, <1>3, TakesMerge, Zenon

LEMMA StartMergeThreadFailsMoves ==
  ASSUME PcOK, NEW a \in Actors, StartMergeThreadFails(a)
  PROVE  /\ pc[a] = "pop"
         /\ \/ a \in MergeIds /\ Moves(a, "leave") /\ monitor' = monitor /\ errors' = errors + 1
            \/ a \in Threads /\ Moves(a, "idle") /\ monitor' = None /\ errors' = errors
<1>1. pc[a] = "pop"
  BY Zenon DEF StartMergeThreadFails
<1>2. CASE a \in MergeIds
  <2>1. Fits(a, "leave")
    BY <1>2, LabelsFit, Zenon DEF MergeLabels
  <2>2. Goto(a, "leave") /\ monitor' = monitor /\ errors' = errors + 1
    BY <1>2, Zenon DEF StartMergeThreadFails
  <2>3. QED
    BY <1>1, <1>2, <2>1, <2>2, GotoEffect, Zenon DEF Moves
<1>3. CASE a \in Threads
  <2>1. Fits(a, "idle")
    BY <1>3, LabelsFit, Zenon DEF ThreadLabels
  <2>2. Goto(a, "idle") /\ monitor' = None /\ errors' = errors
    BY <1>3, LabelsFit, Zenon DEF StartMergeThreadFails
  <2>3. QED
    BY <1>1, <1>3, <2>1, <2>2, GotoEffect, Zenon DEF Moves
<1>4. QED
  BY <1>2, <1>3, Zenon DEF Actors

LEMMA SerialNextMoves ==
  ASSUME PcOK, pending \in Seq(MergeIds), QueueInv, NEW t \in Threads, SerialNext(t)
  PROVE  /\ \/ pc[t] = "enter" /\ monitor = None
            \/ pc[t] = "serial" /\ pc[target[t]] = "ended" /\ result[target[t]] = "ok"
         /\ \/ /\ pending = <<>> /\ monitor' = None /\ pending' = pending /\ target' = target
               /\ Moves(t, Returned(t)) /\ Returned(t) \in {"sync", "idle"}
            \/ /\ Takes(t, "serial") /\ monitor' = t /\ pending' = Tail(pending)
               /\ target' = [target EXCEPT ![t] = Head(pending)]
<1>1. \/ pc[t] = "enter" /\ monitor = None
      \/ pc[t] = "serial" /\ pc[target[t]] = "ended" /\ result[target[t]] = "ok"
  BY Zenon DEF SerialNext
<1>2. t \in Actors /\ Fits(t, "serial")
  BY LabelsFit, Zenon DEF ThreadLabels
<1>3. CASE pending = <<>>
  BY <1>1, <1>2, <1>3, ReturnedMoves, Zenon DEF SerialNext
<1>4. CASE pending # <<>>
  <2>1. /\ monitor' = t /\ pending' = Tail(pending)
        /\ target' = [target EXCEPT ![t] = Head(pending)]
        /\ pc' = [pc EXCEPT ![t] = "serial", ![Head(pending)] = "new"]
    BY <1>4, Zenon DEF SerialNext
  <2>2. pc[t] # "none"
    BY <1>1, Zenon
  <2>3. QED
    BY <1>1, <1>2, <1>4, <2>1, <2>2, TakesMerge, Zenon
<1>5. QED
  BY <1>3, <1>4, Zenon

-----------------------------------------------------------------------------
(* Registering merges *)

LEMMA NextMergeIs ==
  ASSUME NEW k \in 0..MaxMerges, \A m \in MergeIds : group[m] # {} <=> m <= k
  PROVE  NextMerge = k + 1
<1>1. {m \in MergeIds : group[m] # {}} = 1..k
  BY SchedulerAssumption DEF MergeIds
<1>2. Cardinality(1..k) = k
  BY FS_Interval
<1>3. QED
  BY <1>1, <1>2, Zenon DEF NextMerge

LEMMA TwoPlaces ==
  ASSUME NEW n \in 0..2, NEW x \in 1..n, NEW y \in 1..n, x # y
  PROVE  n = 2 /\ ((x = 1 /\ y = 2) \/ (x = 2 /\ y = 1))
OBVIOUS

LEMMA Proposed ==
  ASSUME setup \in Setups, NEW S, NEW claimed, NEW p \in Proposals(S, claimed)
  PROVE  /\ Len(p) \in 0..2 /\ DOMAIN p = 1..Len(p) /\ NextMerge + Len(p) <= MaxMerges + 1
         /\ \A i \in 1..Len(p) : p[i] # {} /\ p[i] \subseteq S \ claimed
         /\ \A i, j \in 1..Len(p) : i # j => p[i] \intersect p[j] = {}
<1> DEFINE groups == {g \in SUBSET (S \ claimed) : Cardinality(g) >= 2}
<1>1. /\ p \in {<<>>} \union {<<g>> : g \in groups} \union {<<g, h>> : g \in groups, h \in groups}
      /\ NextMerge + Len(p) <= setup.merges + 1
      /\ Len(p) = 2 => p[1] \intersect p[2] = {}
  BY DEF Proposals
<1>2. \A g \in groups : g # {} /\ g \subseteq S \ claimed
  BY FS_EmptySet
<1> HIDE DEF groups
<1>3. /\ Len(p) \in 0..2 /\ DOMAIN p = 1..Len(p)
      /\ \A i \in 1..Len(p) : p[i] \in groups
  BY <1>1
<1>4. NextMerge + Len(p) <= MaxMerges + 1
  <2>1. setup.merges \in 0..MaxMerges
    BY SchedulerAssumption, Zenon DEF Setup
  <2>2. NextMerge \in Int
    <3>1. IsFiniteSet(MergeIds)
      BY SchedulerAssumption, FS_Interval DEF MergeIds
    <3>2. IsFiniteSet({m \in MergeIds : group[m] # {}})
      BY <3>1, FS_Subset, Zenon
    <3>3. QED
      BY <3>2, FS_CardinalityType DEF NextMerge
  <2>3. QED
    BY <1>1, <1>3, <2>1, <2>2, SchedulerAssumption
<1>5. ASSUME NEW i \in 1..Len(p), NEW j \in 1..Len(p), i # j PROVE p[i] \intersect p[j] = {}
  <2>1. Len(p) = 2 /\ ((i = 1 /\ j = 2) \/ (i = 2 /\ j = 1))
    BY <1>3, <1>5, TwoPlaces, Zenon
  <2>2. QED
    BY <1>1, <2>1
<1>6. QED
  BY <1>2, <1>3, <1>4, <1>5, Zenon

Registers(S, claimed, N) ==
    /\ \A m \in N : group[m] = {} /\ group'[m] # {} /\ group'[m] \subseteq S \ claimed
    /\ \A m, n \in N : m # n => group'[m] \intersect group'[n] = {}
    /\ \A m \in MergeIds \ N : group'[m] = group[m]
    /\ \A s : s \in merging' <=> s \in claimed \/ \E m \in N : s \in group'[m]
    /\ pending' \in Seq(MergeIds) /\ Distinct(pending') /\ Range(pending') = Range(pending) \union N
    /\ DOMAIN group' = MergeIds /\ group' = [m \in MergeIds |-> group'[m]]
    /\ \E k \in 0..MaxMerges : \A m \in MergeIds : group'[m] # {} <=> m <= k

Adds(p, claimed) ==
    /\ merging' = claimed \union UNION Range(p)
    /\ pending' = pending \o [i \in 1..Len(p) |-> NextMerge + i - 1]
    /\ group' = [m \in MergeIds |-> IF m \in NextMerge..(NextMerge + Len(p) - 1)
                                      THEN p[m - NextMerge + 1] ELSE group[m]]

LEMMA AddMergesEffect ==
  ASSUME setup \in Setups, pending \in Seq(MergeIds), QueueInv,
         NEW S, NEW claimed, NEW p \in Proposals(S, claimed), Adds(p, claimed)
  PROVE  \E N \in SUBSET MergeIds : Registers(S, claimed, N)
<1>1. PICK k \in 0..MaxMerges : \A m \in MergeIds : group[m] # {} <=> m <= k
  BY Zenon DEF QueueInv
<1>2. NextMerge = k + 1
  BY <1>1, NextMergeIs, Zenon
<1>3. /\ merging' = claimed \union UNION Range(p)
      /\ pending' = pending \o [i \in 1..Len(p) |-> k + 1 + i - 1]
      /\ group' = [m \in MergeIds |-> IF m \in (k + 1)..(k + 1 + Len(p) - 1)
                                        THEN p[m - (k + 1) + 1] ELSE group[m]]
  BY <1>2, Zenon DEF Adds
<1> DEFINE n == Len(p)
           N == (k + 1)..(k + n)
           q == [i \in 1..n |-> k + i]
<1>4. /\ n \in 0..2 /\ DOMAIN p = 1..n /\ k + 1 + n <= MaxMerges + 1
      /\ \A i \in 1..n : p[i] # {} /\ p[i] \subseteq S \ claimed
      /\ \A i, j \in 1..n : i # j => p[i] \intersect p[j] = {}
  <2>1. /\ Len(p) \in 0..2 /\ DOMAIN p = 1..Len(p) /\ NextMerge + Len(p) <= MaxMerges + 1
        /\ \A i \in 1..Len(p) : p[i] # {} /\ p[i] \subseteq S \ claimed
        /\ \A i, j \in 1..Len(p) : i # j => p[i] \intersect p[j] = {}
    BY Proposed, Zenon
  <2>2. QED
    BY <1>2, <2>1, Zenon
<1>5. /\ k \in Nat /\ k + n <= MaxMerges /\ MaxMerges \in Nat /\ n \in Nat
      /\ N \subseteq MergeIds
      /\ \A m \in N : m - k \in 1..n /\ m > k
      /\ \A i \in 1..n : k + i \in N /\ (k + i) - k = i
      /\ \A m \in MergeIds : m \in N \/ m <= k <=> m <= k + n
  BY <1>4, SchedulerAssumption DEF MergeIds
<1>6. /\ \A m \in N : group'[m] = p[m - k]
      /\ \A m \in MergeIds \ N : group'[m] = group[m]
      /\ DOMAIN group' = MergeIds /\ group' = [m \in MergeIds |-> group'[m]]
  <2>1. (k + 1)..(k + 1 + n - 1) = N
    BY <1>5
  <2>2. \A m \in N : m - (k + 1) + 1 = m - k
    BY <1>5
  <2>3. QED
    BY <1>3, <1>5, <2>1, <2>2, Zenon
<1>7. q \in Seq(MergeIds) /\ Len(q) = n /\ pending' = pending \o q
  <2>1. q = [i \in 1..n |-> k + 1 + i - 1]
    BY <1>5
  <2>2. \A i \in 1..n : k + i \in MergeIds
    BY <1>5, Zenon
  <2>3. QED
    BY <1>3, <1>5, <2>1, <2>2
<1> HIDE DEF n, N
<1>8. /\ \A m \in N : group[m] = {} /\ group'[m] # {} /\ group'[m] \subseteq S \ claimed
      /\ \A l, m \in N : l # m => group'[l] \intersect group'[m] = {}
  <2>1. \A m \in N : ~(m <= k)
    BY <1>5 DEF MergeIds
  <2>2. \A l, m \in N : l # m => l - k # m - k
    BY <1>5 DEF MergeIds
  <2>3. ASSUME NEW m \in N
        PROVE  group[m] = {} /\ group'[m] # {} /\ group'[m] \subseteq S \ claimed
    <3>1. m \in MergeIds /\ ~(m <= k) /\ m - k \in 1..n
      BY <1>5, <2>1, Zenon
    <3>2. QED
      BY <1>1, <1>4, <1>6, <3>1, Zenon
  <2>4. ASSUME NEW l \in N, NEW m \in N, l # m PROVE group'[l] \intersect group'[m] = {}
    <3>1. l - k \in 1..n /\ m - k \in 1..n /\ l - k # m - k
      BY <1>5, <2>2, <2>4, Zenon
    <3>2. p[l - k] \intersect p[m - k] = {}
      BY <1>4, <3>1, Zenon
    <3>3. QED
      BY <1>6, <3>2, Zenon
  <2>5. QED
    BY <2>3, <2>4, Zenon
<1>9. \A s : s \in merging' <=> s \in claimed \/ \E m \in N : s \in group'[m]
  <2>1. \A s : s \in UNION Range(p) <=> \E i \in 1..n : s \in p[i]
    BY <1>4, Zenon DEF Range
  <2>2. \A s : (\E i \in 1..n : s \in p[i]) <=> \E m \in N : s \in p[m - k]
    BY <1>5, Zenon
  <2>3. \A s : s \in merging' <=> s \in claimed \/ s \in UNION Range(p)
    BY <1>3, Zenon
  <2>4. QED
    BY <1>6, <2>1, <2>2, <2>3, Zenon
<1>10. pending' \in Seq(MergeIds) /\ Distinct(pending') /\ Range(pending') = Range(pending) \union N
  <2>1. /\ Len(pending) \in Nat /\ DOMAIN pending = 1..Len(pending)
        /\ pending' \in Seq(MergeIds) /\ DOMAIN pending' = 1..(Len(pending) + n)
        /\ \A i \in 1..(Len(pending) + n) :
             pending'[i] = IF i <= Len(pending) THEN pending[i] ELSE k + (i - Len(pending))
    <3>1. /\ pending \o q \in Seq(MergeIds) /\ Len(pending \o q) = Len(pending) + Len(q)
          /\ \A i \in 1..(Len(pending) + Len(q)) :
               (pending \o q)[i] = IF i <= Len(pending) THEN pending[i] ELSE q[i - Len(pending)]
      BY <1>7, Concat, Zenon
    <3>2. \A i \in 1..(Len(pending) + n) : ~(i <= Len(pending)) => i - Len(pending) \in 1..n
      BY <1>5
    <3>3. \A x \in 1..n : q[x] = k + x
      BY Zenon
    <3> HIDE DEF q
    <3>4. Len(pending \o q) = Len(pending) + n /\ Len(pending) \in Nat
      BY <1>7, <3>1
    <3>5. ASSUME NEW i \in 1..(Len(pending) + n)
          PROVE  pending'[i] = IF i <= Len(pending) THEN pending[i] ELSE k + (i - Len(pending))
      BY <1>7, <3>1, <3>2, <3>3, Zenon
    <3>6. QED
      BY <1>7, <3>1, <3>4, <3>5
  <2>2. \A i \in 1..Len(pending) : pending[i] \in MergeIds /\ pending[i] <= k
    <3>1. \A i \in 1..Len(pending) : pending[i] \in MergeIds /\ pending[i] \in Range(pending)
      BY <2>1 DEF Range
    <3>2. QED
      BY <1>1, <3>1, Zenon DEF QueueInv
  <2>3. Distinct(pending')
    <3> SUFFICES ASSUME NEW i \in 1..(Len(pending) + n), NEW j \in 1..(Len(pending) + n), i < j
                 PROVE  pending'[i] # pending'[j]
      BY <1>5, <2>1 DEF Distinct
    <3>1. CASE j <= Len(pending)
      <4>1. pending'[i] = pending[i] /\ pending'[j] = pending[j] /\ i # j
            /\ i \in DOMAIN pending /\ j \in DOMAIN pending
        BY <1>5, <2>1, <3>1
      <4>2. QED
        BY <4>1, Zenon DEF QueueInv
    <3>2. CASE i <= Len(pending) /\ ~(j <= Len(pending))
      <4>1. pending'[i] <= k /\ pending'[i] \in MergeIds
        BY <1>5, <2>1, <2>2, <3>2
      <4>2. pending'[j] > k
        BY <1>5, <2>1, <3>2
      <4>3. QED
        BY <1>5, <4>1, <4>2 DEF MergeIds
    <3>3. CASE ~(i <= Len(pending)) /\ ~(j <= Len(pending))
      BY <1>5, <2>1, <3>3
    <3>4. QED
      BY <2>1, <1>5, <3>1, <3>2, <3>3, Zenon
  <2>4. Range(pending') = Range(pending) \union N
    <3>1. ASSUME NEW x \in Range(pending') PROVE x \in Range(pending) \union N
      <4>1. PICK i \in 1..(Len(pending) + n) : x = pending'[i]
        BY <2>1, <3>1, Zenon DEF Range
      <4>2. CASE i <= Len(pending)
        BY <1>5, <2>1, <4>1, <4>2 DEF Range
      <4>3. CASE ~(i <= Len(pending))
        <5>1. i - Len(pending) \in 1..n /\ x = k + (i - Len(pending))
          BY <1>5, <2>1, <4>1, <4>3
        <5>2. QED
          BY <1>5, <5>1, Zenon
      <4>4. QED
        BY <4>2, <4>3, Zenon
    <3>2. ASSUME NEW x \in Range(pending) PROVE x \in Range(pending')
      <4>1. PICK i \in 1..Len(pending) : x = pending[i]
        BY <2>1, <3>2, Zenon DEF Range
      <4>2. i \in 1..(Len(pending) + n) /\ pending'[i] = x
        BY <1>5, <2>1, <4>1
      <4>3. QED
        BY <2>1, <4>2, Zenon DEF Range
    <3>3. ASSUME NEW x \in N PROVE x \in Range(pending')
      <4>1. x - k \in 1..n /\ x \in Int
        BY <1>5 DEF MergeIds
      <4>2. PICK i \in 1..(Len(pending) + n) : i = Len(pending) + (x - k)
        <5>1. Len(pending) + (x - k) \in 1..(Len(pending) + n)
          BY <1>5, <2>1, <4>1
        <5>2. QED
          BY <5>1, Zenon
      <4>3. ~(i <= Len(pending)) /\ k + (i - Len(pending)) = x
        BY <1>5, <2>1, <4>1, <4>2
      <4>4. pending'[i] = x
        BY <2>1, <4>2, <4>3, Zenon
      <4>5. QED
        BY <2>1, <4>4, Zenon DEF Range
    <3>4. QED
      BY <3>1, <3>2, <3>3, Zenon
  <2>5. QED
    BY <2>1, <2>3, <2>4, Zenon
<1>11. \A m \in MergeIds : group'[m] # {} <=> m <= k + n
  BY <1>1, <1>5, <1>6, <1>8, Zenon
<1>12. k + n \in 0..MaxMerges
  BY <1>5
<1>13. \E h \in 0..MaxMerges : \A m \in MergeIds : group'[m] # {} <=> m <= h
  BY <1>11, <1>12, Zenon
<1>14. Registers(S, claimed, N)
  BY <1>6, <1>8, <1>9, <1>10, <1>13, Zenon DEF Registers
<1>15. QED
  BY <1>5, <1>14, Zenon

LEMMA NothingRegistered ==
  ASSUME TypeOK, QueueInv, NEW S, NEW claimed,
         merging' = claimed, pending' = pending, group' = group
  PROVE  Registers(S, claimed, {})
<1>1. DOMAIN group' = MergeIds /\ group' = [m \in MergeIds |-> group'[m]] /\ pending \in Seq(MergeIds)
  BY Zenon DEF TypeOK
<1>2. Range(pending') = Range(pending) \union {} /\ Distinct(pending')
  BY Zenon DEF QueueInv, Distinct
<1>3. QED
  BY <1>1, <1>2, Zenon DEF Registers, QueueInv

LEMMA ScheduleRegisters ==
  ASSUME TypeOK, QueueInv, NEW t, NEW j, ScheduleMerges(t, j)
  PROVE  \E N \in SUBSET MergeIds :
           Registers(segs, merging, N) /\ (merges_blocked => N = {} /\ pending' = pending)
<1> DEFINE S == segs
           C == merging
<1>1. setup \in Setups /\ pending \in Seq(MergeIds) /\ DOMAIN group = MergeIds
  BY Zenon DEF TypeOK
<1>2. CASE merges_blocked
  <2>1. merging' = C /\ pending' = pending /\ group' = group
    BY <1>2, Zenon DEF ScheduleMerges, register_merges
  <2> HIDE DEF S, C
  <2>2. Registers(S, C, {})
    BY <1>1, <2>1, NothingRegistered, Zenon
  <2>3. QED
    BY <2>1, <2>2, Zenon DEF S, C
<1>3. CASE ~merges_blocked
  <2>1. PICK p \in Proposals(S, C) : Adds(p, C)
    BY <1>3, Zenon DEF ScheduleMerges, register_merges, AddMerges, Adds
  <2> HIDE DEF S, C
  <2>2. \E N \in SUBSET MergeIds : Registers(S, C, N)
    BY <1>1, <2>1, AddMergesEffect, Zenon
  <2>3. QED
    BY <1>3, <2>2, Zenon DEF S, C
<1>4. QED
  BY <1>2, <1>3, Zenon

LEMMA FinishRegisters ==
  ASSUME TypeOK, QueueInv, NEW m \in MergeIds, FinishMerge(m), result[m] = "ok"
  PROVE  \E N \in SUBSET MergeIds :
           Registers(segs', (merging \ group[m]), N) /\ (merges_blocked => N = {} /\ pending' = pending)
<1> DEFINE S == segs'
           C == (merging \ group[m])
<1>1. setup \in Setups /\ pending \in Seq(MergeIds) /\ DOMAIN group = MergeIds
  BY Zenon DEF TypeOK
<1>2. CASE merges_blocked
  <2>1. merging' = C /\ pending' = pending /\ group' = group
    BY <1>2, Zenon DEF FinishMerge, register_merges
  <2> HIDE DEF S, C
  <2>2. Registers(S, C, {})
    BY <1>1, <2>1, NothingRegistered, Zenon
  <2>3. QED
    BY <2>1, <2>2, Zenon DEF S, C
<1>3. CASE ~merges_blocked
  <2>1. PICK p \in Proposals(S, C) : Adds(p, C)
    BY <1>3, Zenon DEF FinishMerge, register_merges, AddMerges, Adds
  <2> HIDE DEF S, C
  <2>2. \E N \in SUBSET MergeIds : Registers(S, C, N)
    BY <1>1, <2>1, AddMergesEffect, Zenon
  <2>3. QED
    BY <1>3, <2>2, Zenon DEF S, C
<1>4. QED
  BY <1>2, <1>3, Zenon

LEMMA RegisterTypes ==
  ASSUME TypeOK, NEW S \in SUBSET SUBSET Documents,
         NEW claimed \in SUBSET SUBSET Documents, NEW N \in SUBSET MergeIds, Registers(S, claimed, N)
  PROVE  /\ merging' \subseteq SUBSET Documents /\ pending' \in Seq(MergeIds)
         /\ group' \in [MergeIds -> SUBSET SUBSET Documents]
<1>2. /\ \A m \in N : group'[m] \subseteq S
      /\ \A m \in MergeIds \ N : group'[m] = group[m]
      /\ \A s : s \in merging' <=> s \in claimed \/ \E m \in N : s \in group'[m]
      /\ pending' \in Seq(MergeIds)
      /\ group' = [m \in MergeIds |-> group'[m]]
  BY Zenon DEF Registers
<1>3. \A m \in MergeIds : group'[m] \in SUBSET SUBSET Documents
  BY <1>2, Zenon DEF TypeOK
<1>4. merging' \subseteq SUBSET Documents
  BY <1>2, Zenon
<1>5. group' \in [MergeIds -> SUBSET SUBSET Documents]
  BY <1>2, <1>3, Zenon
<1>6. QED
  BY <1>2, <1>4, <1>5, Zenon

-----------------------------------------------------------------------------
(* The types *)

LEMMA PausedListed == ASSUME NEW L PROVE PausedOf(L) \subseteq Range(L)
BY Zenon DEF PausedOf, Range

\* What is left of TypeOK beside pc, for the variables of the scheduler and of
\* the writer.
WriterOK ==
    /\ segs \subseteq SUBSET Documents /\ merging \subseteq SUBSET Documents
    /\ pending \in Seq(MergeIds) /\ running \subseteq MergeIds /\ aborted \subseteq MergeIds
    /\ group \in [MergeIds -> SUBSET SUBSET Documents]
    /\ stopped \in BOOLEAN /\ paused_by \subseteq Threads /\ asleep \subseteq Threads

ListOK ==
    /\ monitor \in Actors \union {None}
    /\ list \in Seq(MergeIds) /\ handles \subseteq Range(list) /\ paused \subseteq Range(list)
    /\ errors \in Nat

OtherOK ==
    /\ result \in [MergeIds -> {"none", "ok", "aborted", "failed"}]
    /\ job \in [Threads -> {"none", "merge", "close", "delete_all", "force_merge", "stop"}]
    /\ target \in [Threads -> MergeIds \union {0}]
    /\ setup \in Setups /\ added \subseteq Documents
    /\ ops \in Nat /\ drops \in Nat /\ failures \in Nat

LEMMA TypeParts == TypeOK <=> WriterOK /\ ListOK /\ OtherOK /\ PcOK
BY Zenon DEF TypeOK, WriterOK, ListOK, OtherOK, PcOK

LEMMA TypePartsNext == TypeOK' <=> WriterOK' /\ ListOK' /\ OtherOK' /\ PcOK'
BY Zenon DEF TypeOK, WriterOK, ListOK, OtherOK, PcOK

LEMMA PartsStay ==
  /\ WriterOK /\ UNCHANGED writerVars /\ UNCHANGED aborted => WriterOK'
  /\ ListOK /\ UNCHANGED cmsVars => ListOK'
  /\ OtherOK /\ UNCHANGED <<setup, result, job, target, boundVars>> => OtherOK'
  /\ PcOK /\ UNCHANGED pc => PcOK'
BY Zenon DEF WriterOK, ListOK, OtherOK, PcOK, writerVars, cmsVars, boundVars

LEMMA CallTypes ==
  ASSUME OtherOK, NEW t \in Threads, NEW j \in {"merge", "close", "delete_all", "force_merge", "stop"},
         Calls(t, j), UNCHANGED <<setup, result, target, added, drops, failures>>
  PROVE  OtherOK'
BY DEF OtherOK, Calls

LEMMA BodyOrWaitTypes ==
  ASSUME TypeOK, NEW t \in Threads, BodyOrWait(t),
         merging' \subseteq SUBSET Documents, pending' \in Seq(MergeIds), aborted' \subseteq MergeIds,
         UNCHANGED <<running, group, stopped>>
  PROVE  WriterOK' /\ PcOK'
<1>1. WriterOK /\ PcOK
  BY TypeParts, Zenon
<1>2. CASE merging' = {} /\ Body(t) /\ Moves(t, "idle")
  <2>1. segs' \subseteq SUBSET Documents
    BY <1>1, <1>2, Zenon DEF Body, WriterOK
  <2>2. paused_by' \subseteq Threads /\ asleep' \subseteq Threads
    BY <1>1, <1>2, Zenon DEF Body, WriterOK
  <2>3. QED
    BY <1>1, <1>2, <2>1, <2>2, Zenon DEF WriterOK, Moves
<1>3. CASE /\ merging' # {} /\ Moves(t, "await") /\ asleep' = asleep \union {t}
           /\ segs' = segs /\ paused_by' = paused_by
  <2>1. asleep' \subseteq Threads
    BY <1>1, <1>3, Zenon DEF WriterOK
  <2>2. QED
    BY <1>1, <1>3, <2>1, Zenon DEF WriterOK, Moves
<1>4. QED
  BY <1>1, <1>2, <1>3, BodyOrWaitMoves, Zenon

LEMMA SetTypes ==
  ASSUME WriterOK
  PROVE  /\ \A S : merging \ S \subseteq SUBSET Documents
         /\ \A S : segs \ S \subseteq SUBSET Documents
         /\ \A S : running \ S \subseteq MergeIds
         /\ \A m \in MergeIds : running \union {m} \subseteq MergeIds
         /\ aborted \union running \subseteq MergeIds
         /\ \A m \in MergeIds : Merged(m) \subseteq SUBSET Documents
         /\ <<>> \in Seq(MergeIds) /\ {} \subseteq Threads
         /\ pending # <<>> => Head(pending) \in MergeIds /\ Tail(pending) \in Seq(MergeIds)
<1>1. ASSUME NEW m \in MergeIds PROVE Merged(m) \subseteq SUBSET Documents
  <2>1. UNION group[m] \in SUBSET Documents /\ segs \subseteq SUBSET Documents
    BY Zenon DEF WriterOK
  <2>2. QED
    BY <2>1, Zenon DEF Merged
<1>2. pending # <<>> => Head(pending) \in MergeIds /\ Tail(pending) \in Seq(MergeIds)
  BY HeadTail, Zenon DEF WriterOK
<1>3. <<>> \in Seq(MergeIds)
  OBVIOUS
<1>4. QED
  BY <1>1, <1>2, <1>3, Zenon DEF WriterOK

LEMMA FailTypes ==
  ASSUME OtherOK, Fails, UNCHANGED <<setup, job, target, ops, added, drops>>,
         result' \in [MergeIds -> {"none", "ok", "aborted", "failed"}]
  PROVE  OtherOK'
BY DEF OtherOK, Fails

LEMMA ThreadTypeStep ==
  ASSUME TypeOK, QueueInv, NEW t \in Threads, Call(t) \/ ThreadStep(t)
  PROVE  TypeOK'
<1>0. WriterOK /\ ListOK /\ OtherOK /\ PcOK /\ t \in Actors
  BY TypeParts, LabelsFit, Zenon
<1>1. ASSUME NEW j \in {"merge", "close"}, ScheduleMerges(t, j) PROVE TypeOK'
  <2>1. PcOK'
    BY <1>0, <1>1, ScheduleMergesMoves, Zenon DEF Moves
  <2>2. OtherOK'
    BY <1>0, <1>1, CallTypes, Zenon DEF ScheduleMerges
  <2>3. ListOK'
    BY <1>0, <1>1, PartsStay, Zenon DEF ScheduleMerges
  <2>4. WriterOK'
    <3>1. /\ merging' \subseteq SUBSET Documents /\ pending' \in Seq(MergeIds)
          /\ group' \in [MergeIds -> SUBSET SUBSET Documents]
      BY <1>0, <1>1, ScheduleRegisters, RegisterTypes, Zenon DEF WriterOK
    <3>2. QED
      BY <1>0, <1>1, <3>1, Zenon DEF ScheduleMerges, WriterOK
  <2>5. QED
    BY <2>1, <2>2, <2>3, <2>4, TypePartsNext, Zenon
<1>2. ASSUME NEW j \in {"delete_all", "force_merge"}, CallExclusive(t, j) PROVE TypeOK'
  <2>1. PcOK'
    BY <1>0, <1>2, CallExclusiveMoves, Zenon DEF Moves
  <2>2. OtherOK'
    BY <1>0, <1>2, CallTypes, Zenon DEF CallExclusive
  <2>3. ListOK'
    BY <1>0, <1>2, PartsStay, Zenon DEF CallExclusive
  <2>4. WriterOK'
    <3>1. paused_by' \subseteq Threads
      BY <1>0, <1>2, Zenon DEF CallExclusive, WriterOK
    <3>2. QED
      BY <1>0, <1>2, <3>1, Zenon DEF CallExclusive, WriterOK
  <2>5. QED
    BY <2>1, <2>2, <2>3, <2>4, TypePartsNext, Zenon
<1>3. CASE StopMerges(t)
  <2>1. PcOK'
    BY <1>0, <1>3, StopMergesMoves, Zenon DEF Moves
  <2>2. OtherOK'
    BY <1>0, <1>3, CallTypes, Zenon DEF StopMerges
  <2>3. ListOK'
    BY <1>0, <1>3, PartsStay, Zenon DEF StopMerges
  <2>4. WriterOK'
    BY <1>0, <1>3, Zenon DEF StopMerges, WriterOK
  <2>5. QED
    BY <2>1, <2>2, <2>3, <2>4, TypePartsNext, Zenon
<1>4. CASE DropRegistered(t)
  <2>1. PcOK'
    BY <1>0, <1>4, DropRegisteredMoves, Zenon DEF Moves
  <2>2. ListOK' /\ OtherOK'
    BY <1>0, <1>4, PartsStay, Zenon DEF DropRegistered
  <2>3. WriterOK'
    BY <1>0, <1>4, SetTypes, Zenon DEF DropRegistered, WriterOK
  <2>4. QED
    BY <2>1, <2>2, <2>3, TypePartsNext, Zenon
<1>5. CASE AbortMerges(t)
  <2>1. ListOK' /\ OtherOK'
    BY <1>0, <1>5, PartsStay, Zenon DEF AbortMerges
  <2>2. WriterOK' /\ PcOK'
    BY <1>0, <1>5, SetTypes, BodyOrWaitTypes, Zenon DEF AbortMerges
  <2>3. QED
    BY <2>1, <2>2, TypePartsNext, Zenon
<1>6. CASE WaitForMerges(t)
  <2>1. ListOK' /\ OtherOK'
    BY <1>0, <1>6, PartsStay, Zenon DEF WaitForMerges
  <2>2. WriterOK' /\ PcOK'
    BY <1>0, <1>6, SetTypes, BodyOrWaitTypes, Zenon DEF WaitForMerges, AbortStarted, WriterOK
  <2>3. QED
    BY <2>1, <2>2, TypePartsNext, Zenon
<1>7. CASE SerialNext(t)
  <2>1. pending \in Seq(MergeIds)
    BY <1>0, Zenon DEF WriterOK
  <2>2. CASE /\ monitor' = None /\ pending' = pending /\ target' = target
             /\ Moves(t, Returned(t))
    <3>1. WriterOK' /\ OtherOK'
      BY <1>0, <1>7, <2>2, PartsStay, Zenon DEF SerialNext, writerVars
    <3>2. ListOK'
      BY <1>0, <1>7, <2>2, Zenon DEF SerialNext, ListOK
    <3>3. QED
      BY <2>2, <3>1, <3>2, TypePartsNext, Zenon DEF Moves
  <2>3. CASE /\ Takes(t, "serial") /\ monitor' = t /\ pending' = Tail(pending)
             /\ target' = [target EXCEPT ![t] = Head(pending)]
    <3>1. WriterOK'
      BY <1>0, <1>7, <2>3, SetTypes, Zenon DEF SerialNext, WriterOK, Takes
    <3>2. target' \in [Threads -> MergeIds \union {0}]
      BY <1>0, <2>3, Zenon DEF OtherOK, Takes
    <3>3. OtherOK'
      BY <1>0, <1>7, <3>2, Zenon DEF SerialNext, OtherOK, boundVars
    <3>4. ListOK'
      BY <1>0, <1>7, <2>3, Zenon DEF SerialNext, ListOK
    <3>5. QED
      BY <2>3, <3>1, <3>3, <3>4, TypePartsNext, Zenon DEF Takes
  <2>4. QED
    BY <1>0, <1>7, <2>1, <2>2, <2>3, SerialNextMoves, Zenon
<1>8. CASE SerialFails(t)
  <2>1. PcOK'
    BY <1>0, <1>8, SerialFailsMoves, Zenon DEF Moves
  <2>2. WriterOK' /\ OtherOK'
    BY <1>0, <1>8, PartsStay, Zenon DEF SerialFails
  <2>3. ListOK'
    BY <1>0, <1>8, Zenon DEF SerialFails, ListOK
  <2>4. QED
    BY <2>1, <2>2, <2>3, TypePartsNext, Zenon
<1>9. CASE TakeHandle(t)
  <2>1. PcOK'
    BY <1>0, <1>9, TakeHandleMoves, Zenon DEF Moves
  <2>2. WriterOK'
    BY <1>0, <1>9, PartsStay, Zenon DEF TakeHandle
  <2>3. PICK m \in handles : handles' = handles \ {m} /\ target' = [target EXCEPT ![t] = m]
    BY <1>9, Zenon DEF TakeHandle
  <2>4. m \in MergeIds
    BY <1>0, <2>3 DEF ListOK, Range
  <2>5. ListOK'
    BY <1>0, <1>9, <2>3, Zenon DEF TakeHandle, ListOK
  <2>6. target' \in [Threads -> MergeIds \union {0}]
    BY <1>0, <2>3, <2>4, Zenon DEF OtherOK
  <2>7. OtherOK'
    BY <1>0, <1>9, <2>6, Zenon DEF TakeHandle, OtherOK, boundVars
  <2>8. QED
    BY <2>1, <2>2, <2>5, <2>7, TypePartsNext, Zenon
<1>10. CASE Join(t)
  <2>1. PcOK'
    BY <1>0, <1>10, JoinMoves, Zenon DEF Moves
  <2>2. QED
    BY <1>0, <1>10, <2>1, PartsStay, TypePartsNext, Zenon DEF Join
<1>11. CASE SyncReturns(t)
  <2>1. PcOK'
    BY <1>0, <1>11, SyncReturnsMoves, Zenon DEF Moves
  <2>2. WriterOK' /\ OtherOK'
    BY <1>0, <1>11, PartsStay, Zenon DEF SyncReturns
  <2>3. ListOK'
    BY <1>0, <1>11 DEF SyncReturns, ListOK
  <2>4. QED
    BY <2>1, <2>2, <2>3, TypePartsNext, Zenon
<1>12. QED
  BY <1>1, <1>2, <1>3, <1>4, <1>5, <1>6, <1>7, <1>8, <1>9, <1>10, <1>11, Zenon DEF Call, ThreadStep

LEMMA SchedulerTypeStep ==
  ASSUME TypeOK, QueueInv, ListInv, NEW a \in Actors, SchedulerStep(a)
  PROVE  TypeOK'
<1>0. WriterOK /\ ListOK /\ OtherOK /\ PcOK /\ pending \in Seq(MergeIds)
  BY TypeParts, Zenon DEF WriterOK
<1>1. CASE MaybeStall(a)
  <2>1. PcOK' /\ monitor' \in Actors \union {None}
    BY <1>0, <1>1, MaybeStallMoves, Zenon DEF Moves
  <2>2. WriterOK' /\ OtherOK'
    BY <1>0, <1>1, PartsStay, Zenon DEF MaybeStall
  <2>3. ListOK'
    BY <1>0, <1>1, <2>1, Zenon DEF MaybeStall, ListOK
  <2>4. QED
    BY <2>1, <2>2, <2>3, TypePartsNext, Zenon
<1>2. CASE NextMergeNone(a)
  <2>1. PcOK'
    BY <1>0, <1>2, ReturnedMoves, Zenon DEF Moves, NextMergeNone
  <2>2. WriterOK' /\ OtherOK'
    BY <1>0, <1>2, PartsStay, Zenon DEF NextMergeNone
  <2>3. ListOK'
    BY <1>0, <1>2, Zenon DEF NextMergeNone, ListOK
  <2>4. QED
    BY <2>1, <2>2, <2>3, TypePartsNext, Zenon
<1>3. CASE StartMergeThread(a)
  <2>1. Takes(a, "check")
    BY <1>0, <1>3, StartMergeThreadMoves, Zenon
  <2>2. WriterOK'
    BY <1>0, <1>3, SetTypes, Zenon DEF StartMergeThread, WriterOK
  <2>3. OtherOK'
    BY <1>0, <1>3, PartsStay, Zenon DEF StartMergeThread
  <2>4. /\ list' = Append(list, Head(pending)) /\ handles' = handles \union {Head(pending)}
        /\ paused' = PausedOf(list')
    BY <1>3, Zenon DEF StartMergeThread
  <2>5. Head(pending) \notin Range(list)
    BY <2>1, Zenon DEF Takes, ListInv, SchedulerStep
  <2>6. list' \in Seq(MergeIds) /\ Range(list') = Range(list) \union {Head(pending)}
    BY <1>0, <2>1, <2>4, <2>5, AppendOne DEF Takes, ListOK
  <2>7. handles' \subseteq Range(list') /\ paused' \subseteq Range(list')
    BY <1>0, <2>4, <2>6, PausedListed, Zenon DEF ListOK
  <2>8. ListOK'
    BY <1>0, <1>3, <2>6, <2>7, Zenon DEF StartMergeThread, ListOK
  <2>9. QED
    BY <2>1, <2>2, <2>3, <2>8, TypePartsNext, Zenon DEF Takes
<1>4. CASE StartMergeThreadFails(a)
  <2>1. PcOK' /\ monitor' \in Actors \union {None} /\ errors' \in {errors, errors + 1}
    BY <1>0, <1>4, StartMergeThreadFailsMoves, Zenon DEF Moves, ListOK
  <2>2. WriterOK'
    BY <1>0, <1>4, SetTypes, Zenon DEF StartMergeThreadFails, WriterOK, on_merge_finished
  <2>3. OtherOK'
    BY <1>0, <1>4, FailTypes, Zenon DEF StartMergeThreadFails, OtherOK
  <2>4. errors' \in Nat
    BY <1>0, <2>1 DEF ListOK
  <2>5. ListOK'
    BY <1>0, <1>4, <2>1, <2>4, Zenon DEF StartMergeThreadFails, ListOK
  <2>6. QED
    BY <2>1, <2>2, <2>3, <2>5, TypePartsNext, Zenon
<1>5. QED
  BY <1>1, <1>2, <1>3, <1>4, Zenon DEF SchedulerStep

LEMMA MergeTypeStep ==
  ASSUME TypeOK, QueueInv, NEW m \in MergeIds, MergeStep(m)
  PROVE  TypeOK'
<1>0. WriterOK /\ ListOK /\ OtherOK /\ PcOK
  BY TypeParts, Zenon
<1>r. \A r \in {"ok", "aborted", "failed"} :
        [result EXCEPT ![m] = r] \in [MergeIds -> {"none", "ok", "aborted", "failed"}]
  BY <1>0 DEF OtherOK
<1>1. CASE BeginMerge(m)
  <2>1. PcOK'
    BY <1>0, <1>1, BeginMergeMoves, Zenon DEF Moves
  <2>2. WriterOK'
    BY <1>0, <1>1, SetTypes, Zenon DEF BeginMerge, WriterOK
  <2>3. QED
    BY <1>0, <1>1, <2>1, <2>2, PartsStay, TypePartsNext, Zenon DEF BeginMerge
<1>2. CASE BeginMergeFails(m)
  <2>1. PcOK'
    BY <1>0, <1>2, OverMoves, Zenon DEF Moves, BeginMergeFails
  <2>2. WriterOK'
    BY <1>0, <1>2, SetTypes, Zenon DEF BeginMergeFails, WriterOK, on_merge_finished
  <2>3. ListOK'
    BY <1>0, <1>2, PartsStay, Zenon DEF BeginMergeFails
  <2>4. OtherOK'
    BY <1>0, <1>2, <1>r, FailTypes, Zenon DEF BeginMergeFails
  <2>5. QED
    BY <2>1, <2>2, <2>3, <2>4, TypePartsNext, Zenon
<1>3. CASE BeginMergePanics(m)
  <2>1. PcOK'
    BY <1>0, <1>3, OverMoves, Zenon DEF Moves, BeginMergePanics
  <2>2. WriterOK' /\ ListOK'
    BY <1>0, <1>3, PartsStay, Zenon DEF BeginMergePanics
  <2>3. OtherOK'
    BY <1>0, <1>3, <1>r, Zenon DEF BeginMergePanics, OtherOK, boundVars
  <2>4. QED
    BY <2>1, <2>2, <2>3, TypePartsNext, Zenon
<1>4. CASE RunMerge(m)
  <2>1. PcOK'
    BY <1>0, <1>4, RunMergeMoves, Zenon DEF Moves
  <2>2. WriterOK' /\ ListOK'
    BY <1>0, <1>4, PartsStay, Zenon DEF RunMerge
  <2>3. OtherOK'
    BY <1>0, <1>4, <1>r DEF RunMerge, OtherOK, Fails
  <2>4. QED
    BY <2>1, <2>2, <2>3, TypePartsNext, Zenon
<1>5. CASE FinishMerge(m)
  <2>1. PcOK'
    BY <1>0, <1>5, OverMoves, Zenon DEF Moves, FinishMerge
  <2>2. ListOK' /\ OtherOK'
    BY <1>0, <1>5, PartsStay, Zenon DEF FinishMerge
  <2>3. /\ merging' \subseteq SUBSET Documents /\ pending' \in Seq(MergeIds)
        /\ group' \in [MergeIds -> SUBSET SUBSET Documents] /\ segs' \subseteq SUBSET Documents
    <3>1. CASE result[m] = "ok"
      <4> DEFINE S == segs'
                 C == merging \ group[m]
      <4>1. segs' = segs \/ segs' = Merged(m)
        BY <1>5, <3>1, Zenon DEF FinishMerge
      <4>2. S \in SUBSET SUBSET Documents /\ C \in SUBSET SUBSET Documents
        BY <1>0, <4>1, SetTypes, Zenon DEF WriterOK
      <4>3. PICK N \in SUBSET MergeIds : Registers(S, C, N)
        BY <1>5, <3>1, FinishRegisters, Zenon
      <4> HIDE DEF S, C
      <4>4. /\ merging' \subseteq SUBSET Documents /\ pending' \in Seq(MergeIds)
            /\ group' \in [MergeIds -> SUBSET SUBSET Documents]
        BY <4>2, <4>3, RegisterTypes, Zenon
      <4>5. QED
        BY <4>2, <4>4, Zenon DEF S
    <3>2. CASE result[m] # "ok"
      BY <1>0, <1>5, <3>2, SetTypes, Zenon DEF FinishMerge, on_merge_finished, WriterOK
    <3>3. QED
      BY <3>1, <3>2, Zenon
  <2>4. WriterOK'
    BY <1>0, <1>5, <2>3, SetTypes, Zenon DEF FinishMerge, WriterOK
  <2>5. QED
    BY <2>1, <2>2, <2>4, TypePartsNext, Zenon
<1>6. CASE FinishMergeFails(m)
  <2>1. PcOK'
    BY <1>0, <1>6, OverMoves, Zenon DEF Moves, FinishMergeFails
  <2>2. ListOK'
    BY <1>0, <1>6, PartsStay, Zenon DEF FinishMergeFails
  <2>3. OtherOK'
    BY <1>0, <1>6, <1>r, FailTypes, Zenon DEF FinishMergeFails
  <2>4. segs' \subseteq SUBSET Documents
    BY <1>0, <1>6, SetTypes DEF FinishMergeFails, WriterOK
  <2>5. WriterOK'
    BY <1>0, <1>6, <2>4, SetTypes, Zenon DEF FinishMergeFails, WriterOK, on_merge_finished
  <2>6. QED
    BY <2>1, <2>2, <2>3, <2>5, TypePartsNext, Zenon
<1>7. CASE LeaveList(m)
  <2>1. PcOK'
    BY <1>0, <1>7, LeaveListMoves, Zenon DEF Moves
  <2>2. WriterOK' /\ OtherOK'
    BY <1>0, <1>7, PartsStay, Zenon DEF LeaveList
  <2>3. PICK i \in DOMAIN list : list[i] = m /\ list' = Without(list, i)
    BY <1>7, Zenon DEF LeaveList
  <2>4. list' \in Seq(MergeIds) /\ Range(list) \ {m} \subseteq Range(list')
    BY <1>0, <2>3, WithoutOne, Zenon DEF ListOK
  <2>5. handles' \subseteq Range(list')
    BY <1>0, <1>7, <2>4, Zenon DEF ListOK, LeaveList
  <2>6. paused' \subseteq Range(list')
    BY <1>7, PausedListed, Zenon DEF LeaveList, UpdateOnLeave
  <2>7. errors' \in Nat
    BY <1>0, <1>7 DEF LeaveList, ListOK
  <2>8. ListOK'
    BY <1>0, <1>7, <2>4, <2>5, <2>6, <2>7, Zenon DEF LeaveList, ListOK
  <2>9. QED
    BY <2>1, <2>2, <2>8, TypePartsNext, Zenon
<1>8. CASE DropSource(m)
  <2>1. PcOK'
    BY <1>0, <1>8, DropSourceMoves, Zenon DEF Moves
  <2>2. QED
    BY <1>0, <1>8, <2>1, PartsStay, TypePartsNext, Zenon DEF DropSource
<1>9. QED
  BY <1>1, <1>2, <1>3, <1>4, <1>5, <1>6, <1>7, <1>8, Zenon DEF MergeStep

LEMMA TypeStep ==
  ASSUME TypeOK, QueueInv, ListInv, [Next]_vars
  PROVE  TypeOK'
<1>0. WriterOK /\ ListOK /\ OtherOK /\ PcOK
  BY TypeParts, Zenon
<1>1. CASE Publish
  <2>1. WriterOK'
    BY <1>0, <1>1, Zenon DEF Publish, WriterOK
  <2>2. OtherOK'
    BY <1>0, <1>1, Zenon DEF Publish, OtherOK
  <2>3. QED
    BY <1>0, <1>1, <2>1, <2>2, PartsStay, TypePartsNext, Zenon DEF Publish
<1>2. ASSUME NEW s \in segs, DropSegment(s) PROVE TypeOK'
  <2>1. WriterOK'
    BY <1>0, <1>2, SetTypes, Zenon DEF DropSegment, WriterOK
  <2>2. OtherOK'
    BY <1>0, <1>2 DEF DropSegment, OtherOK
  <2>3. QED
    BY <1>0, <1>2, <2>1, <2>2, PartsStay, TypePartsNext, Zenon DEF DropSegment
<1>3. CASE UNCHANGED vars
  BY <1>0, <1>3, PartsStay, TypePartsNext, Zenon DEF vars, boundVars
<1>4. QED
  BY <1>1, <1>2, <1>3, ThreadTypeStep, SchedulerTypeStep, MergeTypeStep, Zenon DEF Next

=============================================================================
