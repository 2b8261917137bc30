---------------------------- MODULE MergeProofs -----------------------------
(***************************************************************************)
(* Theorems about MergeScheduler, for any number of threads, documents and *)
(* merges: the claims of merges, the merges held back, the threads that    *)
(* wait for them, the pauses, close_merges, and that merging implements    *)
(* SegmentStore.                                                           *)
(***************************************************************************)
EXTENDS MergeStoreProofs

-----------------------------------------------------------------------------
(* The listed threads and their rates *)

\* A merge keeps its segments.
LEMMA GroupStep ==
  ASSUME TypeOK, QueueInv, [Next]_vars
  PROVE  \A m \in MergeIds : group[m] # {} => group'[m] = group[m]
<1>1. ASSUME \E R, N \in SUBSET MergeIds : Turns(R, N)
      PROVE  \A m \in MergeIds : group[m] # {} => group'[m] = group[m]
  BY <1>1, Zenon DEF Turns
<1>2. ASSUME NEW m \in MergeIds, BeginMergePanics(m) PROVE group' = group
  BY <1>2, Zenon DEF BeginMergePanics, writerVars
<1>3. ASSUME Publish \/ (\E s \in segs : DropSegment(s)) \/ UNCHANGED vars PROVE group' = group
  BY <1>3, Zenon DEF Publish, DropSegment, vars, writerVars
<1>4. QED
  BY <1>1, <1>2, <1>3, ThreadStepTurns, SchedulerStepTurns, MergeStepTurns, Zenon DEF Next

\* The rates are a matter of the sizes of the listed merges alone.
Sizes == [i \in DOMAIN list |-> Size(list[i])]

LEMMA PausedIs == PausedOf(list) = {list[j] : j \in Slowed(Sizes)}
<1>1. \A j \in DOMAIN list : Before(Sizes, j) = Ahead(list, j)
  BY Zenon DEF Before, Sizes, Ahead
<1>2. BigOnes(Sizes) = {i \in DOMAIN list : Size(list[i]) > BigMerge} /\ DOMAIN Sizes = DOMAIN list
  BY Zenon DEF BigOnes, Sizes
<1>3. Slowed(Sizes) = {k \in DOMAIN list : Cardinality(Ahead(list, k)) <
           Cardinality({i \in DOMAIN list : Size(list[i]) > BigMerge}) - MaxThreadCount}
  BY <1>1, <1>2, Zenon DEF Slowed
<1>4. QED
  BY <1>3, Zenon DEF PausedOf

LEMMA PausedIsNext == (PausedOf(list) = {list[j] : j \in Slowed(Sizes)})'
BY PausedIs, PTL

LEMMA PausedSame ==
  ASSUME list' = list, \A m \in Range(list) : group'[m] = group[m]
  PROVE  PausedOf(list)' = PausedOf(list)
<1>1. \A i \in DOMAIN list : Size(list[i])' = Size(list[i])
  BY Zenon DEF Size, Range
<1>2. Sizes' = Sizes
  BY <1>1, Zenon DEF Sizes
<1>3. QED
  BY <1>2, PausedIs, PausedIsNext, Zenon

LEMMA PausedNow == ASSUME group' = group PROVE PausedOf(list') = PausedOf(list)'
BY Zenon DEF PausedOf, Ahead, Size

\* A merge not listed yet, or no more.
Unlisted == {"none", "dropping", "gone"}

ListCalm ==
    /\ list' = list /\ paused' = paused /\ setup' = setup
    /\ Scheduler = "concurrent" =>
         /\ \A m \in MergeIds : pc'[m] \in Unlisted <=> pc[m] \in Unlisted
         /\ \A a \in Actors : pc'[a] \in {"serial", "ended"} => pc[a] \in {"serial", "ended"}

LEMMA ListedMerges ==
  ASSUME TypeOK, QueueInv, ListInv
  PROVE  /\ Scheduler = "concurrent" \/ Scheduler = "serial"
         /\ Range(list) \subseteq MergeIds /\ \A m \in Range(list) : group[m] # {} /\ pc[m] # "none"
<1>1. Scheduler = "concurrent" \/ Scheduler = "serial"
  BY SchedulerAssumption, Zenon DEF TypeOK, Setup, Scheduler
<1>2. Range(list) \subseteq MergeIds
  BY DEF TypeOK, Range
<1>3. ASSUME NEW m \in Range(list) PROVE pc[m] # "none"
  <2>1. CASE Scheduler = "concurrent"
    BY <1>2, <1>3, <2>1, Zenon DEF ListInv
  <2>2. CASE Scheduler = "serial"
    BY <1>3, <2>2 DEF ListInv, Range
  <2>3. QED
    BY <1>1, <2>1, <2>2, Zenon
<1>4. QED
  BY <1>1, <1>2, <1>3, Zenon DEF QueueInv

LEMMA ListCalmStep ==
  ASSUME TypeOK, QueueInv, ListInv, ListCalm, \A m \in MergeIds : group[m] # {} => group'[m] = group[m]
  PROVE  ListInv'
<1>1. \A m \in Range(list) : group'[m] = group[m]
  BY ListedMerges, Zenon
<1>2. PausedOf(list)' = PausedOf(list)
  BY <1>1, PausedSame, Zenon DEF ListCalm
<1>3. Scheduler' = Scheduler
  BY Zenon DEF Scheduler, ListCalm
<1>4. Scheduler = "concurrent" =>
         /\ \A m \in MergeIds : m \in Range(list) <=> pc'[m] \notin Unlisted
         /\ \A a \in Actors : pc'[a] \notin {"serial", "ended"}
  BY Zenon DEF ListInv, ListCalm, Unlisted
<1>5. QED
  BY <1>2, <1>3, <1>4, Zenon DEF ListInv, ListCalm, Unlisted

LEMMA MovesListCalm ==
  ASSUME NEW a \in Actors, NEW l, Moves(a, l), UNCHANGED <<list, paused, setup>>,
         Scheduler = "concurrent" =>
           /\ a \in MergeIds => (l \in Unlisted <=> pc[a] \in Unlisted)
           /\ l \notin {"serial", "ended"}
  PROVE  ListCalm
BY LabelsFit, Zenon DEF ListCalm, Moves, OnlyMoves

LEMMA StartList ==
  ASSUME TypeOK, QueueInv, ListInv, Scheduler = "concurrent", NEW a \in Actors, StartMergeThread(a)
  PROVE  ListInv'
<1> DEFINE h == Head(pending)
<1>0. PcOK /\ pending \in Seq(MergeIds) /\ list \in Seq(MergeIds)
  BY TypeParts, Zenon DEF WriterOK, TypeOK
<1>1. pc[a] = "pop" /\ Takes(a, "check")
  BY <1>0, StartMergeThreadMoves, Zenon
<1>2. /\ list' = Append(list, h) /\ paused' = PausedOf(list') /\ group' = group /\ setup' = setup
  BY Zenon DEF StartMergeThread
<1>3. h \in MergeIds /\ pc[h] = "none" /\ h # a /\ pc'[h] = "new" /\ pc'[a] = "check"
      /\ \A b \in Actors : b # a /\ b # h => pc'[b] = pc[b]
  BY <1>1, Zenon DEF Takes
<1> HIDE DEF h
<1>4. h \notin Range(list)
  BY <1>3, ListedMerges, Zenon
<1>5. Distinct(list') /\ Range(list') = Range(list) \union {h}
  <2>1. Distinct(list)
    BY Zenon DEF ListInv, Distinct
  <2>2. /\ Range(Append(list, h)) = Range(list) \union {h}
        /\ Distinct(list) => Distinct(Append(list, h))
    BY <1>0, <1>3, <1>4, AppendOne
  <2>3. QED
    BY <1>2, <2>1, <2>2, Zenon
<1>6. ASSUME NEW m \in MergeIds PROVE m \in Range(list') <=> pc'[m] \notin Unlisted
  <2>1. m \in Range(list) <=> pc[m] \notin Unlisted
    BY Zenon DEF ListInv, Unlisted
  <2>2. CASE m = h
    BY <1>3, <1>5, <2>2, Zenon DEF Unlisted
  <2>3. CASE m = a
    BY <1>1, <1>3, <1>5, <2>1, <2>3, Zenon DEF Unlisted
  <2>4. CASE m # h /\ m # a
    BY <1>3, <1>5, <2>1, <2>4, LabelsFit, Zenon
  <2>5. QED
    BY <2>2, <2>3, <2>4, Zenon
<1>7. \A b \in Actors : pc'[b] \notin {"serial", "ended"}
  BY <1>3, Zenon DEF ListInv
<1>8. paused' = PausedOf(list)'
  BY <1>2, PausedNow, Zenon
<1>9. Scheduler' = "concurrent" /\ Scheduler' # "serial"
  BY <1>2, Zenon DEF Scheduler
<1>10. QED
  BY <1>5, <1>6, <1>7, <1>8, <1>9, Zenon DEF ListInv, Distinct, Unlisted

LEMMA LeaveListList ==
  ASSUME TypeOK, QueueInv, ListInv, NEW m \in MergeIds, LeaveList(m)
  PROVE  ListInv'
<1>0. PcOK /\ list \in Seq(MergeIds)
  BY TypeParts, Zenon DEF TypeOK
<1>1. PICK i \in DOMAIN list : list[i] = m /\ list' = Without(list, i)
  BY Zenon DEF LeaveList
<1>2. paused' = PausedOf(list') /\ group' = group /\ setup' = setup
  BY Zenon DEF LeaveList, UpdateOnLeave, writerVars
<1>3. Moves(m, "dropping")
  BY <1>0, LeaveListMoves, Zenon
<1>4. Distinct(list') /\ Range(list') = Range(list) \ {m}
  <2>1. Distinct(list)
    BY Zenon DEF ListInv, Distinct
  <2>2. Distinct(list) => Distinct(Without(list, i)) /\ Range(Without(list, i)) = Range(list) \ {list[i]}
    BY <1>0, WithoutOne, Zenon
  <2>3. QED
    BY <1>1, <2>1, <2>2, Zenon
<1>5. Scheduler = "concurrent"
  <2>1. m \in Range(list)
    BY <1>1, Zenon DEF Range
  <2>2. Scheduler = "serial" => list = <<>>
    BY Zenon DEF ListInv
  <2>3. list # <<>>
    BY <1>1
  <2>4. QED
    BY <2>2, <2>3, ListedMerges, Zenon
<1>6. ASSUME NEW n \in MergeIds PROVE n \in Range(list') <=> pc'[n] \notin Unlisted
  <2>1. n \in Range(list) <=> pc[n] \notin Unlisted
    BY <1>5, Zenon DEF ListInv, Unlisted
  <2>2. CASE n = m
    BY <1>3, <1>4, <2>2, Zenon DEF Unlisted, Moves
  <2>3. CASE n # m
    BY <1>3, <1>4, <2>1, <2>3, MergeMove, Zenon
  <2>4. QED
    BY <2>2, <2>3, Zenon
<1>7. \A b \in Actors : pc'[b] \notin {"serial", "ended"}
  <2>1. \A b \in Actors : pc[b] \notin {"serial", "ended"}
    BY <1>5, Zenon DEF ListInv
  <2>2. pc'[m] = "dropping" /\ \A b \in Actors : b # m => pc'[b] = pc[b]
    BY <1>3, Zenon DEF Moves, OnlyMoves
  <2>3. QED
    BY <2>1, <2>2, Zenon
<1>8. paused' = PausedOf(list)'
  BY <1>2, PausedNow, Zenon
<1>9. Scheduler' = "concurrent" /\ Scheduler' # "serial"
  BY <1>2, <1>5, Zenon DEF Scheduler
<1>10. QED
  BY <1>4, <1>6, <1>7, <1>8, <1>9, Zenon DEF ListInv, Distinct, Unlisted

LEMMA ListStep ==
  ASSUME TypeOK, QueueInv, ListInv, [Next]_vars
  PROVE  ListInv'
<1>0. PcOK /\ pending \in Seq(MergeIds) /\ Threads \subseteq Actors /\ MergeIds \subseteq Actors
      /\ \A t \in Threads : t \notin MergeIds
  BY TypeParts, LabelsFit, Zenon DEF WriterOK
<1>c. ASSUME ListCalm PROVE ListInv'
  BY <1>c, GroupStep, ListCalmStep, Zenon
<1>t. ASSUME NEW t \in Threads, NEW l, Moves(t, l), l \notin {"serial", "ended"},
             UNCHANGED <<list, paused, setup>>
      PROVE  ListInv'
  BY <1>0, <1>c, <1>t, MovesListCalm, Zenon
<1>1. ASSUME Publish \/ (\E s \in segs : DropSegment(s)) \/ UNCHANGED vars PROVE ListInv'
  <2>1. UNCHANGED <<list, paused, setup, pc>>
    BY <1>1, Zenon DEF Publish, DropSegment, vars, cmsVars
  <2>2. QED
    BY <1>c, <2>1, Zenon DEF ListCalm
<1>2. ASSUME NEW t \in Threads, Call(t) PROVE ListInv'
  <2>1. PICK l \in {"enter", "stopping", "exclusive"} : Moves(t, l)
    BY <1>0, <1>2, ScheduleMergesMoves, CallExclusiveMoves, StopMergesMoves, Zenon DEF Call
  <2>2. UNCHANGED <<list, paused, setup>>
    BY <1>2, Zenon DEF Call, ScheduleMerges, CallExclusive, StopMerges, cmsVars
  <2>3. l \notin {"serial", "ended"}
    BY Zenon
  <2>4. QED
    BY <1>t, <2>1, <2>2, <2>3, Zenon
<1>3. ASSUME NEW t \in Threads, DropRegistered(t) \/ AbortMerges(t) \/ WaitForMerges(t) \/ SerialFails(t)
                                \/ TakeHandle(t) \/ Join(t) \/ SyncReturns(t)
      PROVE  ListInv'
  <2>1. PICK l \in {"idle", "await", "join", "sync"} : Moves(t, l)
    BY <1>0, <1>3, DropRegisteredMoves, BodyOrWaitMoves, SerialFailsMoves, TakeHandleMoves, JoinMoves,
       SyncReturnsMoves, Zenon
       DEF AbortMerges, WaitForMerges
  <2>2. UNCHANGED <<list, paused, setup>>
    BY <1>3, Zenon DEF DropRegistered, AbortMerges, WaitForMerges, SerialFails, TakeHandle, Join,
                       SyncReturns, cmsVars
  <2>3. l \notin {"serial", "ended"}
    BY Zenon
  <2>4. QED
    BY <1>t, <2>1, <2>2, <2>3, Zenon
<1>4. ASSUME NEW t \in Threads, Scheduler = "serial", SerialNext(t) PROVE ListInv'
  <2>1. UNCHANGED <<list, paused, setup>> /\ Scheduler # "concurrent"
    BY <1>4, Zenon DEF SerialNext
  <2>2. QED
    BY <1>c, <2>1, Zenon DEF ListCalm
<1>5. ASSUME NEW a \in Actors, MaybeStall(a) \/ NextMergeNone(a) \/ StartMergeThreadFails(a) PROVE ListInv'
  <2>1. PICK l \in {"leave", "stalled", "pop", "sync", "idle", "check"} : Moves(a, l)
    BY <1>0, <1>5, MaybeStallMoves, ReturnedMoves, StartMergeThreadFailsMoves, Zenon DEF NextMergeNone, Actors
  <2>2. pc[a] \in {"enter", "stalled", "done", "check", "pop"}
    BY <1>5, Zenon DEF MaybeStall, NextMergeNone, StartMergeThreadFails
  <2>3. pc[a] \notin Unlisted /\ l \notin Unlisted /\ l \notin {"serial", "ended"}
    BY <2>2, Zenon DEF Unlisted
  <2>4. UNCHANGED <<list, paused, setup>>
    BY <1>5, Zenon DEF MaybeStall, NextMergeNone, StartMergeThreadFails
  <2>5. QED
    BY <1>c, <2>1, <2>3, <2>4, MovesListCalm, Zenon
<1>6. ASSUME NEW m \in MergeIds, MergeStep(m), ~LeaveList(m) PROVE ListInv'
  <2>1. UNCHANGED <<list, paused, setup>>
    BY <1>6, Zenon DEF MergeStep, BeginMerge, BeginMergeFails, BeginMergePanics, RunMerge,
                       FinishMerge, FinishMergeFails, DropSource, cmsVars
  <2>2. CASE DropSource(m)
    <3>1. Moves(m, "gone") /\ pc[m] \in Unlisted /\ "gone" \in Unlisted /\ "gone" \notin {"serial", "ended"}
      BY <1>0, <2>2, DropSourceMoves, Zenon DEF Unlisted
    <3>2. QED
      BY <1>0, <1>c, <2>1, <3>1, MovesListCalm, Zenon
  <2>3. CASE BeginMerge(m) \/ RunMerge(m)
    <3>1. PICK l \in {"merging", "ran"} : Moves(m, l)
      BY <1>0, <2>3, BeginMergeMoves, RunMergeMoves, Zenon
    <3>2. pc[m] \notin Unlisted /\ l \notin Unlisted /\ l \notin {"serial", "ended"}
      BY <2>3, Zenon DEF Unlisted, BeginMerge, RunMerge
    <3>3. QED
      BY <1>0, <1>c, <2>1, <3>1, <3>2, MovesListCalm, Zenon
  <2>4. ASSUME NEW how, Goto(m, Over(how)), pc[m] \in {"new", "ran"} PROVE ListInv'
    <3>1. Moves(m, Over(how)) /\ Over(how) \in Overs /\ (Over(how) = "ended" <=> Scheduler = "serial")
      BY <1>0, <2>4, OverMoves, Zenon
    <3>2. pc[m] \notin Unlisted /\ \A l \in Overs : l \notin Unlisted /\ l # "serial"
      BY <2>4, Zenon DEF Unlisted, Overs
    <3>3. Scheduler = "concurrent" => Over(how) \notin {"serial", "ended"}
      BY <3>1, <3>2, Zenon
    <3>4. QED
      BY <1>0, <1>c, <2>1, <3>1, <3>2, <3>3, MovesListCalm, Zenon
  <2>5. CASE BeginMergeFails(m) \/ BeginMergePanics(m)
    <3>1. Goto(m, Over("failed")) /\ pc[m] \in {"new", "ran"}
      BY <2>5, Zenon DEF BeginMergeFails, BeginMergePanics
    <3>2. QED
      BY <2>4, <3>1, Zenon
  <2>6. CASE FinishMerge(m)
    BY <2>4, <2>6, Zenon DEF FinishMerge
  <2>7. CASE FinishMergeFails(m)
    BY <2>4, <2>7, Zenon DEF FinishMergeFails
  <2>8. QED
    BY <1>6, <2>2, <2>3, <2>5, <2>6, <2>7, Zenon DEF MergeStep
<1>7. QED
  BY <1>1, <1>2, <1>3, <1>4, <1>5, <1>6, StartList, LeaveListList, Zenon
     DEF Next, ThreadStep, SchedulerStep

-----------------------------------------------------------------------------
(* Merges on the caller's thread *)

Threaded == {"serial", "check", "pop", "stalled", "join"}

\* No merge is taken, and who runs one goes on with it until it has ended.
SerialCalm ==
    /\ \A u \in Threads : \/ pc'[u] = pc[u] /\ target'[u] = target[u]
                          \/ /\ pc'[u] \notin Threaded
                             /\ pc[u] = "serial" => pc[target[u]] = "ended"
    /\ \A m \in Taken' : m \in Taken

LEMMA SerialCalmStep ==
  ASSUME TypeOK, SerialInv, Flow, SerialCalm, Scheduler = "serial"
  PROVE  SerialInv'
<1>1. ASSUME NEW m \in MergeIds PROVE pc'[m] \in {"none", "new", "merging", "ran", "ended"}
  <2>1. MergeFlow(m) /\ pc[m] \in {"none", "new", "merging", "ran", "ended"}
    BY Zenon DEF Flow, SerialInv
  <2>2. QED
    BY <2>1, Zenon DEF MergeFlow, Overs
<1>2. ASSUME NEW m \in Taken' PROVE \E t \in Threads : pc'[t] = "serial" /\ target'[t] = m
  <2>1. m \in Taken
    BY Zenon DEF SerialCalm
  <2>2. PICK t \in Threads : pc[t] = "serial" /\ target[t] = m
    BY <2>1, Zenon DEF SerialInv
  <2>3. pc[m] # "ended"
    BY <2>1, Zenon DEF Taken
  <2>4. QED
    BY <2>2, <2>3, Zenon DEF SerialCalm
<1>3. ASSUME NEW t \in Threads PROVE pc'[t] \notin {"check", "pop", "stalled", "join"}
  <2>1. pc[t] \notin {"check", "pop", "stalled", "join"}
    BY Zenon DEF SerialInv
  <2>2. pc'[t] = pc[t] \/ pc'[t] \notin Threaded
    BY Zenon DEF SerialCalm
  <2>3. QED
    BY <2>1, <2>2, Zenon DEF Threaded
<1>4. ASSUME NEW t \in Threads, pc'[t] = "serial" PROVE target'[t] \in MergeIds /\ pc'[target'[t]] # "none"
  <2>1. pc[t] = "serial" /\ target'[t] = target[t]
    BY <1>4, Zenon DEF SerialCalm, Threaded
  <2>2. target[t] \in MergeIds /\ pc[target[t]] # "none"
    BY <2>1, Zenon DEF SerialInv
  <2>3. MergeFlow(target[t])
    BY <2>2, Zenon DEF Flow
  <2>4. QED
    BY <2>1, <2>2, <2>3, Zenon DEF MergeFlow, Overs
<1>5. QED
  BY <1>1, <1>2, <1>3, <1>4, Zenon DEF SerialInv

LEMMA SerialTakes ==
  ASSUME TypeOK, SerialInv, Flow, Scheduler = "serial", NEW t \in Threads, Takes(t, "serial"),
         target' = [target EXCEPT ![t] = Head(pending)],
         pc[t] = "serial" => pc[target[t]] = "ended"
  PROVE  SerialInv'
<1> DEFINE h == Head(pending)
<1>1. /\ h \in MergeIds /\ pc'[t] = "serial" /\ pc'[h] = "new"
      /\ \A b \in Actors : b # t /\ b # h => pc'[b] = pc[b]
  BY Zenon DEF Takes
<1>2. target'[t] = h /\ \A u \in Threads : u # t => target'[u] = target[u] /\ pc'[u] = pc[u]
  BY <1>1, LabelsFit, Zenon DEF TypeOK
<1> HIDE DEF h
<1>3. ASSUME NEW m \in MergeIds PROVE pc'[m] \in {"none", "new", "merging", "ran", "ended"}
  <2>1. MergeFlow(m) /\ pc[m] \in {"none", "new", "merging", "ran", "ended"}
    BY Zenon DEF Flow, SerialInv
  <2>2. QED
    BY <2>1, Zenon DEF MergeFlow, Overs
<1>4. ASSUME NEW m \in Taken' PROVE \E u \in Threads : pc'[u] = "serial" /\ target'[u] = m
  <2>1. CASE m = h
    BY <1>1, <1>2, <2>1, Zenon
  <2>2. CASE m # h
    <3>1. m \in MergeIds /\ m \in Taken
      BY <1>1, <1>4, <2>2, LabelsFit, Zenon DEF Taken
    <3>2. PICK u \in Threads : pc[u] = "serial" /\ target[u] = m
      BY <3>1, Zenon DEF SerialInv
    <3>3. pc[m] # "ended"
      BY <3>1, Zenon DEF Taken
    <3>4. QED
      BY <1>2, <3>2, <3>3, Zenon
  <2>3. QED
    BY <2>1, <2>2, Zenon
<1>5. ASSUME NEW u \in Threads PROVE pc'[u] \notin {"check", "pop", "stalled", "join"}
  BY <1>1, <1>2, Zenon DEF SerialInv
<1>6. ASSUME NEW u \in Threads, pc'[u] = "serial" PROVE target'[u] \in MergeIds /\ pc'[target'[u]] # "none"
  <2>1. CASE u = t
    BY <1>1, <1>2, <2>1, Zenon
  <2>2. CASE u # t
    <3>1. target[u] \in MergeIds /\ pc[target[u]] # "none" /\ target'[u] = target[u]
      BY <1>2, <1>6, <2>2, Zenon DEF SerialInv
    <3>2. MergeFlow(target[u])
      BY <3>1, Zenon DEF Flow
    <3>3. QED
      BY <3>1, <3>2, Zenon DEF MergeFlow, Overs
  <2>3. QED
    BY <2>1, <2>2, Zenon
<1>7. QED
  BY <1>3, <1>4, <1>5, <1>6, Zenon DEF SerialInv

LEMMA SetupStep ==
  ASSUME [Next]_vars
  PROVE  setup' = setup
<1>1. ASSUME NEW t \in Threads, Call(t) \/ ThreadStep(t) PROVE setup' = setup
  BY <1>1, Zenon
     DEF Call, ScheduleMerges, CallExclusive, StopMerges, ThreadStep, DropRegistered, AbortMerges,
         WaitForMerges, SerialNext, SerialFails, TakeHandle, Join, SyncReturns
<1>2. ASSUME NEW a \in Actors, SchedulerStep(a) PROVE setup' = setup
  BY <1>2, Zenon
     DEF SchedulerStep, MaybeStall, NextMergeNone, StartMergeThread, StartMergeThreadFails
<1>3. ASSUME NEW m \in MergeIds, MergeStep(m) PROVE setup' = setup
  BY <1>3, Zenon
     DEF MergeStep, BeginMerge, BeginMergeFails, BeginMergePanics, RunMerge, FinishMerge,
         FinishMergeFails, LeaveList, DropSource
<1>4. QED
  BY <1>1, <1>2, <1>3, Zenon DEF Next, Publish, DropSegment, vars

LEMMA SerialStep ==
  ASSUME TypeOK, QueueInv, ListInv, SerialInv, [Next]_vars
  PROVE  SerialInv'
<1>f. Flow /\ Scheduler' = Scheduler
  BY StepFlow, SetupStep, Zenon DEF Scheduler
<1>s. CASE Scheduler # "serial"
  BY <1>f, <1>s, Zenon DEF SerialInv
<1>0. PcOK /\ pending \in Seq(MergeIds) /\ Threads \subseteq Actors /\ MergeIds \subseteq Actors
      /\ \A t \in Threads : t \notin MergeIds
  BY TypeParts, LabelsFit, Zenon DEF WriterOK
<1>1. ASSUME Scheduler = "serial" PROVE SerialInv'
  <2>c. ASSUME SerialCalm PROVE SerialInv'
    BY <1>1, <1>f, <2>c, SerialCalmStep, Zenon
  <2>t. ASSUME NEW t \in Threads, NEW l, Moves(t, l), l \notin Threaded, target' = target,
               pc[t] = "serial" => pc[target[t]] = "ended"
        PROVE  SerialInv'
    <3>1. pc'[t] = l /\ \A u \in Threads : u # t => pc'[u] = pc[u]
      BY <1>0, <2>t, Zenon DEF Moves, OnlyMoves
    <3>2. \A m \in Taken' : m \in Taken
      BY <2>t, ThreadMove, Zenon DEF Moves, Taken
    <3>3. QED
      BY <2>c, <2>t, <3>1, <3>2, Zenon DEF SerialCalm
  <2>1. ASSUME Publish \/ (\E s \in segs : DropSegment(s)) \/ UNCHANGED vars PROVE SerialInv'
    <3>1. UNCHANGED <<pc, target>>
      BY <2>1, Zenon DEF Publish, DropSegment, vars
    <3>2. Taken' = Taken
      BY <3>1, Zenon DEF Taken
    <3>3. QED
      BY <2>c, <3>1, <3>2, Zenon DEF SerialCalm
  <2>2. ASSUME NEW t \in Threads, Call(t) PROVE SerialInv'
    <3>1. PICK l \in {"enter", "stopping", "exclusive"} : Moves(t, l)
      BY <1>0, <2>2, ScheduleMergesMoves, CallExclusiveMoves, StopMergesMoves, Zenon DEF Call
    <3>2. pc[t] # "serial" /\ l \notin Threaded
      BY <2>2, Zenon DEF Call, ScheduleMerges, CallExclusive, StopMerges, Calls, Threaded
    <3>3. target' = target
      BY <2>2, Zenon DEF Call, ScheduleMerges, CallExclusive, StopMerges
    <3>4. QED
      BY <2>t, <3>1, <3>2, <3>3, Zenon
  <2>3. ASSUME NEW t \in Threads, DropRegistered(t) \/ AbortMerges(t) \/ WaitForMerges(t)
                                  \/ Join(t) \/ SyncReturns(t) \/ SerialFails(t)
        PROVE  SerialInv'
    <3>1. PICK l \in {"idle", "await", "sync"} : Moves(t, l)
      BY <1>0, <2>3, DropRegisteredMoves, BodyOrWaitMoves, JoinMoves, SyncReturnsMoves, SerialFailsMoves, Zenon
         DEF AbortMerges, WaitForMerges
    <3>2. l \notin Threaded
      BY Zenon DEF Threaded
    <3>3. pc[t] = "serial" => pc[target[t]] = "ended"
      BY <2>3, Zenon DEF DropRegistered, AbortMerges, WaitForMerges, Join, SyncReturns, SerialFails
    <3>4. target' = target
      BY <2>3, Zenon DEF DropRegistered, AbortMerges, WaitForMerges, Join, SyncReturns, SerialFails
    <3>5. QED
      BY <2>t, <3>1, <3>2, <3>3, <3>4, Zenon
  <2>4. ASSUME NEW t \in Threads, TakeHandle(t) PROVE SerialInv'
    <3>1. list = <<>> /\ handles \subseteq Range(list)
      BY <1>1, Zenon DEF ListInv, TypeOK
    <3>2. handles = {}
      BY <3>1 DEF Range
    <3>3. QED
      BY <2>4, <3>2, Zenon DEF TakeHandle
  <2>5. ASSUME NEW t \in Threads, SerialNext(t) PROVE SerialInv'
    <3>1. pc[t] = "serial" => pc[target[t]] = "ended"
      BY <1>0, <2>5, SerialNextMoves, Zenon
    <3>2. CASE Takes(t, "serial") /\ target' = [target EXCEPT ![t] = Head(pending)]
      BY <1>1, <1>f, <3>1, <3>2, SerialTakes, Zenon
    <3>3. CASE target' = target /\ Moves(t, Returned(t)) /\ Returned(t) \in {"sync", "idle"}
      <4>1. Returned(t) \notin Threaded
        BY <3>3, Zenon DEF Threaded
      <4>2. QED
        BY <2>t, <3>1, <3>3, <4>1, Zenon
    <3>4. QED
      BY <1>0, <2>5, <3>2, <3>3, SerialNextMoves, Zenon
  <2>6. ASSUME NEW m \in MergeIds, MergeStep(m) PROVE SerialInv'
    <3>1. target' = target
      BY <2>6, Zenon DEF MergeStep, BeginMerge, BeginMergeFails, BeginMergePanics, RunMerge,
                         FinishMerge, FinishMergeFails, LeaveList, DropSource
    <3>2. PICK l : Moves(m, l)
      BY <1>0, <2>6, BeginMergeMoves, RunMergeMoves, LeaveListMoves, DropSourceMoves, OverMoves, Zenon
         DEF MergeStep, BeginMergeFails, BeginMergePanics, FinishMerge, FinishMergeFails
    <3>3. \A u \in Threads : pc'[u] = pc[u]
      BY <1>0, <3>2, Zenon DEF Moves, OnlyMoves
    <3>4. m \in Taken' => m \in Taken
      <4>1. pc[m] # "none"
        BY <2>6, Zenon DEF MergeStep, BeginMerge, BeginMergeFails, BeginMergePanics, RunMerge,
                         FinishMerge, FinishMergeFails, LeaveList, DropSource
      <4>2. MergeFlow(m)
        BY <1>f, Zenon DEF Flow
      <4>3. QED
        BY <4>1, <4>2, Zenon DEF MergeFlow, Taken, Overs
    <3>5. \A n \in Taken' : n \in Taken
      BY <3>2, <3>4, MergeMove, Zenon DEF Taken
    <3>6. QED
      BY <2>c, <3>1, <3>3, <3>5, Zenon DEF SerialCalm
  <2>7. \A a \in Actors : ~SchedulerStep(a)
    BY <1>1, Zenon DEF SchedulerStep
  <2>8. QED
    BY <2>1, <2>2, <2>3, <2>4, <2>5, <2>6, <2>7, Zenon DEF Next, ThreadStep
<1>2. QED
  BY <1>1, <1>s, Zenon

-----------------------------------------------------------------------------
(* Someone looks at the queue again, as long as nothing fails *)

Working == {"enter", "stalled", "check", "pop", "new", "merging", "ran", "done"}

\* A thread that will ask for the next merge on its own thread.
Asks(t) == pc[t] \in {"enter", "await"} \/ (pc[t] = "serial" /\ ~Doomed(target[t]))

NoFailure == failures' = 0 /\ drops' = 0

LEMMA AttendedIs ==
  /\ Scheduler = "concurrent" => (Attended <=> \E a \in Actors : pc[a] \in Working)
  /\ Scheduler = "serial" => (Attended <=> \E t \in Threads : Asks(t))
BY Zenon DEF Attended, Working, Asks

LEMMA AttendedNext ==
  /\ Scheduler' = "concurrent" => (Attended' <=> \E a \in Actors : pc'[a] \in Working)
  /\ Scheduler' = "serial" => (Attended' <=> \E t \in Threads : Asks(t)')
BY Zenon DEF Attended, Working, Asks

LEMMA NoFailureBefore == ASSUME TypeOK, Flow, NoFailure PROVE failures = 0 /\ drops = 0
<1>1. failures \in Nat /\ drops \in Nat
  BY Zenon DEF TypeOK
<1>2. QED
  BY <1>1 DEF Flow, AbortFlow, NoFailure

\* A merge is aborted before its caller is to return the error.
LEMMA DoomedStays ==
  ASSUME TypeOK, ClaimInv, RunningInv, Flow, NoFailure, aborted' = aborted, NEW n \in MergeIds, Doomed(n)'
  PROVE  Doomed(n)
<1>1. MergeFlow(n) /\ failures' = 0
  BY Zenon DEF Flow, NoFailure
<1>2. pc[n] = "new" => group[n] \subseteq segs /\ n \notin aborted
  <2>1. pc[n] = "new" => n \in Holding
    BY HoldingIs, Zenon DEF Taken
  <2>2. QED
    BY <2>1, NoFailureBefore, Zenon DEF ClaimInv, RunningInv
<1>3. \/ pc'[n] = "merging" /\ n \in aborted
      \/ pc'[n] \in {"ran", "ended"} /\ result'[n] = "aborted"
  BY Zenon DEF Doomed
<1>4. QED
  BY <1>1, <1>2, <1>3, Zenon DEF MergeFlow, SameRun, Overs, Doomed

LEMMA AsksOn ==
  ASSUME TypeOK, ClaimInv, RunningInv, SerialInv, Scheduler = "serial", Flow, NoFailure,
         aborted' = aborted, NEW t \in Threads, Asks(t), pc'[t] = pc[t], target'[t] = target[t]
  PROVE  Asks(t)'
<1>1. CASE pc[t] \in {"enter", "await"}
  BY <1>1, Zenon DEF Asks
<1>2. CASE pc[t] = "serial" /\ ~Doomed(target[t])
  <2> DEFINE n == target[t]
  <2>1. n \in MergeIds
    BY <1>2, Zenon DEF SerialInv
  <2>2. Doomed(n)' => Doomed(n)
    <3>1. \A m \in MergeIds : Doomed(m)' => Doomed(m)
      BY DoomedStays, Zenon
    <3>2. QED
      BY <2>1, <3>1, Zenon DEF Doomed
  <2>3. ~(Doomed(target[t])')
    BY <1>2, <2>2, Zenon DEF Doomed
  <2>4. QED
    BY <1>2, <2>3, Zenon DEF Asks
<1>3. QED
  BY <1>1, <1>2, Zenon DEF Asks

\* No merge is registered or taken, and none begins, fails or ends.
LEMMA IdleWork ==
  ASSUME TypeOK, ClaimInv, RunningInv, SerialInv, WorkInv, Flow, NoFailure, aborted' = aborted,
         setup' = setup, pending' = pending, pending # <<>>,
         Scheduler \in {"concurrent", "serial"},
         \A a \in Actors : pc[a] \in Working => pc'[a] \in Working,
         \A t \in Threads : Asks(t) => pc'[t] = pc[t] /\ target'[t] = target[t]
  PROVE  Attended'
<1>1. Attended
  BY NoFailureBefore, Zenon DEF WorkInv
<1>2. Scheduler' = Scheduler
  BY Zenon DEF Scheduler
<1>3. CASE Scheduler = "concurrent"
  BY <1>1, <1>2, <1>3, AttendedIs, AttendedNext, Zenon
<1>4. CASE Scheduler = "serial"
  BY <1>1, <1>2, <1>4, AttendedIs, AttendedNext, AsksOn, Zenon
<1>5. QED
  BY <1>3, <1>4, Zenon

\* A thread moves from a place where it does not ask for merges.
LEMMA ThreadIdleWork ==
  ASSUME TypeOK, ClaimInv, RunningInv, SerialInv, WorkInv, Flow, NoFailure, aborted' = aborted,
         setup' = setup, pending' = pending, pending # <<>>,
         Scheduler \in {"concurrent", "serial"},
         NEW t \in Threads, NEW l, Moves(t, l), pc[t] \notin Working, ~Asks(t),
         \A u \in Threads : u # t => target'[u] = target[u]
  PROVE  Attended'
<1>1. \A a \in Actors : a # t => pc'[a] = pc[a]
  BY Zenon DEF Moves, OnlyMoves
<1>2. \A a \in Actors : pc[a] \in Working => pc'[a] \in Working
  BY <1>1, Zenon
<1>3. \A u \in Threads : Asks(u) => pc'[u] = pc[u] /\ target'[u] = target[u]
  BY <1>1, LabelsFit, Zenon
<1>4. QED
  BY <1>2, <1>3, IdleWork, Zenon

LEMMA EmptyClaims ==
  ASSUME TypeOK, QueueInv, ClaimInv, merging = {}
  PROVE  pending = <<>>
<1>1. pending \in Seq(MergeIds)
  BY Zenon DEF TypeOK
<1> SUFFICES ASSUME pending # <<>> PROVE FALSE
  BY Zenon
<1>2. Head(pending) \in Range(pending) /\ Range(pending) \subseteq MergeIds
  BY <1>1, HeadTail, Zenon
<1>3. Head(pending) \in Holding /\ group[Head(pending)] # {}
  BY <1>2, HoldingIs, Zenon DEF QueueInv
<1>4. group[Head(pending)] \subseteq merging
  BY <1>3, Zenon DEF ClaimInv
<1>5. QED
  BY <1>3, <1>4, Zenon

LEMMA CallWork ==
  ASSUME TypeOK, QueueInv, ClaimInv, RunningInv, SerialInv, WorkInv, Flow, NoFailure, setup' = setup,
         Scheduler \in {"concurrent", "serial"}, pending' # <<>>, NEW t \in Threads, Call(t)
  PROVE  Attended'
<1>0. PcOK /\ t \in Actors
  BY TypeParts, LabelsFit, Zenon
<1>s. Scheduler' = Scheduler
  BY Zenon DEF Scheduler
<1>1. ASSUME NEW j, ScheduleMerges(t, j) PROVE Attended'
  <2>1. pc'[t] = "enter"
    BY <1>0, <1>1, ScheduleMergesMoves, Zenon DEF Moves
  <2>2. pc'[t] \in Working /\ Asks(t)'
    BY <2>1, Zenon DEF Working, Asks
  <2>3. QED
    BY <1>0, <1>s, <2>2, AttendedNext, Zenon
<1>2. ASSUME NEW l, Moves(t, l), pc[t] = "idle", UNCHANGED <<aborted, pending, target>> PROVE Attended'
  <2>1. pc[t] \notin Working /\ ~Asks(t)
    BY <1>2, Zenon DEF Working, Asks
  <2>2. pending # <<>> /\ pending' = pending /\ aborted' = aborted
        /\ \A u \in Threads : u # t => target'[u] = target[u]
    BY <1>2, Zenon
  <2>3. QED
    BY <1>2, <2>1, <2>2, ThreadIdleWork, Zenon
<1>3. ASSUME NEW j, CallExclusive(t, j) PROVE Attended'
  BY <1>0, <1>2, <1>3, CallExclusiveMoves, Zenon DEF CallExclusive
<1>4. ASSUME StopMerges(t) PROVE Attended'
  BY <1>0, <1>2, <1>4, StopMergesMoves, Zenon DEF StopMerges
<1>5. QED
  BY <1>1, <1>3, <1>4, Zenon DEF Call

LEMMA ThreadStepWork ==
  ASSUME TypeOK, QueueInv, ClaimInv, RunningInv, SerialInv, ResultInv, WorkInv, Flow, NoFailure,
         setup' = setup, Scheduler \in {"concurrent", "serial"}, pending' # <<>>,
         NEW t \in Threads, ThreadStep(t)
  PROVE  Attended'
<1>0. PcOK /\ t \in Actors /\ pending \in Seq(MergeIds)
  BY TypeParts, LabelsFit, Zenon DEF WriterOK
<1>s. Scheduler' = Scheduler
  BY Zenon DEF Scheduler
<1>t. ASSUME NEW l, Moves(t, l), pc[t] \in {"sync", "join"}, UNCHANGED <<aborted, pending>>,
             \A u \in Threads : u # t => target'[u] = target[u]
      PROVE  Attended'
  <2>1. pc[t] \notin Working /\ ~Asks(t)
    BY <1>t, Zenon DEF Working, Asks
  <2>2. pending # <<>> /\ pending' = pending /\ aborted' = aborted
    BY <1>t, Zenon
  <2>3. QED
    BY <1>t, <2>1, <2>2, ThreadIdleWork, Zenon
<1>1. ASSUME DropRegistered(t) \/ AbortMerges(t) PROVE FALSE
  BY <1>1, Zenon DEF DropRegistered, AbortMerges
<1>2. ASSUME WaitForMerges(t) PROVE Attended'
  <2>1. pc[t] = "await" /\ pending' = pending /\ merging' = merging /\ BodyOrWait(t)
    BY <1>2, Zenon DEF WaitForMerges
  <2>2. merging' # {}
    BY <2>1, EmptyClaims, Zenon
  <2>3. pc'[t] = "await" /\ \A a \in Actors : a # t => pc'[a] = pc[a]
    BY <1>0, <2>1, <2>2, BodyOrWaitMoves, Zenon DEF Moves, OnlyMoves
  <2>4. CASE Scheduler = "concurrent"
    <3>1. Attended
      BY <2>1, NoFailureBefore, Zenon DEF WorkInv
    <3>2. PICK a \in Actors : pc[a] \in Working
      BY <2>4, <3>1, AttendedIs, Zenon
    <3>3. a # t
      BY <2>1, <3>2, Zenon DEF Working
    <3>4. QED
      BY <1>s, <2>3, <2>4, <3>2, <3>3, AttendedNext, Zenon
  <2>5. CASE Scheduler = "serial"
    <3>1. Asks(t)'
      BY <2>3, Zenon DEF Asks
    <3>2. QED
      BY <1>s, <2>5, <3>1, AttendedNext, Zenon
  <2>6. QED
    BY <2>4, <2>5, Zenon
<1>3. ASSUME Scheduler = "serial", SerialNext(t) PROVE Attended'
  <2>1. Takes(t, "serial") /\ target' = [target EXCEPT ![t] = Head(pending)]
    BY <1>0, <1>3, SerialNextMoves, Zenon
  <2>2. target'[t] = Head(pending) /\ pc'[t] = "serial" /\ pc'[Head(pending)] = "new"
    BY <2>1, Zenon DEF Takes, TypeOK
  <2>3. Asks(t)'
    BY <2>2, Zenon DEF Asks, Doomed
  <2>4. QED
    BY <1>3, <1>s, <2>3, AttendedNext, Zenon
<1>4. ASSUME Scheduler = "serial", SerialFails(t) PROVE Attended'
  <2>1. pc[t] = "serial" /\ Moves(t, "idle")
    BY <1>0, <1>4, SerialFailsMoves, Zenon
  <2>2. target[t] \in MergeIds
    BY <1>4, <2>1, Zenon DEF SerialInv
  <2>3. pc[target[t]] = "ended" /\ result[target[t]] # "ok"
    BY <1>4, Zenon DEF SerialFails
  <2>4. result[target[t]] # "none" /\ result[target[t]] # "failed"
    BY <2>2, <2>3, NoFailureBefore, Zenon DEF ResultInv
  <2>5. result[target[t]] = "aborted"
    BY <2>2, <2>3, <2>4, Zenon DEF TypeOK
  <2>6. ~Asks(t) /\ pc[t] \notin Working
    BY <2>1, <2>3, <2>5, Zenon DEF Asks, Doomed, Working
  <2>7. pending' = pending /\ pending # <<>> /\ aborted' = aborted
        /\ \A u \in Threads : u # t => target'[u] = target[u]
    BY <1>4, Zenon DEF SerialFails, writerVars
  <2>8. QED
    BY <2>1, <2>6, <2>7, ThreadIdleWork, Zenon
<1>5. ASSUME TakeHandle(t) PROVE Attended'
  <2>1. \A u \in Threads : u # t => target'[u] = target[u]
    BY <1>5, Zenon DEF TakeHandle, TypeOK
  <2>2. Moves(t, "join") /\ pc[t] \in {"sync", "join"} /\ UNCHANGED <<aborted, pending>>
    BY <1>0, <1>5, TakeHandleMoves, Zenon DEF TakeHandle, writerVars
  <2>3. QED
    BY <1>t, <2>1, <2>2, Zenon
<1>6. ASSUME Join(t) \/ SyncReturns(t) PROVE Attended'
  <2>1. PICK l : Moves(t, l)
    BY <1>0, <1>6, JoinMoves, SyncReturnsMoves, Zenon
  <2>2. pc[t] \in {"sync", "join"} /\ UNCHANGED <<aborted, pending, target>>
    BY <1>6, Zenon DEF Join, SyncReturns, writerVars
  <2>3. QED
    BY <1>t, <2>1, <2>2, Zenon
<1>7. QED
  BY <1>1, <1>2, <1>3, <1>4, <1>5, <1>6, Zenon DEF ThreadStep

\* A merge thread that goes home because enough others run leaves the queue to
\* one of them.
LEMMA StallLeaves ==
  ASSUME TypeOK, QueueInv, ListInv, ResultInv, MonitorInv', Flow, NoFailure, Scheduler = "concurrent",
         NEW a \in MergeIds, Moves(a, "leave"), monitor' = a, CountMergeThreads(a) >= MaxMergeCount
  PROVE  \E b \in Actors : pc'[b] \in Working
<1>1. MaxMergeCount \in Nat /\ MaxMergeCount # 0
  BY SchedulerAssumption, Zenon DEF TypeOK, Setup, MaxMergeCount
<1>2. (Range(list) \ {a}) \ aborted # {}
  <2>1. Cardinality({}) = 0
    BY FS_EmptySet, Zenon
  <2>2. QED
    BY <1>1, <2>1 DEF CountMergeThreads
<1>3. PICK b : b \in Range(list) /\ b # a
  BY <1>2, Zenon
<1>4. b \in MergeIds /\ b \in Actors
  BY <1>3, ListedMerges, LabelsFit, Zenon
<1>5. pc[b] \notin {"none", "dropping", "gone", "ended"}
  BY <1>3, <1>4, Zenon DEF ListInv
<1>6. pc[b] # "failed"
  BY <1>4, NoFailureBefore, Zenon DEF ResultInv
<1>7. pc'[b] = pc[b]
  BY <1>3, <1>4, Zenon DEF Moves, OnlyMoves
<1>8. pc'[b] \notin {"check", "pop", "leave", "serial"}
  BY <1>3, <1>4, Zenon DEF MonitorInv
<1>9. pc[b] \in MergeLabels
  BY <1>4, Zenon DEF TypeOK
<1>10. pc'[b] \in Working
  BY <1>5, <1>6, <1>7, <1>8, <1>9, Zenon DEF MergeLabels, Working
<1>11. QED
  BY <1>4, <1>10, Zenon

LEMMA SchedulerWork ==
  ASSUME TypeOK, QueueInv, ListInv, ResultInv, MonitorInv', Flow, NoFailure, setup' = setup,
         pending' # <<>>, NEW a \in Actors, SchedulerStep(a)
  PROVE  Attended'
<1>0. PcOK /\ pending \in Seq(MergeIds) /\ failures \in Nat
  BY TypeParts, Zenon DEF WriterOK, TypeOK
<1>s. Scheduler = "concurrent" /\ Scheduler' = Scheduler
  BY Zenon DEF Scheduler, SchedulerStep
<1>a. ASSUME \E b \in Actors : pc'[b] \in Working PROVE Attended'
  BY <1>s, <1>a, AttendedNext, Zenon
<1>1. ASSUME MaybeStall(a) PROVE Attended'
  <2>1. CASE a \in MergeIds /\ Moves(a, "leave") /\ monitor' = a /\ CountMergeThreads(a) >= MaxMergeCount
    BY <1>s, <1>a, <2>1, StallLeaves, Zenon
  <2>2. CASE Moves(a, "stalled") \/ Moves(a, "pop")
    <3>1. pc'[a] \in Working
      BY <2>2, Zenon DEF Moves, Working
    <3>2. QED
      BY <1>a, <3>1, Zenon
  <2>3. QED
    BY <1>0, <1>1, <2>1, <2>2, MaybeStallMoves, Zenon
<1>2. ASSUME NextMergeNone(a) PROVE FALSE
  BY <1>2, Zenon DEF NextMergeNone, writerVars
<1>3. ASSUME StartMergeThread(a) PROVE Attended'
  <2>1. pc'[a] \in Working
    BY <1>0, <1>3, StartMergeThreadMoves, Zenon DEF Takes, Working
  <2>2. QED
    BY <1>a, <2>1, Zenon
<1>4. ASSUME StartMergeThreadFails(a) PROVE FALSE
  BY <1>0, <1>4 DEF StartMergeThreadFails, Fails, NoFailure
<1>5. QED
  BY <1>1, <1>2, <1>3, <1>4, Zenon DEF SchedulerStep

LEMMA MergeWork ==
  ASSUME TypeOK, QueueInv, ClaimInv, RunningInv, SerialInv, ListInv, ResultInv, WorkInv, Flow, NoFailure,
         setup' = setup, Scheduler \in {"concurrent", "serial"}, pending' # <<>>,
         NEW m \in MergeIds, MergeStep(m)
  PROVE  Attended'
<1>0. PcOK /\ failures \in Nat /\ m \in Actors
  BY TypeParts, LabelsFit, Zenon DEF TypeOK
<1>s. Scheduler' = Scheduler
  BY Zenon DEF Scheduler
<1>k. aborted' = aborted /\ target' = target
  BY Zenon DEF MergeStep, BeginMerge, BeginMergeFails, BeginMergePanics, RunMerge, FinishMerge,
               FinishMergeFails, LeaveList, DropSource
<1>w. ASSUME NEW l, Moves(m, l), pending' = pending, pc[m] \in Working => l \in Working PROVE Attended'
  <2>1. pc'[m] = l /\ \A a \in Actors : a # m => pc'[a] = pc[a]
    BY <1>w, Zenon DEF Moves, OnlyMoves
  <2>2. \A a \in Actors : pc[a] \in Working => pc'[a] \in Working
    BY <1>w, <2>1, Zenon
  <2>3. \A t \in Threads : Asks(t) => pc'[t] = pc[t] /\ target'[t] = target[t]
    BY <1>k, <2>1, LabelsFit, Zenon
  <2>4. QED
    BY <1>k, <1>w, <2>2, <2>3, IdleWork, Zenon
<1>n. ASSUME failures' = failures + 1 PROVE FALSE
  BY <1>0, <1>n DEF NoFailure
<1>1. ASSUME BeginMerge(m) \/ RunMerge(m) PROVE Attended'
  <2>1. PICK l \in {"merging", "ran"} : Moves(m, l)
    BY <1>0, <1>1, BeginMergeMoves, RunMergeMoves, Zenon
  <2>2. pending' = pending /\ l \in Working
    BY <1>1, Zenon DEF BeginMerge, RunMerge, writerVars, Working
  <2>3. QED
    BY <1>w, <2>1, <2>2, Zenon
<1>2. ASSUME BeginMergeFails(m) \/ FinishMergeFails(m) PROVE FALSE
  BY <1>n, <1>2, Zenon DEF BeginMergeFails, FinishMergeFails, Fails
<1>3. ASSUME BeginMergePanics(m) PROVE FALSE
  <2>1. pc[m] = "new" /\ ~(group[m] \subseteq segs)
    BY <1>3, Zenon DEF BeginMergePanics
  <2>2. m \in Holding
    BY <2>1, HoldingIs, Zenon DEF Taken
  <2>3. QED
    BY <2>1, <2>2, NoFailureBefore, Zenon DEF ClaimInv
<1>4. ASSUME FinishMerge(m) PROVE Attended'
  <2>1. pc[m] = "ran" /\ Moves(m, Over(result[m])) /\ result' = result
    BY <1>0, <1>4, OverMoves, Zenon DEF FinishMerge
  <2>2. result[m] # "failed"
    BY NoFailureBefore, Zenon DEF ResultInv
  <2>3. CASE Scheduler = "concurrent"
    <3>1. pc'[m] \in Working
      BY <2>1, <2>2, <2>3, Zenon DEF Over, Working, Moves
    <3>2. QED
      BY <1>0, <1>s, <2>3, <3>1, AttendedNext, Zenon
  <2>4. CASE Scheduler = "serial" /\ result[m] = "ok"
    <3>1. PICK t \in Threads : pc[t] = "serial" /\ target[t] = m
      <4>1. m \in Taken
        BY <2>1, Zenon DEF Taken
      <4>2. QED
        BY <2>4, <4>1, Zenon DEF SerialInv
    <3>2. pc'[t] = "serial" /\ target'[t] = m
      BY <1>k, <2>1, <3>1, LabelsFit, Zenon DEF Moves, OnlyMoves
    <3>3. pc'[m] = "ended" /\ result'[m] = "ok"
      BY <2>1, <2>4, Zenon DEF Over, Moves
    <3>4. Asks(t)'
      BY <3>2, <3>3, Zenon DEF Asks, Doomed
    <3>5. QED
      BY <1>s, <2>4, <3>4, AttendedNext, Zenon
  <2>5. CASE Scheduler = "serial" /\ result[m] # "ok"
    <3>1. pending' = pending
      BY <1>4, <2>5, Zenon DEF FinishMerge
    <3>2. Attended
      BY <3>1, NoFailureBefore, Zenon DEF WorkInv
    <3>3. PICK t \in Threads : Asks(t)
      BY <2>5, <3>2, AttendedIs, Zenon
    <3>4. pc'[t] = pc[t] /\ target'[t] = target[t]
      BY <1>k, <2>1, LabelsFit, Zenon DEF Moves, OnlyMoves
    <3>5. QED
      BY <1>k, <1>s, <2>5, <3>3, <3>4, AsksOn, AttendedNext, Zenon
  <2>6. QED
    BY <2>3, <2>4, <2>5, Zenon
<1>5. ASSUME LeaveList(m) \/ DropSource(m) PROVE Attended'
  <2>1. PICK l \in {"dropping", "gone"} : Moves(m, l)
    BY <1>0, <1>5, LeaveListMoves, DropSourceMoves, Zenon
  <2>2. pc[m] \notin Working
    BY <1>5, Zenon DEF LeaveList, DropSource, Working
  <2>3. pending' = pending
    BY <1>5, Zenon DEF LeaveList, DropSource, writerVars
  <2>4. QED
    BY <1>w, <2>1, <2>2, <2>3, Zenon
<1>6. QED
  BY <1>1, <1>2, <1>3, <1>4, <1>5, Zenon DEF MergeStep

LEMMA WorkStep ==
  ASSUME TypeOK, QueueInv, ClaimInv, RunningInv, SerialInv, ListInv, ResultInv, WorkInv,
         MonitorInv', [Next]_vars
  PROVE  WorkInv'
<1> SUFFICES ASSUME NoFailure, pending' # <<>> PROVE Attended'
  BY Zenon DEF WorkInv, NoFailure
<1>0. Flow /\ setup' = setup /\ Scheduler \in {"concurrent", "serial"}
  <2>1. Scheduler \in {"concurrent", "serial"}
    BY ListedMerges, Zenon
  <2>2. QED
    BY <2>1, StepFlow, SetupStep, Zenon
<1>1. ASSUME UNCHANGED <<pc, target, aborted, pending>> PROVE Attended'
  BY <1>0, <1>1, IdleWork, Zenon
<1>2. ASSUME Publish \/ (\E s \in segs : DropSegment(s)) \/ UNCHANGED vars PROVE Attended'
  BY <1>1, <1>2, Zenon DEF Publish, DropSegment, vars, writerVars
<1>3. QED
  BY <1>0, <1>2, CallWork, ThreadStepWork, SchedulerWork, MergeWork, Zenon DEF Next

LEMMA SizesAre ==
  ASSUME TypeOK
  PROVE  Len(list) \in Nat /\ DOMAIN list = 1..Len(list) /\ Sizes \in [1..Len(list) -> Nat]
         /\ \A i \in 1..Len(list) : Sizes[i] = Size(list[i]) /\ list[i] \in MergeIds
<1>1. list \in Seq(MergeIds) /\ group \in [MergeIds -> SUBSET SUBSET Documents]
  BY Zenon DEF TypeOK
<1>2. ASSUME NEW m \in MergeIds PROVE Size(m) \in Nat
  <2>1. UNION group[m] \in SUBSET Documents
    BY <1>1, Zenon
  <2>2. QED
    BY <2>1, SchedulerAssumption, FS_Subset, FS_CardinalityType, Zenon DEF Size
<1>3. QED
  BY <1>1, <1>2 DEF Sizes

LEMMA OnlySomeProceed ==
  ASSUME TypeOK, ListInv
  PROVE  OnlyMaxThreadCountProceed
<1> DEFINE n == Len(list)
           B == BigOnes(Sizes)
           U == B \ Slowed(Sizes)
           big == {m \in Range(list) : Size(m) > BigMerge}
<1>1. n \in Nat /\ DOMAIN list = 1..n /\ Sizes \in [1..n -> Nat]
      /\ \A i \in 1..n : Sizes[i] = Size(list[i]) /\ list[i] \in MergeIds
  BY SizesAre, Zenon
<1>2. \A i, j \in 1..n : list[i] = list[j] => i = j
  BY <1>1, Zenon DEF ListInv
<1>3. paused = {list[j] : j \in Slowed(Sizes)}
  BY PausedIs, Zenon DEF ListInv
<1>4. B \subseteq 1..n /\ \A i \in 1..n : i \in B <=> Size(list[i]) > BigMerge
  BY <1>1, Zenon DEF BigOnes
<1>5. Slowed(Sizes) \subseteq 1..n
  BY <1>1, Zenon DEF Slowed
<1>6. IsFiniteSet(B)
  BY <1>1, BeforeSets, Zenon
<1>7. /\ IsFiniteSet(U)
      /\ Cardinality(U) = IF Cardinality(B) <= MaxThreadCount THEN Cardinality(B) ELSE MaxThreadCount
  BY <1>1, SlowedCount, Zenon
<1> HIDE DEF n, B
<1>8. Cardinality(big) = Cardinality(B)
  <2> DEFINE f == [i \in B |-> list[i]]
  <2>1. f \in [B -> big]
    BY <1>1, <1>4, Zenon DEF Range
  <2>2. \A i, j \in B : f[i] = f[j] => i = j
    BY <1>2, <1>4, Zenon
  <2>3. \A z \in big : \E i \in B : f[i] = z
    BY <1>1, <1>4, Zenon DEF Range
  <2> HIDE DEF f, big
  <2>4. QED
    BY <1>6, <2>1, <2>2, <2>3, SameCount, Zenon
<1>9. Cardinality(big \ paused) = Cardinality(U)
  <2> DEFINE f == [i \in U |-> list[i]]
             T == big \ paused
  <2>1. \A i \in 1..n : list[i] \in paused <=> i \in Slowed(Sizes)
    BY <1>2, <1>3, <1>5, Zenon
  <2>2. f \in [U -> T]
    BY <1>1, <1>4, <2>1, Zenon DEF Range
  <2>3. \A i, j \in U : f[i] = f[j] => i = j
    BY <1>2, <1>4, Zenon
  <2>4. \A z \in T : \E i \in U : f[i] = z
    BY <1>1, <1>4, <2>1, Zenon DEF Range
  <2> HIDE DEF f, T, U
  <2>5. Cardinality(T) = Cardinality(U)
    BY <1>7, <2>2, <2>3, <2>4, SameCount, Zenon
  <2>6. QED
    BY <2>5, Zenon DEF T
<1>10. QED
  BY <1>7, <1>8, <1>9, Zenon DEF OnlyMaxThreadCountProceed

-----------------------------------------------------------------------------
(* The inductive invariant *)

LEMMA InitIInv == Init => IInv
<1> SUFFICES ASSUME Init PROVE IInv
  BY Zenon
<1>1. setup \in Setups /\ setup.committed \subseteq Documents
  BY SchedulerAssumption, Zenon DEF Init, Setup
<1>2. /\ pc = [a \in Actors |-> IF a \in Threads THEN "idle" ELSE "none"]
      /\ \A t \in Threads : pc[t] = "idle"
      /\ \A m \in MergeIds : pc[m] = "none"
      /\ \A a \in Actors : pc[a] \in {"idle", "none"}
  BY LabelsFit, Zenon DEF Init
<1>3. /\ pending = <<>> /\ list = <<>> /\ merging = {} /\ running = {} /\ aborted = {} /\ asleep = {}
      /\ Range(pending) = {} /\ Range(list) = {} /\ paused = {} /\ handles = {}
  BY DEF Init, Range
<1>4. group = [m \in MergeIds |-> {}] /\ result = [m \in MergeIds |-> "none"]
  BY Zenon DEF Init
<1>5. TypeOK
  <2>1. PcOK
    BY <1>2, LabelsFit, Zenon DEF PcOK, ThreadLabels, MergeLabels
  <2>2. segs \subseteq SUBSET Documents
    BY <1>1, Zenon DEF Init
  <2>3. /\ pending \in Seq(MergeIds) /\ list \in Seq(MergeIds)
        /\ group \in [MergeIds -> SUBSET SUBSET Documents]
        /\ result \in [MergeIds -> {"none", "ok", "aborted", "failed"}]
    BY <1>3, <1>4
  <2>4. /\ job \in [Threads -> {"none", "merge", "close", "delete_all", "force_merge", "stop"}]
        /\ target \in [Threads -> MergeIds \union {0}]
    BY Zenon DEF Init
  <2>5. /\ stopped \in BOOLEAN /\ paused_by \subseteq Threads /\ asleep \subseteq Threads
        /\ monitor \in Actors \union {None} /\ errors \in Nat /\ added \subseteq Documents
        /\ ops \in Nat /\ drops \in Nat /\ failures \in Nat
    BY <1>1, Zenon DEF Init
  <2>6. merging \subseteq SUBSET Documents /\ running \subseteq MergeIds /\ aborted \subseteq MergeIds
        /\ handles \subseteq Range(list) /\ paused \subseteq Range(list)
    BY <1>3, Zenon
  <2>7. QED
    BY <1>1, <2>1, <2>2, <2>3, <2>4, <2>5, <2>6, Zenon DEF TypeOK, PcOK
<1>6. QueueInv
  <2>1. \A m \in MergeIds : group[m] # {} <=> m <= 0
    BY <1>4 DEF MergeIds
  <2>2. 0 \in 0..MaxMerges
    BY SchedulerAssumption
  <2>3. DOMAIN pending = {}
    BY <1>3
  <2>4. QED
    BY <1>2, <1>3, <2>1, <2>2, <2>3, Zenon DEF QueueInv
<1>7. Holding = {}
  BY <1>2, <1>3, Zenon DEF Holding
<1>8. ClaimInv /\ AddedInv
  <2>1. ClaimInv
    BY <1>3, <1>7, Zenon DEF ClaimInv
  <2>2. AddedInv
    BY Zenon DEF AddedInv, Init
  <2>3. QED
    BY <2>1, <2>2, Zenon
<1>9. PauseInv /\ RunningInv /\ MonitorInv
  BY <1>2, <1>3, Zenon DEF PauseInv, RunningInv, MonitorInv
<1>10. ListInv
  <2>1. PausedOf(list) = {}
    BY <1>3, PausedListed, Zenon
  <2>2. DOMAIN list = {}
    BY <1>3
  <2>3. QED
    BY <1>2, <1>3, <2>1, <2>2, Zenon DEF ListInv
<1>11. SerialInv
  <2>1. Taken = {}
    BY <1>2, Zenon DEF Taken
  <2>2. QED
    BY <1>2, <2>1, Zenon DEF SerialInv
<1>12. ResultInv /\ WorkInv
  BY <1>2, <1>3, <1>4, Zenon DEF ResultInv, WorkInv
<1>13. SleepersHaveAborted /\ NoMergeRegisteredWhileBlocked
  BY <1>3, Zenon DEF SleepersHaveAborted, NoMergeRegisteredWhileBlocked
<1>14. QED
  BY <1>5, <1>6, <1>8, <1>9, <1>10, <1>11, <1>12, <1>13, Zenon DEF IInv

LEMMA NextIInv == IInv /\ [Next]_vars => IInv'
<1> SUFFICES ASSUME IInv, [Next]_vars PROVE IInv'
  BY Zenon
<1>0. /\ TypeOK /\ QueueInv /\ ClaimInv /\ AddedInv /\ PauseInv /\ RunningInv /\ MonitorInv
      /\ ListInv /\ SerialInv /\ ResultInv /\ WorkInv
      /\ SleepersHaveAborted /\ NoMergeRegisteredWhileBlocked
  BY Zenon DEF IInv
<1>1. TypeOK' /\ Flow /\ StoreStep
  BY <1>0, TypeStep, StepFlow, StepsAreStoreSteps, Zenon
<1>2. QueueInv' /\ ClaimInv'
  BY <1>0, <1>1, ClaimStep, Zenon
<1>3. AddedInv'
  BY <1>0, <1>1, AddedStep, Zenon
<1>4. PauseInv' /\ NoMergeRegisteredWhileBlocked'
  BY <1>0, PauseStep, Zenon
<1>5. RunningInv' /\ SleepersHaveAborted'
  <2>1. aborted \subseteq MergeIds /\ running \subseteq MergeIds /\ aborted' \subseteq MergeIds
    BY <1>0, <1>1, Zenon DEF TypeOK
  <2>2. QED
    BY <1>0, <1>1, <2>1, RunningStep, SleepersStep, Zenon DEF Flow
<1>6. MonitorInv'
  BY <1>0, MonitorStep, Zenon
<1>7. ListInv' /\ SerialInv'
  BY <1>0, ListStep, SerialStep, Zenon
<1>8. ResultInv'
  BY <1>0, <1>1, ResultStep, Zenon
<1>9. WorkInv'
  BY <1>0, <1>6, WorkStep, Zenon
<1>10. QED
  BY <1>1, <1>2, <1>3, <1>4, <1>5, <1>6, <1>7, <1>8, <1>9, Zenon DEF IInv

LEMMA Invariance == Spec => []IInv
BY InitIInv, NextIInv, PTL DEF Spec

LEMMA ClaimsHeld ==
  ASSUME ClaimInv
  PROVE  EveryClaimHasAMerge
<1>1. ASSUME drops = 0 PROVE merging = Claims(Holding)
  <2>1. \A s : s \in merging => s \in Claims(Holding)
    BY <1>1, ClaimsAre, Zenon DEF ClaimInv
  <2>2. \A s : s \in Claims(Holding) => s \in merging
    BY ClaimsAre, Zenon DEF ClaimInv
  <2>3. QED
    BY <2>1, <2>2, Zenon
<1>2. QED
  BY <1>1, Zenon DEF ClaimInv, EveryClaimHasAMerge

LEMMA CloseDone ==
  ASSUME IInv, NEW t \in Threads, SyncReturns(t), failures = 0, drops = 0,
         \A u \in Threads \ {t} : pc[u] = "idle"
  PROVE  pending = <<>> /\ merging = {}
<1>0. TypeOK /\ QueueInv /\ ClaimInv /\ ListInv /\ SerialInv /\ WorkInv
  BY Zenon DEF IInv
<1>1. pc[t] = "sync" /\ list = <<>> /\ Range(list) = {}
  BY DEF SyncReturns, Range
<1>2. \A u \in Threads : pc[u] \in {"sync", "idle"}
  BY <1>1, Zenon
<1>3. Scheduler = "concurrent" \/ Scheduler = "serial"
  BY <1>0, ListedMerges, Zenon
<1>4. ASSUME Scheduler = "concurrent", NEW m \in MergeIds PROVE pc[m] \in Unlisted
  BY <1>0, <1>1, <1>4, Zenon DEF ListInv, Unlisted
<1>5. ~Attended
  <2>1. CASE Scheduler = "concurrent"
    <3>1. ASSUME NEW a \in Actors PROVE pc[a] \notin Working
      BY <1>2, <1>4, <2>1, <3>1, Zenon DEF Working, Unlisted, Actors
    <3>2. QED
      BY <2>1, <3>1, AttendedIs, Zenon
  <2>2. CASE Scheduler = "serial"
    <3>1. \A u \in Threads : ~Asks(u)
      BY <1>2, Zenon DEF Asks
    <3>2. QED
      BY <2>2, <3>1, AttendedIs, Zenon
  <2>3. QED
    BY <1>3, <2>1, <2>2, Zenon
<1>6. pending = <<>>
  BY <1>0, <1>5, Zenon DEF WorkInv
<1>7. Taken = {}
  <2>1. CASE Scheduler = "concurrent"
    BY <1>4, <2>1, Zenon DEF Taken, Unlisted
  <2>2. CASE Scheduler = "serial"
    BY <1>0, <1>2, <2>2, Zenon DEF SerialInv
  <2>3. QED
    BY <1>3, <2>1, <2>2, Zenon
<1>8. Holding = {}
  BY <1>6, <1>7 DEF Holding, Taken, Range
<1>9. merging = {}
  BY <1>0, <1>8, Zenon DEF ClaimInv
<1>10. QED
  BY <1>6, <1>9, Zenon

-----------------------------------------------------------------------------

\* The variables of the writer and of its scheduler keep their types, and the
\* handles and the paused merges are always among the listed threads.
THEOREM MergeTypes == Spec => []TypeOK
<1>1. IInv => TypeOK
  BY Zenon DEF IInv
<1>2. QED
  BY <1>1, Invariance, PTL

\* Every segment in Core.merging is claimed by one merge, registered or
\* running, on every way out of run_scheduled_merge, while no claimed segment was
\* dropped; no two merges ever share a source.
THEOREM ClaimsHaveMerges == Spec => []EveryClaimHasAMerge
<1>1. IInv => EveryClaimHasAMerge
  BY ClaimsHeld, Zenon DEF IInv
<1>2. QED
  BY <1>1, Invariance, PTL

\* No merge is registered once stop_merges has returned, nor while a force
\* merge waits for the merges it aborted.
THEOREM BlockedRegistersNothing == Spec => []NoMergeRegisteredWhileBlocked
<1>1. IInv => NoMergeRegisteredWhileBlocked
  BY Zenon DEF IInv
<1>2. QED
  BY <1>1, Invariance, PTL

\* A thread asleep in wait_for_merges waits for aborted merges only.
THEOREM SleepersWaitForAborted == Spec => []SleepersHaveAborted
<1>1. IInv => SleepersHaveAborted
  BY Zenon DEF IInv
<1>2. QED
  BY <1>1, Invariance, PTL

\* update_merge_threads leaves MaxThreadCount big merges running, or all of
\* them when there are fewer, whatever threads start and leave.
THEOREM MaxThreadCountProceed == Spec => []OnlyMaxThreadCountProceed
<1>1. IInv => OnlyMaxThreadCountProceed
  BY OnlySomeProceed, Zenon DEF IInv
<1>2. QED
  BY <1>1, Invariance, PTL

\* close_merges returns with no merge registered and no segment claimed, when
\* nothing failed and no other call is under way.
THEOREM CloseFinishes == Spec => CloseLeavesNoMerge
<1> DEFINE Closes == \A t \in Threads :
                       /\ SyncReturns(t)
                       /\ failures = 0 /\ drops = 0
                       /\ \A u \in Threads \ {t} : pc[u] = "idle"
                       => pending = <<>> /\ merging = {}
<1>1. IInv /\ [Next]_vars => [Closes]_vars
  BY CloseDone, Zenon
<1>2. QED
  BY <1>1, Invariance, PTL DEF Spec, CloseLeavesNoMerge

\* Merging implements SegmentStore: seen from the view, every merge happens at
\* once in finish_merge, and what begin_merge, aborts, panics, failures and
\* pauses do on the way to it leaves the view alone.
THEOREM MergesImplementStore == Spec => MergesAreAtomic
<1>1. Init => Store!Init
  BY SchedulerAssumption, Zenon DEF Init, Store!Init, Setup
<1>2. IInv /\ [Next]_vars => [Store!Next]_segs
  <2> SUFFICES ASSUME IInv, [Next]_vars PROVE [Store!Next]_segs
    BY Zenon
  <2>1. AddedInv /\ StoreStep
    BY StepsAreStoreSteps, Zenon DEF IInv
  <2>2. QED
    BY <2>1, StoreImplements, Zenon
<1>3. QED
  BY <1>1, <1>2, Invariance, PTL DEF Spec, MergesAreAtomic, Store!Spec
=============================================================================
