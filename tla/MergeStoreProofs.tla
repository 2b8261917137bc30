-------------------------- MODULE MergeStoreProofs --------------------------
(***************************************************************************)
(* The steps of MergeScheduler keep the claims of merges, their results, the *)
(* merges held back and the lock of the scheduler; and every step is a step *)
(* of SegmentStore or leaves the view alone.                               *)
(***************************************************************************)
EXTENDS MergeTypeProofs

-----------------------------------------------------------------------------
(* Claims: a step gives up the merges R and registers the merges N *)

LEMMA ClaimsAre == \A R, s : s \in Claims(R) <=> \E m \in R : s \in group[m]
BY Zenon DEF Claims

LEMMA HoldingIs ==
  /\ \A m \in MergeIds : m \in Holding <=> m \in Range(pending) \/ m \in Taken
  /\ Taken \subseteq MergeIds /\ Taken \subseteq Holding /\ Range(pending) \subseteq Holding
  /\ TypeOK => Holding \subseteq MergeIds /\ Range(pending) \subseteq MergeIds
BY DEF Holding, Taken, TypeOK, Range

LEMMA HoldingNext ==
  /\ \A m \in MergeIds : m \in Holding' <=> m \in Range(pending') \/ m \in Taken'
  /\ TypeOK' => Holding' \subseteq MergeIds
BY DEF Holding, Taken, TypeOK, Range

Turns(R, N) ==
    /\ R \subseteq Holding
    /\ \A m \in N : group[m] = {} /\ group'[m] # {} /\ group'[m] \subseteq segs' \ (merging \ Claims(R))
    /\ \A m, n \in N : m # n => group'[m] \intersect group'[n] = {}
    /\ \A m \in MergeIds \ N : group'[m] = group[m]
    /\ \A s : s \in merging' <=> s \in merging \ Claims(R) \/ \E m \in N : s \in group'[m]
    /\ Distinct(pending') /\ Range(pending') \subseteq Range(pending) \union N
    /\ \E k \in 0..MaxMerges : \A m \in MergeIds : group'[m] # {} <=> m <= k
    /\ \A m \in MergeIds : pc'[m] = "none" \/ pc[m] # "none" \/ (m \in Range(pending) \ Range(pending'))
    /\ \A m \in MergeIds : m \in Holding' <=> (m \in Holding /\ m \notin R) \/ m \in N
    /\ merging' = {} \/ \A s \in segs : s \in segs' \/ s \in Claims(R)

LEMMA TurnsQueue ==
  ASSUME TypeOK, TypeOK', QueueInv, NEW R \in SUBSET MergeIds, NEW N \in SUBSET MergeIds, Turns(R, N)
  PROVE  QueueInv'
<1>1. \A m \in N : pc[m] = "none" /\ m \notin Range(pending)
  BY Zenon DEF Turns, QueueInv
<1>2. \A m \in Range(pending') : m \in MergeIds
  BY DEF TypeOK, Range
<1>3. ASSUME NEW m \in Range(pending') PROVE pc'[m] = "none"
  <2>1. pc[m] = "none"
    BY <1>1, Zenon DEF Turns, QueueInv
  <2>2. QED
    BY <1>2, <2>1, Zenon DEF Turns
<1>4. ASSUME NEW m \in MergeIds, pc'[m] # "none" \/ m \in Range(pending') PROVE group'[m] # {}
  <2>1. CASE m \in N
    BY <2>1, Zenon DEF Turns
  <2>2. CASE m \notin N
    <3>1. group'[m] = group[m]
      BY <2>2, Zenon DEF Turns
    <3>2. pc[m] # "none" \/ m \in Range(pending)
      BY <1>4, <2>2, Zenon DEF Turns
    <3>3. QED
      BY <3>1, <3>2, Zenon DEF QueueInv
  <2>3. QED
    BY <2>1, <2>2, Zenon
<1>5. QED
  BY <1>3, <1>4, Zenon DEF QueueInv, Turns, Distinct

LEMMA TurnsClaims ==
  ASSUME TypeOK, TypeOK', QueueInv, ClaimInv, NEW R \in SUBSET MergeIds, NEW N \in SUBSET MergeIds,
         Turns(R, N), drops' = drops
  PROVE  ClaimInv'
<1> DEFINE kept == merging \ Claims(R)
<1>1. \A m \in N : m \notin Holding
  BY HoldingIs, Zenon DEF Turns, QueueInv, Taken
<1>2. \A m \in MergeIds : m \in Holding' <=> (m \in Holding /\ m \notin R) \/ m \in N
  BY Zenon DEF Turns
<1>3. \A m \in Holding \ R : group[m] \subseteq kept /\ group'[m] = group[m]
  <2> SUFFICES ASSUME NEW m \in Holding \ R PROVE group[m] \subseteq kept /\ group'[m] = group[m]
    BY Zenon
  <2>1. m \in MergeIds /\ m \notin N
    BY <1>1, HoldingIs, Zenon
  <2>2. group[m] \subseteq merging
    BY Zenon DEF ClaimInv
  <2>3. ASSUME NEW s \in group[m], s \in Claims(R) PROVE FALSE
    <3>1. PICK r \in R : s \in group[r]
      BY <2>3, ClaimsAre, Zenon
    <3>2. r \in Holding /\ r # m
      BY Zenon DEF Turns
    <3>3. group[m] \intersect group[r] = {}
      BY <3>2, Zenon DEF ClaimInv
    <3>4. QED
      BY <2>3, <3>1, <3>3, Zenon
  <2>4. QED
    BY <2>1, <2>2, <2>3, Zenon DEF Turns
<1> HIDE DEF kept
<1>4. \A m \in N : group'[m] \subseteq segs' \ kept
  BY Zenon DEF Turns, kept
<1>5. \A s : s \in merging' <=> s \in kept \/ \E m \in N : s \in group'[m]
  BY Zenon DEF Turns, kept
<1>6. Holding' \subseteq MergeIds /\ \A m \in Holding' : m \in Holding \ R \/ m \in N
  BY <1>2, HoldingNext, Zenon
<1>7. ASSUME NEW m \in Holding' PROVE group'[m] \subseteq merging'
  BY <1>3, <1>5, <1>6, Zenon
<1>8. ASSUME NEW m \in Holding', NEW n \in Holding', m # n
      PROVE  group'[m] \intersect group'[n] = {}
  <2>1. CASE m \in N /\ n \in N
    BY <1>8, <2>1, Zenon DEF Turns
  <2>2. CASE m \in N /\ n \in Holding \ R
    BY <1>3, <1>4, <2>2, Zenon
  <2>3. CASE n \in N /\ m \in Holding \ R
    BY <1>3, <1>4, <2>3, Zenon
  <2>4. CASE m \in Holding \ R /\ n \in Holding \ R
    <3>1. group[m] \intersect group[n] = {}
      BY <1>8, <2>4, Zenon DEF ClaimInv
    <3>2. QED
      BY <1>3, <2>4, <3>1, Zenon
  <2>5. QED
    BY <1>6, <1>8, <2>1, <2>2, <2>3, <2>4, Zenon
<1>9. ASSUME drops' = 0, NEW s \in merging' PROVE \E m \in Holding' : s \in group'[m]
  <2>1. CASE \E m \in N : s \in group'[m]
    BY <1>2, <2>1, Zenon
  <2>2. CASE s \in kept
    <3>1. s \in merging /\ s \notin Claims(R) /\ drops = 0
      BY <1>9, <2>2, Zenon DEF kept
    <3>2. PICK m \in Holding : s \in group[m]
      BY <3>1, Zenon DEF ClaimInv
    <3>3. m \notin R
      BY <3>1, <3>2, ClaimsAre, Zenon
    <3>4. QED
      BY <1>2, <1>3, <3>2, <3>3, HoldingIs, Zenon
  <2>3. QED
    BY <1>5, <1>9, <2>1, <2>2, Zenon
<1>10. ASSUME drops' = 0, NEW m \in Holding', NEW s \in group'[m] PROVE s \in segs'
  <2>1. CASE m \in N
    BY <1>4, <1>10, <2>1, Zenon
  <2>2. CASE m \in Holding \ R
    <3>1. s \in group[m] /\ s \in segs /\ s \in kept
      BY <1>3, <1>10, <2>2, Zenon DEF ClaimInv
    <3>2. s \in merging' /\ s \notin Claims(R)
      BY <1>5, <3>1, Zenon DEF kept
    <3>3. QED
      BY <3>1, <3>2, Zenon DEF Turns
  <2>3. QED
    BY <1>6, <1>10, <2>1, <2>2, Zenon
<1>11. QED
  BY <1>7, <1>8, <1>9, <1>10, Zenon DEF ClaimInv

LEMMA ReleaseTurns ==
  ASSUME TypeOK, QueueInv, NEW R \in SUBSET MergeIds, R \subseteq Holding,
         group' = group, \A s : s \in merging' <=> s \in merging \ Claims(R),
         Distinct(pending'), Range(pending') \subseteq Range(pending),
         \A m \in MergeIds :
           /\ pc'[m] = "none" \/ pc[m] # "none" \/ (m \in Range(pending) \ Range(pending'))
           /\ m \in Range(pending') \/ m \in Taken' <=> (m \in Range(pending) \/ m \in Taken) /\ m \notin R,
         merging' = {} \/ \A s \in segs : s \in segs' \/ s \in Claims(R)
  PROVE  Turns(R, {})
<1>1. \A m \in MergeIds : m \in Holding' <=> (m \in Holding /\ m \notin R) \/ m \in {}
  BY HoldingIs, HoldingNext, Zenon
<1>2. \E k \in 0..MaxMerges : \A m \in MergeIds : group'[m] # {} <=> m <= k
  BY Zenon DEF QueueInv
<1>3. Range(pending') \subseteq Range(pending) \union {}
  BY Zenon
<1>4. QED
  BY <1>1, <1>2, <1>3, Zenon DEF Turns

LEMMA PlainTurns ==
  ASSUME TypeOK, QueueInv, pending' = pending, group' = group, merging' = merging,
         merging' = {} \/ \A s \in segs : s \in segs',
         \A m \in MergeIds : (pc'[m] = "none" \/ pc[m] # "none") /\ (m \in Taken' <=> m \in Taken)
  PROVE  Turns({}, {})
<1>1. Claims({}) = {} /\ {} \in SUBSET MergeIds /\ {} \subseteq Holding
  BY Zenon DEF Claims
<1>2. \A s : s \in merging' <=> s \in merging \ Claims({})
  BY <1>1, Zenon
<1>3. Distinct(pending') /\ Range(pending') \subseteq Range(pending)
  BY Zenon DEF QueueInv, Distinct
<1>4. QED
  BY <1>1, <1>2, <1>3, ReleaseTurns, Zenon

LEMMA RegisterTurns ==
  ASSUME TypeOK, QueueInv, NEW R \in SUBSET MergeIds, R \subseteq Holding, NEW S, NEW claimed,
         NEW N \in SUBSET MergeIds, Registers(S, claimed, N),
         S = segs', claimed = merging \ Claims(R), R \intersect Range(pending) = {},
         \A m \in MergeIds : (pc'[m] = "none" \/ pc[m] # "none") /\ (m \in Taken' <=> m \in Taken \ R),
         \A s \in segs : s \in segs' \/ s \in Claims(R)
  PROVE  Turns(R, N)
<1>1. Range(pending') = Range(pending) \union N
  BY Zenon DEF Registers
<1>2. \A m \in MergeIds : m \in Holding' <=> (m \in Holding /\ m \notin R) \/ m \in N
  BY <1>1, HoldingIs, HoldingNext, Zenon
<1>3. QED
  BY <1>1, <1>2, Zenon DEF Turns, Registers

\* A thread moves, or a merge that was taken before.
LEMMA ThreadMove ==
  ASSUME NEW t \in Threads, OnlyMoves(t)
  PROVE  \A m \in MergeIds : pc'[m] = pc[m] /\ (m \in Taken' <=> m \in Taken)
BY LabelsFit, Zenon DEF OnlyMoves, Taken

LEMMA MergeMove ==
  ASSUME NEW m \in MergeIds, NEW l, Moves(m, l)
  PROVE  /\ \A n \in MergeIds : n # m => pc'[n] = pc[n] /\ (n \in Taken' <=> n \in Taken)
         /\ pc'[m] = l /\ (m \in Taken' <=> l \in {"new", "merging", "ran"})
BY LabelsFit, Zenon DEF OnlyMoves, Moves, Taken

\* The oldest merge of the queue is taken: it holds its claims still.
LEMMA TakesTurns ==
  ASSUME TypeOK, QueueInv, NEW a \in Actors, NEW l, Takes(a, l),
         a \in MergeIds => pc[a] \notin {"none", "new", "merging", "ran"},
         l \notin {"none", "new", "merging", "ran"},
         pending' = Tail(pending), group' = group, merging' = merging, segs' = segs
  PROVE  Turns({}, {})
<1>1. /\ pending # <<>> /\ Head(pending) \in MergeIds /\ a # Head(pending)
      /\ pc[Head(pending)] = "none" /\ pc'[a] = l /\ pc'[Head(pending)] = "new"
      /\ \A b \in Actors : b # a /\ b # Head(pending) => pc'[b] = pc[b]
  BY Zenon DEF Takes
<1>2. /\ Distinct(pending) /\ pending \in Seq(MergeIds)
  BY Zenon DEF QueueInv, Distinct, TypeOK
<1>3. Head(pending) \in Range(pending)
      /\ Distinct(pending') /\ Range(pending') = Range(pending) \ {Head(pending)}
  BY <1>1, <1>2, HeadTail, Zenon
<1>4. ASSUME NEW m \in MergeIds
      PROVE  /\ pc'[m] = "none" \/ pc[m] # "none" \/ (m \in Range(pending) \ Range(pending'))
             /\ m \in Range(pending') \/ m \in Taken'
                  <=> (m \in Range(pending) \/ m \in Taken) /\ m \notin {}
  <2>1. CASE m = Head(pending)
    BY <1>1, <1>3, <2>1, Zenon DEF Taken
  <2>2. CASE m = a
    BY <1>1, <1>3, <2>2, Zenon DEF Taken
  <2>3. CASE m # a /\ m # Head(pending)
    <3>1. pc'[m] = pc[m]
      BY <1>1, <2>3, LabelsFit, Zenon
    <3>2. QED
      BY <1>3, <2>3, <3>1, Zenon DEF Taken
  <2>4. QED
    BY <2>1, <2>2, <2>3, Zenon
<1>5. Claims({}) = {} /\ {} \in SUBSET MergeIds /\ {} \subseteq Holding
  BY Zenon DEF Claims
<1>6. \A s : s \in merging' <=> s \in merging \ Claims({})
  BY <1>5, Zenon
<1>7. Range(pending') \subseteq Range(pending)
  BY <1>3, Zenon
<1>8. QED
  BY <1>3, <1>4, <1>5, <1>6, <1>7, ReleaseTurns, Zenon

LEMMA ThreadStepTurns ==
  ASSUME TypeOK, QueueInv, NEW t \in Threads, Call(t) \/ ThreadStep(t)
  PROVE  (\E R, N \in SUBSET MergeIds : Turns(R, N)) /\ drops' = drops
<1>0. PcOK /\ pending \in Seq(MergeIds) /\ Range(pending) \subseteq MergeIds
      /\ {} \in SUBSET MergeIds /\ {} \subseteq Holding
  BY TypeParts, HoldingIs, Zenon DEF WriterOK
<1>d. drops' = drops
  BY Zenon DEF Call, ThreadStep, ScheduleMerges, CallExclusive, StopMerges, DropRegistered,
               AbortMerges, WaitForMerges, SerialNext, SerialFails, TakeHandle, Join, SyncReturns,
               boundVars
<1>p. ASSUME OnlyMoves(t), pending' = pending, group' = group, merging' = merging,
             merging' = {} \/ segs' = segs
      PROVE  Turns({}, {})
  BY <1>p, ThreadMove, PlainTurns, Zenon
<1>q. ASSUME OnlyMoves(t), pending' = <<>>, group' = group,
             merging' = merging \ Claims(Range(pending)), merging' = {} \/ segs' = segs
      PROVE  Turns(Range(pending), {})
  <2>1. Range(pending') = {} /\ Distinct(pending')
    BY <1>q DEF Range, Distinct
  <2>2. \A m \in Range(pending) : m \notin Taken
    BY Zenon DEF QueueInv, Taken
  <2>3. \A m \in MergeIds : pc'[m] = pc[m] /\ (m \in Taken' <=> m \in Taken)
    BY <1>q, ThreadMove, Zenon
  <2>4. \A s : s \in merging' <=> s \in merging \ Claims(Range(pending))
    BY <1>q, Zenon
  <2>5. QED
    BY <1>0, <1>q, <2>1, <2>2, <2>3, <2>4, HoldingIs, ReleaseTurns, Zenon
<1>1. ASSUME NEW j, ScheduleMerges(t, j) PROVE \E R, N \in SUBSET MergeIds : Turns(R, N)
  <2>1. PICK N \in SUBSET MergeIds : Registers(segs, merging, N)
    BY <1>1, ScheduleRegisters, Zenon
  <2>2. OnlyMoves(t) /\ segs' = segs
    BY <1>0, <1>1, ScheduleMergesMoves, Zenon DEF Moves, ScheduleMerges
  <2>3. merging \ Claims({}) = merging
    BY Zenon DEF Claims
  <2>4. PICK S, C : S = segs /\ C = merging
    BY Zenon
  <2>5. Registers(S, C, N) /\ S = segs' /\ C = merging \ Claims({})
    BY <2>1, <2>2, <2>3, <2>4, Zenon
  <2>6. \A m \in MergeIds : (pc'[m] = "none" \/ pc[m] # "none") /\ (m \in Taken' <=> m \in Taken \ {})
    BY <2>2, ThreadMove, Zenon
  <2>7. Turns({}, N)
    BY <1>0, <2>2, <2>5, <2>6, RegisterTurns, Zenon
  <2>8. QED
    BY <1>0, <2>7, Zenon
<1>2. ASSUME NEW j, CallExclusive(t, j) PROVE Turns({}, {})
  BY <1>0, <1>2, <1>p, CallExclusiveMoves, Zenon DEF CallExclusive, Moves
<1>3. ASSUME StopMerges(t) PROVE Turns({}, {})
  BY <1>0, <1>3, <1>p, StopMergesMoves, Zenon DEF StopMerges, Moves
<1>4. CASE DropRegistered(t)
  <2>1. Turns(Range(pending), {})
    BY <1>0, <1>4, <1>q, DropRegisteredMoves, Zenon DEF DropRegistered, Moves
  <2>2. QED
    BY <1>0, <1>d, <2>1, Zenon
<1>5. CASE AbortMerges(t)
  <2>1. OnlyMoves(t) /\ (merging' = {} \/ segs' = segs)
    BY <1>0, <1>5, BodyOrWaitMoves, Zenon DEF AbortMerges, Moves
  <2>2. Turns(Range(pending), {})
    BY <1>5, <1>q, <2>1, Zenon DEF AbortMerges
  <2>3. QED
    BY <1>0, <1>d, <2>2, Zenon
<1>6. CASE WaitForMerges(t)
  <2>1. OnlyMoves(t) /\ (merging' = {} \/ segs' = segs)
    BY <1>0, <1>6, BodyOrWaitMoves, Zenon DEF WaitForMerges, Moves
  <2>2. QED
    BY <1>0, <1>d, <1>6, <1>p, <2>1, Zenon DEF WaitForMerges
<1>7. CASE SerialNext(t)
  <2>1. CASE pending' = pending /\ Moves(t, Returned(t))
    BY <1>0, <1>d, <1>7, <1>p, <2>1, Zenon DEF SerialNext, Moves
  <2>2. CASE Takes(t, "serial") /\ pending' = Tail(pending)
    <3>1. Turns({}, {})
      <4>1. t \in Actors /\ t \notin MergeIds /\ "serial" \notin {"none", "new", "merging", "ran"}
        BY LabelsFit, Zenon
      <4>2. QED
        BY <1>7, <2>2, <4>1, TakesTurns, Zenon DEF SerialNext
    <3>2. QED
      BY <1>0, <1>d, <3>1, Zenon
  <2>3. QED
    BY <1>0, <1>7, <2>1, <2>2, SerialNextMoves, Zenon
<1>8. ASSUME SerialFails(t) PROVE Turns({}, {})
  BY <1>0, <1>8, <1>p, SerialFailsMoves, Zenon DEF SerialFails, Moves, writerVars
<1>9. ASSUME TakeHandle(t) PROVE Turns({}, {})
  BY <1>0, <1>9, <1>p, TakeHandleMoves, Zenon DEF TakeHandle, Moves, writerVars
<1>10. ASSUME Join(t) PROVE Turns({}, {})
  BY <1>0, <1>10, <1>p, JoinMoves, Zenon DEF Join, Moves, writerVars
<1>11. ASSUME SyncReturns(t) PROVE Turns({}, {})
  BY <1>0, <1>11, <1>p, SyncReturnsMoves, Zenon DEF SyncReturns, Moves, writerVars
<1>12. QED
  BY <1>0, <1>d, <1>1, <1>2, <1>3, <1>4, <1>5, <1>6, <1>7, <1>8, <1>9, <1>10, <1>11, Zenon
     DEF Call, ThreadStep

LEMMA SchedulerStepTurns ==
  ASSUME TypeOK, QueueInv, NEW a \in Actors, SchedulerStep(a)
  PROVE  (\E R, N \in SUBSET MergeIds : Turns(R, N)) /\ drops' = drops
<1>0. PcOK /\ pending \in Seq(MergeIds) /\ Range(pending) \subseteq MergeIds
      /\ {} \in SUBSET MergeIds /\ {} \subseteq Holding
  BY TypeParts, HoldingIs, Zenon DEF WriterOK
<1>d. drops' = drops
  BY Zenon DEF SchedulerStep, MaybeStall, NextMergeNone, StartMergeThread, StartMergeThreadFails,
               boundVars
<1>l. ASSUME NEW l \in {"stalled", "leave", "pop", "sync", "idle"}, Moves(a, l),
             pc[a] \in {"enter", "stalled", "done", "check", "pop"}
      PROVE  \A m \in MergeIds : (pc'[m] = "none" <=> pc[m] = "none") /\ (m \in Taken' <=> m \in Taken)
  <2> SUFFICES ASSUME NEW m \in MergeIds
               PROVE  (pc'[m] = "none" <=> pc[m] = "none") /\ (m \in Taken' <=> m \in Taken)
    BY Zenon
  <2>1. CASE m = a
    BY <1>l, <2>1, Zenon DEF Moves, Taken
  <2>2. CASE m # a
    <3>1. pc'[m] = pc[m]
      BY <1>l, <2>2, LabelsFit, Zenon DEF Moves, OnlyMoves
    <3>2. QED
      BY <3>1, Zenon DEF Taken
  <2>3. QED
    BY <2>1, <2>2, Zenon
<1>1. ASSUME MaybeStall(a) PROVE Turns({}, {})
  <2>1. PICK l \in {"stalled", "leave", "pop", "sync", "idle"} : Moves(a, l)
    BY <1>0, <1>1, MaybeStallMoves, Zenon
  <2>2. pc[a] \in {"enter", "stalled", "done", "check", "pop"}
    BY <1>0, <1>1, MaybeStallMoves, Zenon
  <2>3. QED
    BY <1>1, <1>l, <2>1, <2>2, PlainTurns, Zenon DEF MaybeStall, writerVars
<1>2. ASSUME NextMergeNone(a) PROVE Turns({}, {})
  <2>1. PICK l \in {"stalled", "leave", "pop", "sync", "idle"} : Moves(a, l)
    BY <1>0, <1>2, ReturnedMoves, Zenon DEF NextMergeNone, Actors
  <2>2. pc[a] \in {"enter", "stalled", "done", "check", "pop"}
    BY <1>2, Zenon DEF NextMergeNone
  <2>3. QED
    BY <1>2, <1>l, <2>1, <2>2, PlainTurns, Zenon DEF NextMergeNone, writerVars
<1>3. ASSUME StartMergeThread(a) PROVE Turns({}, {})
  <2>1. Takes(a, "check") /\ pc[a] = "pop"
    BY <1>0, <1>3, StartMergeThreadMoves, Zenon
  <2>2. /\ pc[a] \notin {"none", "new", "merging", "ran"}
        /\ "check" \notin {"none", "new", "merging", "ran"}
    BY <2>1, Zenon
  <2>3. QED
    BY <1>3, <2>1, <2>2, TakesTurns, Zenon DEF StartMergeThread
<1>4. ASSUME StartMergeThreadFails(a) PROVE \E R, N \in SUBSET MergeIds : Turns(R, N)
  <2> DEFINE R == {Head(pending)}
  <2>1. PICK l \in {"stalled", "leave", "pop", "sync", "idle"} : Moves(a, l)
    BY <1>0, <1>4, StartMergeThreadFailsMoves, Zenon
  <2>2. pc[a] \in {"enter", "stalled", "done", "check", "pop"}
    BY <1>4, Zenon DEF StartMergeThreadFails
  <2>3. /\ pending # <<>> /\ pending' = Tail(pending) /\ group' = group /\ segs' = segs
        /\ merging' = merging \ group[Head(pending)]
    BY <1>4, Zenon DEF StartMergeThreadFails, on_merge_finished
  <2>4. Distinct(pending)
    BY Zenon DEF QueueInv, Distinct
  <2>5. Head(pending) \in Range(pending) /\ Distinct(pending')
        /\ Range(pending') = Range(pending) \ {Head(pending)}
    BY <1>0, <2>3, <2>4, HeadTail, Zenon
  <2>6. \A s : s \in merging' <=> s \in merging \ Claims(R)
    BY <2>3, ClaimsAre, Zenon
  <2>7. R \in SUBSET MergeIds /\ R \subseteq Holding /\ \A m \in R : m \notin Taken
    BY <1>0, <2>5, HoldingIs, Zenon DEF QueueInv, Taken
  <2> HIDE DEF R
  <2>8. ASSUME NEW m \in MergeIds
        PROVE  /\ pc'[m] = "none" \/ pc[m] # "none" \/ (m \in Range(pending) \ Range(pending'))
               /\ m \in Range(pending') \/ m \in Taken'
                    <=> (m \in Range(pending) \/ m \in Taken) /\ m \notin R
    <3>1. (pc'[m] = "none" <=> pc[m] = "none") /\ (m \in Taken' <=> m \in Taken)
      BY <1>l, <2>1, <2>2, Zenon
    <3>2. m \in Range(pending') <=> m \in Range(pending) /\ m \notin R
      BY <2>5, Zenon DEF R
    <3>3. QED
      BY <2>7, <3>1, <3>2, Zenon
  <2>9. Range(pending') \subseteq Range(pending)
    BY <2>5, Zenon
  <2>10. Turns(R, {})
    BY <2>3, <2>5, <2>6, <2>7, <2>8, <2>9, ReleaseTurns, Zenon
  <2>11. QED
    BY <1>0, <2>7, <2>10, Zenon
<1>5. QED
  BY <1>0, <1>d, <1>1, <1>2, <1>3, <1>4, Zenon DEF SchedulerStep

LEMMA MergeStepTurns ==
  ASSUME TypeOK, QueueInv, NEW m \in MergeIds, MergeStep(m)
  PROVE  \/ BeginMergePanics(m)
         \/ (\E R, N \in SUBSET MergeIds : Turns(R, N)) /\ drops' = drops
<1>0. PcOK /\ pending \in Seq(MergeIds) /\ Range(pending) \subseteq MergeIds
      /\ {} \in SUBSET MergeIds /\ {} \subseteq Holding /\ {m} \in SUBSET MergeIds
  BY TypeParts, HoldingIs, Zenon DEF WriterOK
<1>d. drops' = drops
  BY Zenon DEF MergeStep, BeginMerge, BeginMergeFails, BeginMergePanics, RunMerge, FinishMerge,
               FinishMergeFails, LeaveList, DropSource, boundVars
<1>c. Claims({m}) = group[m]
  BY DEF Claims
<1>p. ASSUME NEW l, Moves(m, l), pc[m] # "none",
             l \in {"new", "merging", "ran"} <=> pc[m] \in {"new", "merging", "ran"},
             UNCHANGED <<pending, group, merging, segs>>
      PROVE  Turns({}, {})
  <2>1. m \in Taken' <=> m \in Taken
    BY <1>p, MergeMove, Zenon DEF Taken
  <2>2. \A n \in MergeIds : (pc'[n] = "none" \/ pc[n] # "none") /\ (n \in Taken' <=> n \in Taken)
    BY <1>p, <2>1, MergeMove, Zenon
  <2>3. QED
    BY <1>p, <2>2, PlainTurns, Zenon
<1>q. ASSUME NEW l \in Overs, Moves(m, l), pc[m] \in {"new", "ran"}
      PROVE  /\ {m} \subseteq Holding /\ m \notin Range(pending)
             /\ \A n \in MergeIds : (pc'[n] = "none" \/ pc[n] # "none")
                                  /\ (n \in Taken' <=> n \in Taken \ {m})
  <2>1. pc[m] # "none" /\ m \in Taken /\ m \notin Taken'
    BY <1>q, MergeMove, Zenon DEF Taken, Overs
  <2>2. {m} \subseteq Holding /\ m \notin Range(pending)
    BY <2>1, HoldingIs, Zenon DEF QueueInv
  <2>3. ASSUME NEW n \in MergeIds
        PROVE  (pc'[n] = "none" \/ pc[n] # "none") /\ (n \in Taken' <=> n \in Taken \ {m})
    <3>1. CASE n = m
      BY <2>1, <3>1, Zenon
    <3>2. CASE n # m
      BY <1>q, <3>2, MergeMove, Zenon
    <3>3. QED
      BY <3>1, <3>2, Zenon
  <2>4. QED
    BY <2>2, <2>3, Zenon
<1>r. ASSUME NEW l \in Overs, Moves(m, l), pc[m] \in {"new", "ran"},
             UNCHANGED <<pending, group>>, on_merge_finished(m), segs' = segs \/ segs' = Merged(m)
      PROVE  Turns({m}, {})
  <2>1. \A s : s \in merging' <=> s \in merging \ Claims({m})
    BY <1>c, <1>r, Zenon DEF on_merge_finished
  <2>2. \A s \in segs : s \in segs' \/ s \in Claims({m})
    BY <1>c, <1>r, Zenon DEF Merged
  <2>3. Distinct(pending') /\ Range(pending') \subseteq Range(pending)
    BY <1>r, Zenon DEF QueueInv, Distinct
  <2>4. {m} \subseteq Holding
    BY <1>q, <1>r, Zenon
  <2>5. ASSUME NEW n \in MergeIds
        PROVE  /\ pc'[n] = "none" \/ pc[n] # "none" \/ (n \in Range(pending) \ Range(pending'))
               /\ n \in Range(pending') \/ n \in Taken'
                    <=> (n \in Range(pending) \/ n \in Taken) /\ n \notin {m}
    <3>1. /\ (pc'[n] = "none" \/ pc[n] # "none") /\ (n \in Taken' <=> n \in Taken \ {m})
          /\ m \notin Range(pending) /\ pending' = pending
      BY <1>q, <1>r, Zenon
    <3>2. QED
      BY <1>q, <1>r, <3>1, Zenon
  <2>6. group' = group
    BY <1>r, Zenon
  <2>7. QED
    BY <1>0, <2>1, <2>2, <2>3, <2>4, <2>5, <2>6, ReleaseTurns, Zenon
<1>1. ASSUME BeginMerge(m) PROVE Turns({}, {})
  BY <1>0, <1>1, <1>p, BeginMergeMoves, Zenon DEF BeginMerge
<1>2. ASSUME BeginMergeFails(m) PROVE Turns({m}, {})
  <2>1. PICK l \in Overs : Moves(m, l)
    BY <1>0, <1>2, OverMoves, Zenon DEF BeginMergeFails
  <2>2. QED
    BY <1>2, <1>r, <2>1, Zenon DEF BeginMergeFails
<1>3. ASSUME RunMerge(m) PROVE Turns({}, {})
  BY <1>0, <1>3, <1>p, RunMergeMoves, Zenon DEF RunMerge, writerVars
<1>4. ASSUME FinishMerge(m) PROVE \E R, N \in SUBSET MergeIds : Turns(R, N)
  <2>1. PICK l \in Overs : Moves(m, l)
    BY <1>0, <1>4, OverMoves, Zenon DEF FinishMerge
  <2>2. CASE result[m] # "ok"
    <3>1. Turns({m}, {})
      BY <1>4, <1>r, <2>1, <2>2, Zenon DEF FinishMerge
    <3>2. QED
      BY <1>0, <3>1, Zenon
  <2>3. CASE result[m] = "ok"
    <3> DEFINE S == segs'
               C == merging \ group[m]
    <3>1. (segs' = segs \/ segs' = Merged(m)) /\ segs' = S /\ C = merging \ Claims({m})
      BY <1>4, <1>c, <2>3, Zenon DEF FinishMerge
    <3>2. PICK N \in SUBSET MergeIds : Registers(S, C, N)
      BY <1>4, <2>3, FinishRegisters, Zenon
    <3>3. \A s \in segs : s \in segs' \/ s \in Claims({m})
      BY <1>c, <3>1, Zenon DEF Merged
    <3> HIDE DEF S, C
    <3>4. pc[m] \in {"new", "ran"}
      BY <1>4, Zenon DEF FinishMerge
    <3>5. /\ {m} \subseteq Holding /\ m \notin Range(pending)
          /\ \A n \in MergeIds : (pc'[n] = "none" \/ pc[n] # "none")
                               /\ (n \in Taken' <=> n \in Taken \ {m})
      BY <1>q, <2>1, <3>4, Zenon
    <3>6. {m} \intersect Range(pending) = {}
      BY <3>5, Zenon
    <3>7. Turns({m}, N)
      BY <1>0, <3>1, <3>2, <3>3, <3>5, <3>6, RegisterTurns, Zenon
    <3>8. QED
      BY <1>0, <3>7, Zenon
  <2>4. QED
    BY <2>2, <2>3, Zenon
<1>5. ASSUME FinishMergeFails(m) PROVE Turns({m}, {})
  <2>1. PICK l \in Overs : Moves(m, l)
    BY <1>0, <1>5, OverMoves, Zenon DEF FinishMergeFails
  <2>2. segs' = segs \/ segs' = Merged(m)
    BY <1>5, Zenon DEF FinishMergeFails
  <2>3. QED
    BY <1>5, <1>r, <2>1, <2>2, Zenon DEF FinishMergeFails
<1>6. ASSUME LeaveList(m) PROVE Turns({}, {})
  BY <1>0, <1>6, <1>p, LeaveListMoves, Zenon DEF LeaveList, writerVars
<1>7. ASSUME DropSource(m) PROVE Turns({}, {})
  BY <1>0, <1>7, <1>p, DropSourceMoves, Zenon DEF DropSource, writerVars
<1>8. QED
  BY <1>0, <1>d, <1>1, <1>2, <1>3, <1>4, <1>5, <1>6, <1>7, Zenon DEF MergeStep

\* A merge that panics over a dropped source holds its claims no more, though
\* they stay in Core.merging.
LEMMA PanicClaims ==
  ASSUME TypeOK, TypeOK', QueueInv, ClaimInv, NEW m \in MergeIds, BeginMergePanics(m)
  PROVE  QueueInv' /\ ClaimInv'
<1>0. PcOK
  BY TypeParts, Zenon
<1>1. PICK l \in Overs : Moves(m, l)
  BY <1>0, OverMoves, Zenon DEF BeginMergePanics
<1>2. /\ pc[m] = "new" /\ ~(group[m] \subseteq segs)
      /\ UNCHANGED <<pending, group, merging, segs, drops>>
  BY Zenon DEF BeginMergePanics, writerVars, boundVars
<1>3. m \in Taken /\ m \in Holding /\ m \notin Range(pending)
  BY <1>2, HoldingIs, Zenon DEF Taken, QueueInv
<1>4. \A n \in MergeIds : pc'[n] = "none" => pc[n] = "none"
  BY <1>1, <1>2, MergeMove, Zenon DEF Overs
<1>5. \A n \in MergeIds : pc[n] = "none" => pc'[n] = "none"
  BY <1>1, <1>2, MergeMove, Zenon
<1>6. QueueInv'
  <2>1. Range(pending) \subseteq MergeIds
    BY HoldingIs, Zenon
  <2>2. QED
    BY <1>2, <1>4, <1>5, <2>1, Zenon DEF QueueInv
<1>7. \A n \in Holding' : n \in Holding
  <2> SUFFICES ASSUME NEW n \in Holding' PROVE n \in Holding
    BY Zenon
  <2>1. n \in MergeIds /\ (n \in Range(pending') \/ n \in Taken')
    BY HoldingNext, Zenon
  <2>2. n \in Taken' => n \in Taken
    BY <1>1, <1>3, <2>1, MergeMove, Zenon
  <2>3. QED
    BY <1>2, <2>1, <2>2, HoldingIs, Zenon
<1>8. drops' # 0
  BY <1>2, <1>3, Zenon DEF ClaimInv
<1>9. ClaimInv'
  BY <1>2, <1>7, <1>8, Zenon DEF ClaimInv
<1>10. QED
  BY <1>6, <1>9, Zenon

\* Every step keeps the queue in order and every claim with its merge.
LEMMA ClaimStep ==
  ASSUME TypeOK, TypeOK', QueueInv, ClaimInv, [Next]_vars
  PROVE  QueueInv' /\ ClaimInv'
<1>0. {} \in SUBSET MergeIds
  BY Zenon
<1>t. ASSUME drops' = drops, \E R, N \in SUBSET MergeIds : Turns(R, N) PROVE QueueInv' /\ ClaimInv'
  BY <1>t, TurnsQueue, TurnsClaims, Zenon
<1>1. CASE Publish
  <2>1. \A m \in MergeIds : (pc'[m] = "none" \/ pc[m] # "none") /\ (m \in Taken' <=> m \in Taken)
    BY <1>1, Zenon DEF Publish, Taken
  <2>2. \A s \in segs : s \in segs'
    BY <1>1, Zenon DEF Publish
  <2>3. Turns({}, {})
    BY <1>1, <2>1, <2>2, PlainTurns, Zenon DEF Publish
  <2>4. drops' = drops
    BY <1>1, Zenon DEF Publish
  <2>5. QED
    BY <1>0, <1>t, <2>3, <2>4, Zenon
<1>2. ASSUME NEW s \in segs, DropSegment(s) PROVE QueueInv' /\ ClaimInv'
  <2>1. UNCHANGED <<pending, group, merging, pc>> /\ drops' # 0
    BY <1>2 DEF DropSegment, TypeOK
  <2>2. Holding' = Holding
    BY <2>1, Zenon DEF Holding
  <2>3. QED
    BY <2>1, <2>2, Zenon DEF QueueInv, ClaimInv
<1>3. ASSUME NEW t \in Threads, Call(t) \/ ThreadStep(t) PROVE QueueInv' /\ ClaimInv'
  BY <1>3, <1>t, ThreadStepTurns, Zenon
<1>4. ASSUME NEW a \in Actors, SchedulerStep(a) PROVE QueueInv' /\ ClaimInv'
  BY <1>4, <1>t, SchedulerStepTurns, Zenon
<1>5. ASSUME NEW m \in MergeIds, MergeStep(m) PROVE QueueInv' /\ ClaimInv'
  BY <1>5, <1>t, MergeStepTurns, PanicClaims, Zenon
<1>6. CASE UNCHANGED vars
  <2>1. UNCHANGED <<pending, group, merging, pc, segs, drops>>
    BY <1>6, Zenon DEF vars, writerVars, boundVars
  <2>2. Holding' = Holding
    BY <2>1, Zenon DEF Holding
  <2>3. QED
    BY <2>1, <2>2, Zenon DEF QueueInv, ClaimInv
<1>7. QED
  BY <1>1, <1>2, <1>3, <1>4, <1>5, <1>6, Zenon DEF Next

-----------------------------------------------------------------------------
(* The view: every step is a step of SegmentStore, or leaves the view alone *)

LEMMA ThreadStore ==
  ASSUME TypeOK, NEW t \in Threads, Call(t) \/ ThreadStep(t)
  PROVE  /\ added' = added
         /\ segs' = segs \/ segs' = {} \/ (segs # {} /\ segs' = {UNION segs})
<1>1. ASSUME BodyOrWait(t) PROVE segs' = segs \/ segs' = {} \/ (segs # {} /\ segs' = {UNION segs})
  BY <1>1, Zenon DEF BodyOrWait, Body
<1>2. ASSUME NEW j, ScheduleMerges(t, j) \/ CallExclusive(t, j) PROVE UNCHANGED <<segs, added>>
  BY <1>2, Zenon DEF ScheduleMerges, CallExclusive
<1>3. ASSUME StopMerges(t) PROVE UNCHANGED <<segs, added>>
  BY <1>3, Zenon DEF StopMerges
<1>4. ASSUME DropRegistered(t) PROVE UNCHANGED <<segs, added>>
  BY <1>4, Zenon DEF DropRegistered, boundVars
<1>5. ASSUME AbortMerges(t) \/ WaitForMerges(t) PROVE BodyOrWait(t) /\ added' = added
  BY <1>5, Zenon DEF AbortMerges, WaitForMerges, boundVars
<1>6. ASSUME SerialNext(t) \/ SerialFails(t) PROVE UNCHANGED <<segs, added>>
  BY <1>6, Zenon DEF SerialNext, SerialFails, writerVars, boundVars
<1>7. ASSUME TakeHandle(t) \/ Join(t) \/ SyncReturns(t) PROVE UNCHANGED <<segs, added>>
  BY <1>7, Zenon DEF TakeHandle, Join, SyncReturns, writerVars, boundVars
<1>8. QED
  BY <1>1, <1>2, <1>3, <1>4, <1>5, <1>6, <1>7, Zenon DEF Call, ThreadStep

LEMMA SchedulerStore ==
  ASSUME NEW a \in Actors, SchedulerStep(a)
  PROVE  UNCHANGED <<segs, added>>
BY Zenon DEF SchedulerStep, MaybeStall, NextMergeNone, StartMergeThread, StartMergeThreadFails,
             writerVars, boundVars

LEMMA MergeStore ==
  ASSUME TypeOK, QueueInv, NEW m \in MergeIds, MergeStep(m)
  PROVE  /\ added' = added
         /\ \/ segs' = segs
            \/ /\ group[m] # {} /\ group[m] \subseteq segs
               /\ segs' = (segs \ group[m]) \union {UNION group[m]}
<1>1. ASSUME pc[m] = "ran", segs' = segs \/ segs' = Merged(m)
      PROVE  \/ segs' = segs
             \/ /\ group[m] # {} /\ group[m] \subseteq segs
                /\ segs' = (segs \ group[m]) \union {UNION group[m]}
  <2>1. group[m] # {}
    BY <1>1, Zenon DEF QueueInv
  <2>2. QED
    BY <1>1, <2>1, Zenon DEF Merged, SourcesPresent
<1>2. ASSUME FinishMerge(m) PROVE pc[m] = "ran" /\ (segs' = segs \/ segs' = Merged(m)) /\ added' = added
  BY <1>2, Zenon DEF FinishMerge, boundVars
<1>3. ASSUME FinishMergeFails(m)
      PROVE pc[m] = "ran" /\ (segs' = segs \/ segs' = Merged(m)) /\ added' = added
  BY <1>3, Zenon DEF FinishMergeFails
<1>4. ASSUME BeginMerge(m) \/ BeginMergeFails(m) \/ BeginMergePanics(m) \/ RunMerge(m)
      PROVE  UNCHANGED <<segs, added>>
  BY <1>4, Zenon DEF BeginMerge, BeginMergeFails, BeginMergePanics, RunMerge, writerVars, boundVars
<1>5. ASSUME LeaveList(m) \/ DropSource(m) PROVE UNCHANGED <<segs, added>>
  BY <1>5, Zenon DEF LeaveList, DropSource, writerVars, boundVars
<1>6. QED
  BY <1>1, <1>2, <1>3, <1>4, <1>5, Zenon DEF MergeStep

\* What a step does to the view and to the documents added.
StoreStep ==
    \/ UNCHANGED <<segs, added>>
    \/ added' = added /\ segs' = {}
    \/ added' = added /\ \E G \in SUBSET segs : G # {} /\ segs' = (segs \ G) \union {UNION G}
    \/ added' = added /\ \E s \in segs : segs' = segs \ {s}
    \/ \E d \in Documents \ added : added' = added \union {d} /\ segs' = segs \union {{d}}

LEMMA StepsAreStoreSteps ==
  ASSUME TypeOK, QueueInv, [Next]_vars
  PROVE  StoreStep
<1>1. CASE Publish
  BY <1>1, Zenon DEF Publish, StoreStep
<1>2. ASSUME NEW s \in segs, DropSegment(s) PROVE StoreStep
  BY <1>2, Zenon DEF DropSegment, StoreStep
<1>3. ASSUME NEW t \in Threads, Call(t) \/ ThreadStep(t) PROVE StoreStep
  <2>1. (segs \ segs) \union {UNION segs} = {UNION segs} /\ segs \in SUBSET segs
    BY Zenon
  <2>2. QED
    BY <1>3, <2>1, ThreadStore, Zenon DEF StoreStep
<1>4. ASSUME NEW a \in Actors, SchedulerStep(a) PROVE StoreStep
  BY <1>4, SchedulerStore, Zenon DEF StoreStep
<1>5. ASSUME NEW m \in MergeIds, MergeStep(m) PROVE StoreStep
  <2>1. group[m] \subseteq segs => group[m] \in SUBSET segs
    BY Zenon
  <2>2. QED
    BY <1>5, <2>1, MergeStore, Zenon DEF StoreStep
<1>6. CASE UNCHANGED vars
  BY <1>6, Zenon DEF vars, writerVars, boundVars, StoreStep
<1>7. QED
  BY <1>1, <1>2, <1>3, <1>4, <1>5, <1>6, Zenon DEF Next

LEMMA AddedStep ==
  ASSUME AddedInv, StoreStep
  PROVE  AddedInv'
<1>1. CASE added' = added /\ \E G \in SUBSET segs : G # {} /\ segs' = (segs \ G) \union {UNION G}
  BY <1>1, Zenon DEF AddedInv
<1>2. CASE \E d \in Documents \ added : added' = added \union {d} /\ segs' = segs \union {{d}}
  BY <1>2, Zenon DEF AddedInv
<1>3. QED
  BY <1>1, <1>2, Zenon DEF AddedInv, StoreStep

LEMMA StoreImplements ==
  ASSUME AddedInv, StoreStep
  PROVE  [Store!Next]_segs
<1>1. ASSUME NEW d \in Documents \ added, segs' = segs \union {{d}} PROVE Store!Publish(d)
  BY <1>1, Zenon DEF AddedInv, Store!Publish
<1>2. QED
  BY <1>1, Zenon DEF StoreStep, Store!Next, Store!Merge, Store!Drop, Store!Clear

-----------------------------------------------------------------------------
(* The life of a merge: what a step makes of each *)

SameRun(m) == (m \in running' <=> m \in running) /\ result'[m] = result[m]

MergeFlow(m) ==
    \/ pc'[m] = pc[m] /\ SameRun(m)
    \/ pc[m] = "none" /\ pc'[m] = "new" /\ SameRun(m)
    \/ pc[m] = "new" /\ pc'[m] = "merging" /\ m \in running' /\ result'[m] = result[m]
    \/ /\ pc[m] = "new" /\ pc'[m] \in Overs /\ (m \in running' <=> m \in running)
       /\ result'[m] = "failed" /\ (failures' # 0 \/ ~(group[m] \subseteq segs))
       /\ (pc'[m] = "ended" <=> Scheduler = "serial")
    \/ /\ pc[m] = "merging" /\ pc'[m] = "ran" /\ (m \in running' <=> m \in running)
       /\ result'[m] # "none" /\ (result'[m] = "failed" => failures' # 0)
       /\ (m \in aborted => result'[m] = "aborted") /\ (m \notin aborted => result'[m] # "aborted")
    \/ /\ pc[m] = "ran" /\ pc'[m] \in Overs /\ m \notin running'
       /\ (pc'[m] = "failed" => result'[m] = "failed") /\ (pc'[m] = "ended" <=> Scheduler = "serial")
       /\ result'[m] = result[m] \/ (result'[m] = "failed" /\ failures' # 0)
    \/ /\ pc[m] \in {"done", "check", "pop", "leave", "failed", "dropping"}
       /\ pc'[m] \in {"check", "pop", "leave", "dropping", "gone"} /\ SameRun(m)

\* The merges aborted, the threads asleep, and the bounds.
AbortFlow ==
    /\ \/ aborted' = aborted /\ (asleep' = asleep \/ asleep' = {})
       \/ aborted' = aborted \union running /\ running' = running
    /\ running' \subseteq running \/ asleep' = {}
    /\ failures' = failures \/ failures' = failures + 1
    /\ drops' = drops \/ drops' = drops + 1

Flow == AbortFlow /\ \A m \in MergeIds : MergeFlow(m)

LEMMA TakeFlow ==
  ASSUME TypeOK, QueueInv, NEW a \in Actors, NEW l, Takes(a, l), pc[a] # "none",
         a \in MergeIds => pc[a] = "pop" /\ l = "check",
         UNCHANGED <<running, result>>
  PROVE  \A m \in MergeIds : MergeFlow(m)
<1>1. /\ Head(pending) \in MergeIds /\ a # Head(pending)
      /\ pc[Head(pending)] = "none" /\ pc'[a] = l /\ pc'[Head(pending)] = "new"
      /\ \A b \in Actors : b # a /\ b # Head(pending) => pc'[b] = pc[b]
  BY Zenon DEF Takes
<1> SUFFICES ASSUME NEW m \in MergeIds PROVE MergeFlow(m)
  BY Zenon
<1>2. SameRun(m)
  BY Zenon DEF SameRun
<1>3. CASE m = a
  BY <1>1, <1>2, <1>3, Zenon DEF MergeFlow
<1>4. CASE m = Head(pending)
  BY <1>1, <1>2, <1>4, Zenon DEF MergeFlow
<1>5. CASE m # a /\ m # Head(pending)
  BY <1>1, <1>2, <1>5, LabelsFit, Zenon DEF MergeFlow
<1>6. QED
  BY <1>3, <1>4, <1>5, Zenon

LEMMA ThreadFlow ==
  ASSUME TypeOK, QueueInv, NEW t \in Threads, Call(t) \/ ThreadStep(t)
  PROVE  Flow
<1>0. PcOK /\ pending \in Seq(MergeIds) /\ t \in Actors /\ t \notin MergeIds
  BY TypeParts, LabelsFit, Zenon DEF WriterOK
<1>q. ASSUME NEW l, Moves(t, l), UNCHANGED <<running, result>> PROVE \A m \in MergeIds : MergeFlow(m)
  BY <1>q, ThreadMove, Zenon DEF MergeFlow, SameRun, Moves
<1>s. ASSUME UNCHANGED <<running, aborted, failures, drops>>, asleep' = asleep \/ asleep' = {}
      PROVE  AbortFlow
  BY <1>s, Zenon DEF AbortFlow
<1>b. ASSUME aborted' = aborted \union running, UNCHANGED <<running, failures, drops>>
      PROVE  AbortFlow
  BY <1>b, Zenon DEF AbortFlow
<1>1. ASSUME NEW j, ScheduleMerges(t, j) PROVE Flow
  BY <1>0, <1>1, <1>q, <1>s, ScheduleMergesMoves, Zenon DEF Flow, ScheduleMerges
<1>2. ASSUME NEW j, CallExclusive(t, j) PROVE Flow
  BY <1>0, <1>2, <1>q, <1>s, CallExclusiveMoves, Zenon DEF Flow, CallExclusive
<1>3. ASSUME StopMerges(t) PROVE Flow
  BY <1>0, <1>3, <1>q, <1>s, StopMergesMoves, Zenon DEF Flow, StopMerges
<1>4. ASSUME DropRegistered(t) PROVE Flow
  BY <1>0, <1>4, <1>q, <1>s, DropRegisteredMoves, Zenon DEF Flow, DropRegistered, boundVars
<1>5. ASSUME AbortMerges(t) PROVE Flow
  BY <1>0, <1>5, <1>q, <1>b, BodyOrWaitMoves, Zenon DEF Flow, AbortMerges, boundVars
<1>6. ASSUME WaitForMerges(t) PROVE Flow
  BY <1>0, <1>6, <1>q, <1>b, BodyOrWaitMoves, Zenon DEF Flow, WaitForMerges, AbortStarted, boundVars
<1>7. ASSUME SerialNext(t) PROVE Flow
  <2>1. pc[t] # "none"
    BY <1>0, <1>7, SerialNextMoves, Zenon
  <2>2. UNCHANGED <<running, result>> /\ AbortFlow
    BY <1>7, <1>s, Zenon DEF SerialNext, boundVars
  <2>3. \A m \in MergeIds : MergeFlow(m)
    BY <1>0, <1>7, <1>q, <2>1, <2>2, SerialNextMoves, TakeFlow, Zenon
  <2>4. QED
    BY <2>2, <2>3, Zenon DEF Flow
<1>8. ASSUME SerialFails(t) PROVE Flow
  BY <1>0, <1>8, <1>q, <1>s, SerialFailsMoves, Zenon DEF Flow, SerialFails, boundVars, writerVars
<1>9. ASSUME TakeHandle(t) PROVE Flow
  BY <1>0, <1>9, <1>q, <1>s, TakeHandleMoves, Zenon DEF Flow, TakeHandle, boundVars, writerVars
<1>10. ASSUME Join(t) PROVE Flow
  BY <1>0, <1>10, <1>q, <1>s, JoinMoves, Zenon DEF Flow, Join, boundVars, writerVars
<1>11. ASSUME SyncReturns(t) PROVE Flow
  BY <1>0, <1>11, <1>q, <1>s, SyncReturnsMoves, Zenon DEF Flow, SyncReturns, boundVars, writerVars
<1>12. QED
  BY <1>1, <1>2, <1>3, <1>4, <1>5, <1>6, <1>7, <1>8, <1>9, <1>10, <1>11, Zenon DEF Call, ThreadStep

LEMMA SchedulerFlow ==
  ASSUME TypeOK, QueueInv, NEW a \in Actors, SchedulerStep(a)
  PROVE  Flow
<1>0. PcOK /\ pending \in Seq(MergeIds)
  BY TypeParts, Zenon DEF WriterOK
<1>q. ASSUME NEW l, Moves(a, l), UNCHANGED <<running, result>>,
             a \in MergeIds => pc[a] \in {"done", "check", "pop"} /\ l \in {"leave", "pop"}
      PROVE  \A m \in MergeIds : MergeFlow(m)
  <2> SUFFICES ASSUME NEW m \in MergeIds PROVE MergeFlow(m)
    BY Zenon
  <2>1. SameRun(m)
    BY <1>q, Zenon DEF SameRun
  <2>2. CASE m = a
    BY <1>q, <2>1, <2>2, Zenon DEF MergeFlow, Moves
  <2>3. CASE m # a
    BY <1>q, <2>1, <2>3, LabelsFit, Zenon DEF MergeFlow, Moves, OnlyMoves
  <2>4. QED
    BY <2>2, <2>3, Zenon
<1>s. ASSUME UNCHANGED <<running, aborted, drops>>, asleep' = asleep \/ asleep' = {},
             failures' = failures \/ failures' = failures + 1
      PROVE  AbortFlow
  BY <1>s DEF AbortFlow
<1>m. a \in MergeIds => pc[a] \in MergeLabels /\ a \notin Threads
  BY <1>0, LabelsFit, Zenon DEF PcOK
<1>1. ASSUME MaybeStall(a) PROVE Flow
  <2>1. PICK l : Moves(a, l) /\ (a \in MergeIds => l \in {"leave", "pop"})
    BY <1>0, <1>1, MaybeStallMoves, LabelsFit, Zenon
  <2>2. a \in MergeIds => pc[a] \in {"done", "check", "pop"}
    BY <1>0, <1>1, <1>m, MaybeStallMoves, Zenon DEF MergeLabels
  <2>3. QED
    BY <1>1, <1>q, <1>s, <2>1, <2>2, Zenon DEF Flow, MaybeStall, writerVars, boundVars
<1>2. ASSUME NextMergeNone(a) PROVE Flow
  <2>1. PICK l : Moves(a, l) /\ (a \in MergeIds => l \in {"leave", "pop"})
    BY <1>0, <1>2, ReturnedMoves, Zenon DEF NextMergeNone
  <2>3. QED
    BY <1>2, <1>q, <1>s, <2>1, Zenon DEF Flow, NextMergeNone, writerVars, boundVars
<1>3. ASSUME StartMergeThread(a) PROVE Flow
  <2>1. pc[a] = "pop" /\ pc[a] # "none"
    BY <1>3, Zenon DEF StartMergeThread
  <2>2. UNCHANGED <<running, result>> /\ AbortFlow
    BY <1>3, <1>s, Zenon DEF StartMergeThread, boundVars
  <2>3. \A m \in MergeIds : MergeFlow(m)
    BY <1>0, <1>3, <2>1, <2>2, StartMergeThreadMoves, TakeFlow, Zenon
  <2>4. QED
    BY <2>2, <2>3, Zenon DEF Flow
<1>4. ASSUME StartMergeThreadFails(a) PROVE Flow
  <2>1. PICK l : Moves(a, l) /\ (a \in MergeIds => l \in {"leave", "pop"})
    BY <1>0, <1>4, <1>m, StartMergeThreadFailsMoves, Zenon
  <2>3. QED
    BY <1>4, <1>q, <1>s, <2>1, Zenon DEF Flow, StartMergeThreadFails, Fails, boundVars
<1>5. QED
  BY <1>1, <1>2, <1>3, <1>4, Zenon DEF SchedulerStep

LEMMA MergeStepFlow ==
  ASSUME TypeOK, QueueInv, NEW m \in MergeIds, MergeStep(m)
  PROVE  Flow
<1>0. PcOK /\ result \in [MergeIds -> {"none", "ok", "aborted", "failed"}] /\ failures \in Nat
  BY TypeParts, Zenon DEF WriterOK, OtherOK, TypeOK
<1>q. ASSUME NEW l, Moves(m, l), MergeFlow(m),
             \A n \in MergeIds : n # m => SameRun(n)
      PROVE  \A n \in MergeIds : MergeFlow(n)
  <2> SUFFICES ASSUME NEW n \in MergeIds, n # m PROVE MergeFlow(n)
    BY <1>q, Zenon
  <2>1. QED
    BY <1>q, MergeMove, Zenon DEF MergeFlow
<1>s. ASSUME UNCHANGED <<aborted, drops>>, (asleep' = asleep /\ running' = running) \/ asleep' = {},
             failures' = failures \/ failures' = failures + 1
      PROVE  AbortFlow
  BY <1>s, Zenon DEF AbortFlow
<1>r. ASSUME NEW v, result' = [result EXCEPT ![m] = v]
      PROVE  result'[m] = v /\ \A n \in MergeIds : n # m => result'[n] = result[n]
  BY <1>0, <1>r, Zenon
<1>1. ASSUME BeginMerge(m) PROVE Flow
  <2>1. Moves(m, "merging") /\ pc[m] = "new" /\ pc'[m] = "merging"
    BY <1>0, <1>1, BeginMergeMoves, Zenon DEF Moves, BeginMerge
  <2>2. m \in running' /\ result' = result /\ \A n \in MergeIds : n # m => SameRun(n)
    BY <1>1, Zenon DEF BeginMerge, SameRun
  <2>3. MergeFlow(m)
    BY <2>1, <2>2, Zenon DEF MergeFlow
  <2>4. AbortFlow
    BY <1>1, <1>s, Zenon DEF BeginMerge, boundVars
  <2>5. QED
    BY <1>q, <2>1, <2>2, <2>3, <2>4, Zenon DEF Flow
<1>2. ASSUME BeginMergeFails(m) \/ BeginMergePanics(m) PROVE Flow
  <2>1. PICK l \in Overs : Moves(m, l) /\ (l = "ended" <=> Scheduler = "serial")
    <3>1. Goto(m, Over("failed"))
      BY <1>2, Zenon DEF BeginMergeFails, BeginMergePanics
    <3>2. /\ Moves(m, Over("failed")) /\ Over("failed") \in Overs
          /\ (Over("failed") = "ended" <=> Scheduler = "serial")
      BY <1>0, <3>1, OverMoves, Zenon
    <3>3. QED
      BY <3>2, Zenon
  <2>2. /\ pc[m] = "new" /\ running' = running
        /\ result' = [result EXCEPT ![m] = "failed"]
    BY <1>2, Zenon DEF BeginMergeFails, BeginMergePanics, writerVars
  <2>3. failures' # 0 \/ ~(group[m] \subseteq segs)
    BY <1>0, <1>2 DEF BeginMergeFails, BeginMergePanics, Fails
  <2>4. /\ pc'[m] \in Overs /\ (pc'[m] = "ended" <=> Scheduler = "serial")
        /\ result'[m] = "failed" /\ \A n \in MergeIds : n # m => SameRun(n)
    BY <1>r, <2>1, <2>2, Zenon DEF Moves, SameRun
  <2>5. MergeFlow(m)
    BY <2>2, <2>3, <2>4, Zenon DEF MergeFlow
  <2>6. AbortFlow
    BY <1>2, <1>s, Zenon DEF BeginMergeFails, BeginMergePanics, Fails, boundVars, writerVars
  <2>7. QED
    BY <1>q, <2>1, <2>4, <2>5, <2>6, Zenon DEF Flow
<1>3. ASSUME RunMerge(m) PROVE Flow
  <2>1. Moves(m, "ran") /\ pc[m] = "merging" /\ pc'[m] = "ran" /\ running' = running
    BY <1>0, <1>3, RunMergeMoves, Zenon DEF Moves, RunMerge, writerVars
  <2>2. PICK v \in {"ok", "aborted", "failed"} :
              /\ result' = [result EXCEPT ![m] = v] /\ (v = "failed" => failures' # 0)
              /\ (m \in aborted => v = "aborted") /\ (m \notin aborted => v # "aborted")
    BY <1>0, <1>3 DEF RunMerge, Fails
  <2>3. result'[m] = v /\ \A n \in MergeIds : n # m => SameRun(n)
    BY <1>r, <2>1, <2>2, Zenon DEF SameRun
  <2>4. result'[m] # "none"
    BY <2>2, <2>3, Zenon
  <2>5. MergeFlow(m)
    BY <2>1, <2>2, <2>3, <2>4, Zenon DEF MergeFlow
  <2>6. AbortFlow
    BY <1>3, <1>s, Zenon DEF RunMerge, Fails, boundVars, writerVars
  <2>7. QED
    BY <1>q, <2>1, <2>3, <2>5, <2>6, Zenon DEF Flow
<1>4. ASSUME FinishMerge(m) PROVE Flow
  <2>1. Moves(m, Over(result[m])) /\ Over(result[m]) \in Overs
        /\ (Over(result[m]) = "failed" => result[m] = "failed")
        /\ (Over(result[m]) = "ended" <=> Scheduler = "serial")
    BY <1>0, <1>4, OverMoves, Zenon DEF FinishMerge
  <2>2. pc[m] = "ran" /\ m \notin running' /\ result' = result /\ \A n \in MergeIds : n # m => SameRun(n)
    BY <1>4, Zenon DEF FinishMerge, SameRun
  <2>3. MergeFlow(m)
    <3>1. pc'[m] \in Overs /\ (pc'[m] = "failed" => result'[m] = "failed")
          /\ (pc'[m] = "ended" <=> Scheduler = "serial")
      BY <2>1, <2>2, Zenon DEF Moves
    <3>2. QED
      BY <2>2, <3>1, Zenon DEF MergeFlow
  <2>4. AbortFlow
    BY <1>4, <1>s, Zenon DEF FinishMerge, boundVars
  <2>5. QED
    BY <1>q, <2>1, <2>2, <2>3, <2>4, Zenon DEF Flow
<1>5. ASSUME FinishMergeFails(m) PROVE Flow
  <2>1. PICK l \in Overs : Moves(m, l) /\ (l = "ended" <=> Scheduler = "serial")
    BY <1>0, <1>5, OverMoves, Zenon DEF FinishMergeFails
  <2>2. result' = [result EXCEPT ![m] = "failed"] /\ pc[m] = "ran"
    BY <1>5, Zenon DEF FinishMergeFails
  <2>3. m \notin running' /\ failures' # 0 /\ \A n \in MergeIds : n # m => (n \in running' <=> n \in running)
    BY <1>0, <1>5 DEF FinishMergeFails, Fails
  <2>4. /\ pc'[m] \in Overs /\ (pc'[m] = "ended" <=> Scheduler = "serial")
        /\ result'[m] = "failed" /\ \A n \in MergeIds : n # m => SameRun(n)
    BY <1>r, <2>1, <2>2, <2>3, Zenon DEF Moves, SameRun
  <2>5. MergeFlow(m)
    BY <2>2, <2>3, <2>4, Zenon DEF MergeFlow
  <2>6. AbortFlow
    BY <1>5, <1>s, Zenon DEF FinishMergeFails, Fails
  <2>7. QED
    BY <1>q, <2>1, <2>4, <2>5, <2>6, Zenon DEF Flow
<1>6. ASSUME NEW l \in {"dropping", "gone"}, Moves(m, l), pc[m] \in {"leave", "failed", "dropping"},
             UNCHANGED <<running, asleep, result, aborted, drops, failures>>
      PROVE  Flow
  <2>1. \A n \in MergeIds : SameRun(n)
    BY <1>6, Zenon DEF SameRun
  <2>2. MergeFlow(m)
    BY <1>6, <2>1, Zenon DEF MergeFlow, Moves
  <2>3. QED
    BY <1>6, <1>q, <1>s, <2>1, <2>2, Zenon DEF Flow
<1>7. ASSUME LeaveList(m) PROVE Flow
  BY <1>0, <1>6, <1>7, LeaveListMoves, Zenon DEF LeaveList, writerVars, boundVars
<1>8. ASSUME DropSource(m) PROVE Flow
  BY <1>0, <1>6, <1>8, DropSourceMoves, Zenon DEF DropSource, writerVars, boundVars
<1>9. QED
  BY <1>1, <1>2, <1>3, <1>4, <1>5, <1>7, <1>8, Zenon DEF MergeStep

LEMMA StepFlow ==
  ASSUME TypeOK, QueueInv, [Next]_vars
  PROVE  Flow
<1>s. ASSUME UNCHANGED <<pc, running, result, aborted, failures>>, asleep' = asleep \/ asleep' = {},
             drops' = drops \/ drops' = drops + 1
      PROVE  Flow
  <2>1. AbortFlow
    BY <1>s, Zenon DEF AbortFlow
  <2>2. \A m \in MergeIds : MergeFlow(m)
    BY <1>s, Zenon DEF MergeFlow, SameRun
  <2>3. QED
    BY <2>1, <2>2, Zenon DEF Flow
<1>1. CASE Publish
  BY <1>1, <1>s, Zenon DEF Publish
<1>2. ASSUME NEW s \in segs, DropSegment(s) PROVE Flow
  BY <1>2, <1>s, Zenon DEF DropSegment
<1>3. CASE UNCHANGED vars
  BY <1>3, <1>s, Zenon DEF vars, writerVars, boundVars
<1>4. QED
  BY <1>1, <1>2, <1>3, ThreadFlow, SchedulerFlow, MergeStepFlow, Zenon DEF Next

LEMMA RunningStep ==
  ASSUME RunningInv, Flow, aborted \subseteq MergeIds, running \subseteq MergeIds, aborted' \subseteq MergeIds
  PROVE  RunningInv'
<1> SUFFICES ASSUME NEW m \in MergeIds
             PROVE  /\ m \in running' <=> pc'[m] \in {"merging", "ran"}
                    /\ m \in aborted' => pc'[m] \notin {"none", "new"}
  BY Zenon DEF RunningInv
<1>1. MergeFlow(m) /\ AbortFlow
  BY Zenon DEF Flow
<1>2. m \in running <=> pc[m] \in {"merging", "ran"}
  BY Zenon DEF RunningInv
<1>3. m \in aborted => pc[m] \notin {"none", "new"}
  BY Zenon DEF RunningInv
<1>4. m \in aborted' => m \in aborted \/ m \in running
  BY <1>1, Zenon DEF AbortFlow
<1>5. QED
  BY <1>1, <1>2, <1>3, <1>4, Zenon DEF MergeFlow, SameRun, Overs

LEMMA SleepersStep ==
  ASSUME SleepersHaveAborted, AbortFlow
  PROVE  SleepersHaveAborted'
BY Zenon DEF SleepersHaveAborted, AbortFlow

LEMMA ResultStep ==
  ASSUME TypeOK, ResultInv, ClaimInv, Flow
  PROVE  ResultInv'
<1>t. failures \in Nat /\ drops \in Nat
  BY Zenon DEF TypeOK
<1>b. failures' = 0 /\ drops' = 0 => failures = 0 /\ drops = 0
  BY <1>t DEF Flow, AbortFlow
<1>1. ASSUME NEW m \in MergeIds, pc'[m] \notin {"none", "new", "merging"} PROVE result'[m] # "none"
  <2>1. MergeFlow(m) /\ (pc[m] \notin {"none", "new", "merging"} => result[m] # "none")
    BY Zenon DEF Flow, ResultInv
  <2>2. QED
    BY <1>1, <2>1, Zenon DEF MergeFlow, SameRun, Overs
<1>2. ASSUME NEW m \in MergeIds, failures' = 0, drops' = 0
      PROVE  pc'[m] # "failed" /\ result'[m] # "failed"
  <2>1. MergeFlow(m) /\ pc[m] # "failed" /\ result[m] # "failed" /\ drops = 0
    BY <1>b, <1>2, Zenon DEF Flow, ResultInv
  <2>2. pc[m] = "new" => group[m] \subseteq segs
    BY <2>1, HoldingIs, Zenon DEF ClaimInv, Taken
  <2>3. QED
    BY <1>2, <2>1, <2>2, Zenon DEF MergeFlow, SameRun, Overs
<1>3. QED
  BY <1>1, <1>2, Zenon DEF ResultInv

-----------------------------------------------------------------------------
(* Merges held back *)

Holds == {"exclusive", "await", "stopping"}

\* A step of no thread that holds merges back, or is about to.
Calm ==
    /\ \A u \in Threads : \/ pc'[u] = pc[u] /\ job'[u] = job[u]
                          \/ pc'[u] \notin Holds /\ pc[u] \notin Holds
    /\ UNCHANGED <<paused_by, stopped>>
    /\ (pending = <<>> => pending' = <<>>) \/ ~merges_blocked

LEMMA CalmPause ==
  ASSUME PauseInv, NoMergeRegisteredWhileBlocked, Calm
  PROVE  PauseInv' /\ NoMergeRegisteredWhileBlocked'
<1>1. \A u \in Threads : pc'[u] \in Holds \/ pc[u] \in Holds => pc'[u] = pc[u] /\ job'[u] = job[u]
  BY Zenon DEF Calm
<1>2. "await" \in Holds /\ "exclusive" \in Holds /\ "stopping" \in Holds
  BY Zenon DEF Holds
<1>3. PauseInv'
  <2> SUFFICES ASSUME NEW t \in Threads, pc'[t] \in {"exclusive", "await"}, job'[t] = "force_merge"
               PROVE  t \in paused_by'
    BY Zenon DEF PauseInv
  <2>1. pc'[t] \in Holds
    BY Zenon DEF Holds
  <2>2. QED
    BY <1>1, <2>1, Zenon DEF PauseInv, Calm
<1>4. ASSUME ~merges_blocked PROVE NoMergeRegisteredWhileBlocked'
  <2>1. ~stopped' /\ paused_by' = {}
    BY <1>4, Zenon DEF Calm, merges_blocked
  <2>2. \A t \in Threads : ~(pc'[t] = "await" /\ job'[t] = "force_merge")
    BY <1>3, <2>1, Zenon DEF PauseInv
  <2>3. QED
    BY <2>1, <2>2, Zenon DEF NoMergeRegisteredWhileBlocked
<1>5. ASSUME pending = <<>> => pending' = <<>> PROVE NoMergeRegisteredWhileBlocked'
  BY <1>1, <1>2, <1>5, Zenon DEF NoMergeRegisteredWhileBlocked, Calm
<1>6. QED
  BY <1>3, <1>4, <1>5, Zenon DEF Calm

LEMMA HeldPause ==
  ASSUME TypeOK, PauseInv, NoMergeRegisteredWhileBlocked, NEW t \in Threads,
         \/ StopMerges(t) \/ DropRegistered(t) \/ AbortMerges(t) \/ WaitForMerges(t)
         \/ \E j \in {"delete_all", "force_merge"} : CallExclusive(t, j)
  PROVE  PauseInv' /\ NoMergeRegisteredWhileBlocked'
<1>0. PcOK /\ job \in [Threads -> {"none", "merge", "close", "delete_all", "force_merge", "stop"}]
  BY TypeParts, Zenon DEF TypeOK
<1>m. \A l : Moves(t, l) => pc'[t] = l /\ \A u \in Threads : u # t => pc'[u] = pc[u]
  BY LabelsFit, Zenon DEF Moves, OnlyMoves
<1>j. \A j : Calls(t, j) => job'[t] = j /\ \A u \in Threads : u # t => job'[u] = job[u]
  BY <1>0 DEF Calls
<1>1. CASE StopMerges(t)
  <2>1. /\ pc'[t] = "stopping" /\ pending' = pending /\ paused_by' = paused_by
        /\ \A u \in Threads : u # t => pc'[u] = pc[u] /\ job'[u] = job[u]
    BY <1>0, <1>1, <1>m, <1>j, StopMergesMoves, Zenon DEF StopMerges
  <2>2. QED
    BY <2>1, Zenon DEF PauseInv, NoMergeRegisteredWhileBlocked
<1>2. CASE DropRegistered(t)
  <2>1. /\ pc'[t] = "idle" /\ pending' = <<>> /\ paused_by' = paused_by /\ job' = job
        /\ \A u \in Threads : u # t => pc'[u] = pc[u]
    BY <1>0, <1>2, <1>m, DropRegisteredMoves, Zenon DEF DropRegistered
  <2>2. QED
    BY <2>1, Zenon DEF PauseInv, NoMergeRegisteredWhileBlocked
<1>3. ASSUME NEW j \in {"delete_all", "force_merge"}, CallExclusive(t, j)
      PROVE  PauseInv' /\ NoMergeRegisteredWhileBlocked'
  <2>1. /\ pc[t] = "idle" /\ pc'[t] = "exclusive" /\ pending' = pending /\ stopped' = stopped
        /\ paused_by \subseteq paused_by' /\ (j = "force_merge" => t \in paused_by') /\ job'[t] = j
        /\ \A u \in Threads : u # t => pc'[u] = pc[u] /\ job'[u] = job[u]
    <3>1. paused_by \subseteq paused_by' /\ (j = "force_merge" => t \in paused_by')
      BY <1>3, Zenon DEF CallExclusive
    <3>2. QED
      BY <1>0, <1>3, <1>m, <1>j, <3>1, CallExclusiveMoves, Zenon DEF CallExclusive
  <2>2. QED
    BY <2>1, Zenon DEF PauseInv, NoMergeRegisteredWhileBlocked
<1>4. ASSUME BodyOrWait(t), job' = job, stopped' = stopped,
             (pc[t] = "exclusive" /\ pending' = <<>>) \/ (pc[t] = "await" /\ pending' = pending)
      PROVE  PauseInv' /\ NoMergeRegisteredWhileBlocked'
  <2>1. CASE merging' = {} /\ Body(t) /\ Moves(t, "idle")
    <3>1. pc'[t] = "idle" /\ paused_by' = paused_by \ {t}
          /\ \A u \in Threads : u # t => pc'[u] = pc[u]
      BY <1>m, <2>1, Zenon DEF Body
    <3>2. QED
      BY <1>4, <3>1, Zenon DEF PauseInv, NoMergeRegisteredWhileBlocked
  <2>2. CASE Moves(t, "await") /\ paused_by' = paused_by
    <3>1. pc'[t] = "await" /\ \A u \in Threads : u # t => pc'[u] = pc[u]
      BY <1>m, <2>2, Zenon
    <3>2. QED
      BY <1>4, <2>2, <3>1, Zenon DEF PauseInv, NoMergeRegisteredWhileBlocked
  <2>3. QED
    BY <1>0, <1>4, <2>1, <2>2, BodyOrWaitMoves, Zenon
<1>5. CASE AbortMerges(t)
  BY <1>4, <1>5, Zenon DEF AbortMerges
<1>6. CASE WaitForMerges(t)
  BY <1>4, <1>6, Zenon DEF WaitForMerges
<1>7. QED
  BY <1>1, <1>2, <1>3, <1>5, <1>6, Zenon

LEMMA CalmStep ==
  ASSUME TypeOK, QueueInv, [Next]_vars
  PROVE  \/ Calm
         \/ \E t \in Threads :
              \/ StopMerges(t) \/ DropRegistered(t) \/ AbortMerges(t) \/ WaitForMerges(t)
              \/ \E j \in {"delete_all", "force_merge"} : CallExclusive(t, j)
<1>0. PcOK /\ pending \in Seq(MergeIds)
      /\ job \in [Threads -> {"none", "merge", "close", "delete_all", "force_merge", "stop"}]
  BY TypeParts, Zenon DEF TypeOK
<1>a. ASSUME NEW a \in Actors, NEW l, Moves(a, l) \/ Takes(a, l),
             a \in Threads => pc[a] \notin Holds /\ l \notin Holds,
             \A u \in Threads : u # a => job'[u] = job[u],
             UNCHANGED <<paused_by, stopped>>, (pending = <<>> => pending' = <<>>) \/ ~merges_blocked
      PROVE  Calm
  <2>1. pc'[a] = l /\ \A u \in Threads : u # a => pc'[u] = pc[u]
    BY <1>a, LabelsFit, Zenon DEF Moves, OnlyMoves, Takes
  <2>2. QED
    BY <1>a, <2>1, Zenon DEF Calm
<1>b. ASSUME UNCHANGED <<pc, job, paused_by, stopped, pending>> PROVE Calm
  BY <1>b, Zenon DEF Calm
<1>1. ASSUME Publish \/ (\E s \in segs : DropSegment(s)) \/ UNCHANGED vars PROVE Calm
  BY <1>b, <1>1, Zenon DEF Publish, DropSegment, vars, writerVars
<1>2. ASSUME NEW t \in Threads, NEW j, ScheduleMerges(t, j) PROVE Calm
  <2>1. pc[t] = "idle" /\ Moves(t, "enter") /\ pc[t] \notin Holds /\ "enter" \notin Holds
    BY <1>0, <1>2, ScheduleMergesMoves, Zenon DEF Holds
  <2>2. pending' = pending \/ ~merges_blocked
    BY <1>2, ScheduleRegisters, Zenon
  <2>3. \A u \in Threads : u # t => job'[u] = job[u]
    BY <1>0, <1>2, Zenon DEF ScheduleMerges, Calls
  <2>4. QED
    BY <1>2, <1>a, <2>1, <2>2, <2>3, LabelsFit, Zenon DEF ScheduleMerges
<1>3. ASSUME NEW t \in Threads, SerialNext(t) PROVE Calm
  <2>1. PICK l : (Moves(t, l) \/ Takes(t, l)) /\ l \in {"sync", "idle", "serial"}
    BY <1>0, <1>3, SerialNextMoves, Zenon
  <2>2. pc[t] \notin Holds /\ l \notin Holds
    BY <1>0, <1>3, <2>1, SerialNextMoves, Zenon DEF Holds
  <2>3. pending = <<>> => pending' = <<>>
    BY <1>3, Zenon DEF SerialNext
  <2>4. QED
    BY <1>3, <1>a, <2>1, <2>2, <2>3, LabelsFit, Zenon DEF SerialNext
<1>4. ASSUME NEW t \in Threads, SerialFails(t) \/ TakeHandle(t) \/ Join(t) \/ SyncReturns(t) PROVE Calm
  <2>1. PICK l \in {"idle", "join", "sync"} : Moves(t, l)
    BY <1>0, <1>4, SerialFailsMoves, TakeHandleMoves, JoinMoves, SyncReturnsMoves, Zenon
  <2>2. pc[t] \in {"serial", "sync", "join"}
    BY <1>4, Zenon DEF SerialFails, TakeHandle, Join, SyncReturns
  <2>3. pc[t] \notin Holds /\ l \notin Holds
    BY <2>2, Zenon DEF Holds
  <2>4. UNCHANGED <<paused_by, stopped, job, pending>>
    BY <1>4, Zenon DEF SerialFails, TakeHandle, Join, SyncReturns, writerVars
  <2>5. QED
    BY <1>a, <2>1, <2>3, <2>4, LabelsFit, Zenon
<1>5. ASSUME NEW a \in Actors, SchedulerStep(a) PROVE Calm
  <2>1. PICK l \in {"leave", "stalled", "pop", "sync", "idle", "check"} : Moves(a, l) \/ Takes(a, l)
    BY <1>0, <1>5, MaybeStallMoves, ReturnedMoves, StartMergeThreadMoves, StartMergeThreadFailsMoves, Zenon
       DEF SchedulerStep, NextMergeNone, Actors
  <2>2. pc[a] \in {"enter", "stalled", "done", "check", "pop"}
    BY <1>5, Zenon DEF SchedulerStep, MaybeStall, NextMergeNone, StartMergeThread, StartMergeThreadFails
  <2>3. pc[a] \notin Holds /\ l \notin Holds
    BY <2>2, Zenon DEF Holds
  <2>4. UNCHANGED <<paused_by, stopped, job>> /\ (pending = <<>> => pending' = <<>>)
    BY <1>5, Zenon DEF SchedulerStep, MaybeStall, NextMergeNone, StartMergeThread,
                       StartMergeThreadFails, writerVars
  <2>5. QED
    BY <1>a, <2>1, <2>3, <2>4, Zenon
<1>6. ASSUME NEW m \in MergeIds, MergeStep(m) PROVE Calm
  <2>0. m \in Actors /\ m \notin Threads
    BY LabelsFit, Zenon
  <2>1. PICK l : Moves(m, l)
    BY <1>0, <1>6, BeginMergeMoves, RunMergeMoves, LeaveListMoves, DropSourceMoves, OverMoves, Zenon
       DEF MergeStep, BeginMergeFails, BeginMergePanics, FinishMerge, FinishMergeFails
  <2>2. UNCHANGED <<paused_by, stopped, job>>
    BY <1>6, Zenon DEF MergeStep, BeginMerge, BeginMergeFails, BeginMergePanics, RunMerge,
                       FinishMerge, FinishMergeFails, LeaveList, DropSource, writerVars
  <2>3. pending' = pending \/ ~merges_blocked
    <3>1. CASE FinishMerge(m) /\ result[m] = "ok"
      BY <3>1, FinishRegisters, Zenon
    <3>2. CASE FinishMerge(m) /\ result[m] # "ok"
      BY <3>2, Zenon DEF FinishMerge
    <3>3. QED
      BY <1>6, <3>1, <3>2, Zenon
         DEF MergeStep, BeginMerge, BeginMergeFails, BeginMergePanics, RunMerge,
             FinishMergeFails, LeaveList, DropSource, writerVars
  <2>4. QED
    BY <1>a, <2>0, <2>1, <2>2, <2>3, Zenon
<1>7. QED
  BY <1>1, <1>2, <1>3, <1>4, <1>5, <1>6, Zenon DEF Next, Call, ThreadStep

LEMMA PauseStep ==
  ASSUME TypeOK, QueueInv, PauseInv, NoMergeRegisteredWhileBlocked, [Next]_vars
  PROVE  PauseInv' /\ NoMergeRegisteredWhileBlocked'
BY CalmStep, CalmPause, HeldPause, Zenon

-----------------------------------------------------------------------------
(* The scheduler's lock *)

Locked == {"check", "pop", "leave", "serial"}

\* a moves, and takes the lock, keeps it or lets go of it.
Hands(a) ==
    /\ \A b \in Actors : b # a /\ pc'[b] \in Locked => pc[b] \in Locked
    /\ \/ monitor' = monitor /\ (pc'[a] \in Locked => pc[a] \in Locked)
       \/ /\ monitor = None \/ pc[a] \in Locked
          /\ monitor' = a \/ (monitor' = None /\ pc'[a] \notin Locked)

LEMMA HandsMonitor ==
  ASSUME MonitorInv, NEW a \in Actors, Hands(a)
  PROVE  MonitorInv'
<1>1. \A b \in Actors : pc[b] \in Locked => monitor = b
  BY Zenon DEF MonitorInv, Locked
<1>2. ASSUME NEW b \in Actors, pc'[b] \in Locked PROVE monitor' = b
  <2>1. CASE monitor' = monitor /\ (pc'[a] \in Locked => pc[a] \in Locked)
    BY <1>1, <1>2, <2>1, Zenon DEF Hands
  <2>2. CASE /\ monitor = None \/ pc[a] \in Locked
             /\ monitor' = a \/ (monitor' = None /\ pc'[a] \notin Locked)
    <3>1. b = a
      BY <1>1, <1>2, <2>2, ActorAssumption, Zenon DEF Hands
    <3>2. QED
      BY <1>2, <2>2, <3>1, Zenon
  <2>3. QED
    BY <2>1, <2>2, Zenon DEF Hands
<1>3. QED
  BY <1>2, Zenon DEF MonitorInv, Locked

LEMMA MovesHands ==
  ASSUME NEW a \in Actors, NEW l, Moves(a, l) \/ Takes(a, l),
         \/ monitor' = monitor /\ (l \in Locked => pc[a] \in Locked)
         \/ /\ monitor = None \/ pc[a] \in Locked
            /\ monitor' = a \/ (monitor' = None /\ l \notin Locked)
  PROVE  Hands(a)
<1>1. pc'[a] = l
  BY Zenon DEF Moves, Takes
<1>2. ASSUME NEW b \in Actors, b # a, pc'[b] \in Locked PROVE pc[b] \in Locked
  <2>1. pc'[b] = pc[b] \/ pc'[b] = "new"
    BY <1>2, Zenon DEF Moves, Takes, OnlyMoves
  <2>2. QED
    BY <1>2, <2>1, Zenon DEF Locked
<1>3. QED
  BY <1>1, <1>2, Zenon DEF Hands

LEMMA MonitorStep ==
  ASSUME TypeOK, QueueInv, MonitorInv, [Next]_vars
  PROVE  MonitorInv'
<1>0. PcOK /\ pending \in Seq(MergeIds) /\ Threads \subseteq Actors /\ MergeIds \subseteq Actors
  BY TypeParts, LabelsFit, Zenon DEF WriterOK
<1>l. /\ "serial" \in Locked /\ "pop" \in Locked /\ "check" \in Locked /\ "leave" \in Locked
      /\ \A l \in {"idle", "enter", "stopping", "exclusive", "await", "sync", "join", "stalled",
                   "new", "merging", "ran", "dropping", "gone"} \union Overs : l \notin Locked
  BY DEF Locked, Overs
<1>m. ASSUME NEW a \in Actors, NEW l, Moves(a, l), l \notin Locked, monitor' = monitor PROVE MonitorInv'
  BY <1>m, MovesHands, HandsMonitor, Zenon
<1>1. ASSUME UNCHANGED <<pc, monitor>> PROVE MonitorInv'
  BY <1>1, Zenon DEF MonitorInv
<1>2. ASSUME NEW t \in Threads, Call(t) PROVE MonitorInv'
  <2>1. PICK l \in {"enter", "stopping", "exclusive"} : Moves(t, l)
    BY <1>0, <1>2, ScheduleMergesMoves, CallExclusiveMoves, StopMergesMoves, Zenon DEF Call
  <2>2. monitor' = monitor
    BY <1>2, Zenon DEF Call, ScheduleMerges, CallExclusive, StopMerges, cmsVars
  <2>3. l \notin Locked
    BY <1>l, Zenon
  <2>4. QED
    BY <1>0, <1>m, <2>1, <2>2, <2>3, Zenon
<1>3. ASSUME NEW t \in Threads, DropRegistered(t) \/ AbortMerges(t) \/ WaitForMerges(t)
                                \/ TakeHandle(t) \/ Join(t) \/ SyncReturns(t)
      PROVE  MonitorInv'
  <2>1. PICK l \in {"idle", "await", "join", "sync"} : Moves(t, l)
    BY <1>0, <1>3, DropRegisteredMoves, BodyOrWaitMoves, TakeHandleMoves, JoinMoves, SyncReturnsMoves, Zenon
       DEF AbortMerges, WaitForMerges
  <2>2. monitor' = monitor
    BY <1>3, Zenon DEF DropRegistered, AbortMerges, WaitForMerges, TakeHandle, Join, SyncReturns, cmsVars
  <2>3. l \notin Locked
    BY <1>l, Zenon
  <2>4. QED
    BY <1>0, <1>m, <2>1, <2>2, <2>3, Zenon
<1>4. ASSUME NEW t \in Threads, SerialNext(t) PROVE MonitorInv'
  <2>1. monitor = None \/ pc[t] \in Locked
    BY <1>0, <1>4, <1>l, SerialNextMoves, Zenon
  <2>2. PICK l : (Moves(t, l) \/ Takes(t, l)) /\ (monitor' = t \/ (monitor' = None /\ l \notin Locked))
    <3>1. "sync" \notin Locked /\ "idle" \notin Locked
      BY Zenon DEF Locked
    <3>2. Returned(t) \in {"sync", "idle"} => Returned(t) \notin Locked
      BY <3>1, Zenon
    <3>3. QED
      BY <1>0, <1>4, <3>2, SerialNextMoves, Zenon
  <2>3. QED
    BY <1>0, <2>1, <2>2, MovesHands, HandsMonitor, Zenon
<1>5. ASSUME NEW t \in Threads, SerialFails(t) PROVE MonitorInv'
  <2>1. Moves(t, "idle") /\ pc[t] \in Locked /\ monitor' = None /\ "idle" \notin Locked
    BY <1>0, <1>5, <1>l, SerialFailsMoves, Zenon DEF SerialFails
  <2>2. QED
    BY <1>0, <2>1, MovesHands, HandsMonitor, Zenon
<1>6. ASSUME NEW a \in Actors, MaybeStall(a) PROVE MonitorInv'
  <2>1. monitor = None \/ pc[a] \in Locked
    BY <1>0, <1>6, <1>l, MaybeStallMoves, Zenon
  <2>2. PICK l : Moves(a, l) /\ (monitor' = a \/ (monitor' = None /\ l \notin Locked))
    BY <1>0, <1>6, <1>l, MaybeStallMoves, Zenon
  <2>3. QED
    BY <2>1, <2>2, MovesHands, HandsMonitor, Zenon
<1>7. ASSUME NEW a \in Actors, NextMergeNone(a) PROVE MonitorInv'
  <2>1. pc[a] \in Locked
    BY <1>7, <1>l, Zenon DEF NextMergeNone
  <2>2. PICK l : Moves(a, l) /\ (monitor' = a \/ (monitor' = None /\ l \notin Locked))
    <3>1. Moves(a, Returned(a)) /\ (a \in Threads => Returned(a) \in {"sync", "idle"})
      BY <1>0, <1>7, ReturnedMoves, Zenon DEF NextMergeNone
    <3>2. monitor' = a \/ (monitor' = None /\ Returned(a) \notin Locked)
      BY <1>7, <3>1, Zenon DEF NextMergeNone, Locked, Actors
    <3>3. QED
      BY <3>1, <3>2, Zenon
  <2>3. QED
    BY <2>1, <2>2, MovesHands, HandsMonitor, Zenon
<1>8. ASSUME NEW a \in Actors, StartMergeThread(a) PROVE MonitorInv'
  <2>1. pc[a] \in Locked /\ Takes(a, "check") /\ monitor' = monitor
    BY <1>0, <1>8, <1>l, StartMergeThreadMoves, Zenon DEF StartMergeThread
  <2>2. QED
    BY <2>1, MovesHands, HandsMonitor, Zenon
<1>9. ASSUME NEW a \in Actors, StartMergeThreadFails(a) PROVE MonitorInv'
  <2>1. pc[a] \in Locked
    BY <1>0, <1>9, <1>l, StartMergeThreadFailsMoves, Zenon
  <2>2. \/ Moves(a, "leave") /\ monitor' = monitor
        \/ Moves(a, "idle") /\ monitor' = None /\ "idle" \notin Locked
    BY <1>0, <1>9, <1>l, StartMergeThreadFailsMoves, Zenon
  <2>3. QED
    BY <2>1, <2>2, MovesHands, HandsMonitor, Zenon
<1>10. ASSUME NEW m \in MergeIds, MergeStep(m), ~LeaveList(m) PROVE MonitorInv'
  <2>1. PICK l \in {"merging", "ran", "gone"} \union Overs : Moves(m, l)
    <3>1. \/ Moves(m, "merging") \/ Moves(m, "ran") \/ Moves(m, "gone")
          \/ \E how : Moves(m, Over(how)) /\ Over(how) \in Overs
      BY <1>0, <1>10, BeginMergeMoves, RunMergeMoves, DropSourceMoves, OverMoves, Zenon
         DEF MergeStep, BeginMergeFails, BeginMergePanics, FinishMerge, FinishMergeFails
    <3>2. QED
      BY <3>1, Zenon
  <2>2. monitor' = monitor
    BY <1>10, Zenon DEF MergeStep, BeginMerge, BeginMergeFails, BeginMergePanics, RunMerge,
                        FinishMerge, FinishMergeFails, DropSource, cmsVars
  <2>3. l \notin Locked
    BY <1>l, Zenon
  <2>4. QED
    BY <1>0, <1>m, <2>1, <2>2, <2>3, Zenon
<1>11. ASSUME NEW m \in MergeIds, LeaveList(m) PROVE MonitorInv'
  <2>1. Moves(m, "dropping") /\ monitor' = None /\ (monitor = None \/ pc[m] \in Locked)
        /\ "dropping" \notin Locked
    BY <1>0, <1>11, <1>l, LeaveListMoves, Zenon DEF LeaveList
  <2>2. QED
    BY <1>0, <2>1, MovesHands, HandsMonitor, Zenon
<1>12. ASSUME Publish \/ (\E s \in segs : DropSegment(s)) \/ UNCHANGED vars PROVE MonitorInv'
  BY <1>1, <1>12, Zenon DEF Publish, DropSegment, vars, cmsVars
<1>13. QED
  BY <1>2, <1>3, <1>4, <1>5, <1>6, <1>7, <1>8, <1>9, <1>10, <1>11, <1>12, Zenon
     DEF Next, ThreadStep, SchedulerStep

=============================================================================
