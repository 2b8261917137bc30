---------------------------- MODULE WriterProofs ----------------------------
(***************************************************************************)
(* Proofs about ConcurrentWriter, for any threads, slots, bounds and job   *)
(* mix: its types; that a delete never reaches a later document, and none  *)
(* is lost; that no document is lost; and that a commit is a clean cut: it *)
(* holds the documents and the deletes of the operations up to the number  *)
(* it returns, and no others.                                              *)
(***************************************************************************)
EXTENDS WriterOrderProofs, WriterCutProofs

USE LogAssumption, WriterAssumption

----------------------------------------------------------------------------
(* The type invariant *)

\* Applying packets, in full or in part, keeps the segments' types.
LEMMA ApplyType ==
  ASSUME NEW S \in SUBSET SegmentType, NEW P \in Packets,
         ApplyAll(S, P) \/ ApplySome(S, P)
  PROVE  segs' \in SUBSET SegmentType /\ stream' \in Packets
<1>1. CASE ApplyAll(S, P)
  BY <1>1, ResolvedType DEF ApplyAll, Packets
<1>2. CASE ApplySome(S, P)
  BY <1>2, ResolvedType DEF ApplySome, Packets
<1> QED
  BY <1>1, <1>2, Zenon

\* An empty read of the log is a read.
LEMMA NoReadType == NoRead \in LogRead
BY Zenon DEF NoRead, LogRead

\* The types hold at first.
LEMMA TypeInit == Init => TypeOK
<1> SUFFICES ASSUME Init PROVE TypeOK
  BY Zenon
<1>1. LogTypeOK
  BY SlotsNat DEF Init, LogInit, LogTypeOK
<1>2. ControlTypeOK
  BY Zenon DEF Init, ControlInit, ControlTypeOK
<1>3. SlotTypeOK
  <2>1. docs \in [Slots -> Seq(Nat)]
    BY DEF Init
  <2>2. private \in [Slots -> SUBSET (Nat \X Nat)] /\ slice \in [Slots -> Nat]
    BY Zenon DEF Init
  <2>3. partition \in [Slots -> 0..Partitions]
    BY DEF Init
  <2>4. owner \in [Slots -> Threads \union {None}]
    BY Zenon DEF Init
  <2>5. pending \subseteq Slots /\ apply_all \in BOOLEAN
    BY Zenon DEF Init
  <2> QED
    BY <2>1, <2>2, <2>3, <2>4, <2>5, Zenon DEF SlotTypeOK
<1>4. TicketTypeOK
  BY DEF Init, TicketTypeOK
<1>5. ThreadTypeOK
  BY NoReadType, LabelFacts DEF Init, ThreadTypeOK
<1> QED BY <1>1, <1>2, <1>3, <1>4, <1>5, Zenon DEF TypeOK

\* The log's types hold while the log does not change.
LEMMA LogStutter == LogTypeOK /\ UNCHANGED logVars => LogTypeOK'
BY Zenon DEF LogTypeOK, logVars

\* The control plane's types hold while it does not change.
LEMMA ControlStutter == ControlTypeOK /\ UNCHANGED coreVars => ControlTypeOK'
BY Zenon DEF ControlTypeOK, coreVars

\* The slots' types hold while they do not change.
LEMMA SlotStutter == SlotTypeOK /\ UNCHANGED <<slotVars, policyVars>> => SlotTypeOK'
BY Zenon DEF SlotTypeOK, slotVars, policyVars

\* The tickets' types hold while they do not change.
LEMMA TicketStutter == TicketTypeOK /\ UNCHANGED ticketVars => TicketTypeOK'
BY Zenon DEF TicketTypeOK, ticketVars

\* The threads' types hold while they do not change.
LEMMA ThreadStutter == ThreadTypeOK /\ UNCHANGED <<full_flush, threadVars>> => ThreadTypeOK'
BY Zenon DEF ThreadTypeOK, threadVars

\* Each action keeps the types.
LEMMA RefuseAddType ==
  ASSUME DeleteOrder, NEW t \in Threads, RefuseAdd(t)
  PROVE  TypeOK'
<1>1. LogTypeOK' /\ ControlTypeOK' /\ TicketTypeOK'
  BY Types, LogStutter, ControlStutter, TicketStutter, Zenon DEF RefuseAdd
<1>2. SlotTypeOK'
  BY Types, Zenon DEF RefuseAdd, SlotTypeOK, policyVars
<1>3. ThreadTypeOK'
  BY Types, LabelFacts DEF RefuseAdd, Goto, ThreadTypeOK
<1> QED BY <1>1, <1>2, <1>3, Zenon DEF TypeOK

\* ApplySlice keeps the types.
LEMMA ApplySliceType ==
  ASSUME DeleteOrder, NEW t \in Threads, ApplySlice(t)
  PROVE  TypeOK'
<1>1. ControlTypeOK' /\ TicketTypeOK'
  BY Types, ControlStutter, TicketStutter, Zenon DEF ApplySlice
<1>2. at[t] \in Slots /\ read[t] \in LogRead
  BY Types, Zenon DEF SlotsOwned, ThreadTypeOK, ApplySlice
<1>3. /\ read[t].before \in Nat /\ read[t].nodes \in SUBSET Nat /\ read[t].end \in Nat
      /\ read[t].nodes \X {read[t].before} \in SUBSET (Nat \X Nat)
  BY <1>2, Zenon DEF LogRead
<1>4. LogTypeOK'
  BY Types, <1>2, <1>3, Zenon DEF ApplySlice, LogTypeOK
<1>5. SlotTypeOK'
  BY Types, <1>2, <1>3, Zenon DEF ApplySlice, Limit, SlotTypeOK, policyVars
<1>6. ThreadTypeOK'
  BY Types, LabelFacts, Zenon DEF ApplySlice, Goto, ThreadTypeOK
<1> QED BY <1>1, <1>4, <1>5, <1>6, Zenon DEF TypeOK

\* SlotNotFull keeps the types.
LEMMA SlotNotFullType ==
  ASSUME DeleteOrder, NEW t \in Threads, SlotNotFull(t)
  PROVE  TypeOK'
<1>1. LogTypeOK' /\ ControlTypeOK' /\ TicketTypeOK'
  BY Types, LogStutter, ControlStutter, TicketStutter, Zenon DEF SlotNotFull, ReleaseSlot
<1>2. SlotTypeOK'
  BY Types, Zenon DEF SlotNotFull, ReleaseSlot, SlotTypeOK
<1>3. ThreadTypeOK'
  BY Types, LabelFacts, NoReadType DEF SlotNotFull, ReleaseSlot, Goto, ThreadTypeOK
<1> QED BY <1>1, <1>2, <1>3, Zenon DEF TypeOK

\* SlotFull keeps the types.
LEMMA SlotFullType ==
  ASSUME DeleteOrder, NEW t \in Threads, SlotFull(t)
  PROVE  TypeOK'
<1>1. at[t] \in Slots
  BY Types, Zenon DEF SlotsOwned, SlotFull
<1>2. PICK m \in SUBSET Slots : BeginFlush(at[t], 0, m)
  BY Zenon DEF SlotFull
<1>3. apply_all' \in BOOLEAN
  BY Zenon DEF SlotFull
<1>4. ControlTypeOK'
  BY Types, ControlStutter, Zenon DEF SlotFull, ReleaseSlot
<1>5. LogTypeOK' /\ TicketTypeOK'
  BY Types, <1>1, <1>2, <1>3, BeginFlushType DEF TicketTypeOK, DeleteOrder
<1>6. SlotTypeOK'
  <2>1. owner' \in [Slots -> Threads \union {None}]
    BY Types, Zenon DEF SlotFull, ReleaseSlot, SlotTypeOK
  <2> QED BY <1>1, <1>2, <1>3, <2>1, BeginFlushType DEF SlotTypeOK, DeleteOrder
<1>7. ThreadTypeOK'
  BY Types, LabelFacts, NoReadType, SMTT(30) DEF SlotFull, ReleaseSlot, Goto, ThreadTypeOK, TicketTypeOK
<1> QED BY <1>4, <1>5, <1>6, <1>7, Zenon DEF TypeOK

\* Taking a marked buffer keeps the types.
LEMMA TakePendingType ==
  ASSUME DeleteOrder, NEW t \in Threads, TakePending(t), ops' \in Nat,
         ret' \in [Threads -> Returns]
  PROVE  TypeOK'
<1>1. PICK i \in pending : BeginFlush(i, 0, pending)
  BY Zenon DEF TakePending
<1>2. i \in Slots /\ pending \in SUBSET Slots /\ 0 \in 0..Partitions
  BY Types DEF SlotTypeOK
<1>3. ControlTypeOK'
  BY Types, ControlStutter, Zenon DEF TakePending
<1>4. LogTypeOK' /\ TicketTypeOK'
  BY <1>1, <1>2, BeginFlushType, Zenon DEF TicketTypeOK, DeleteOrder
<1>5. SlotTypeOK'
  <2>1. owner' \in [Slots -> Threads \union {None}] /\ apply_all' \in BOOLEAN
    BY Types, Zenon DEF TakePending, SlotTypeOK
  <2> QED BY <1>1, <1>2, <2>1, BeginFlushType, Zenon DEF SlotTypeOK, DeleteOrder
<1>6. ThreadTypeOK'
  BY Types, LabelFacts DEF TakePending, Goto, ThreadTypeOK, TicketTypeOK
<1> QED BY <1>3, <1>4, <1>5, <1>6, Zenon DEF TypeOK

\* Helping before and after an update keeps the types.
LEMMA PrePostUpdateType ==
  ASSUME DeleteOrder, NEW t \in Threads, PreUpdate(t) \/ PostUpdate(t)
  PROVE  TypeOK'
<1>1. ops' \in Nat /\ ret' \in [Threads -> Returns] /\ TakePending(t)
  BY Types, LabelFacts DEF PreUpdate, PostUpdate, ThreadTypeOK
<1> QED BY <1>1, TakePendingType, Zenon

\* Calling an add keeps the count of operations a natural.
LEMMA CallsAddType ==
  ASSUME ThreadTypeOK, NEW t \in Threads, NEW k, CallsAdd(t, k) \/ Calls(t, k)
  PROVE  ops' \in Nat
BY DEF CallsAdd, Calls, ThreadTypeOK

\* Evict keeps the types.
LEMMA EvictType ==
  ASSUME DeleteOrder, NEW t \in Threads, NEW i \in Slots, NEW p \in 1..Partitions,
         Evict(t, i, p)
  PROVE  TypeOK'
<1>1. pending \in SUBSET Slots /\ p \in 0..Partitions /\ BeginFlush(i, p, pending)
  BY Types DEF SlotTypeOK, Evict
<1>2. ControlTypeOK'
  BY Types, ControlStutter, Zenon DEF Evict
<1>3. LogTypeOK' /\ TicketTypeOK'
  BY <1>1, BeginFlushType, Zenon DEF TicketTypeOK, DeleteOrder
<1>4. SlotTypeOK'
  <2>1. owner' \in [Slots -> Threads \union {None}] /\ apply_all' \in BOOLEAN
    BY Types, Zenon DEF Evict, SlotTypeOK
  <2> QED BY <1>1, <2>1, BeginFlushType, Zenon DEF SlotTypeOK, DeleteOrder
<1>5. ops' \in Nat
  BY Types, CallsAddType, Zenon DEF Evict
<1>6. ThreadTypeOK'
  BY Types, LabelFacts, <1>5 DEF Evict, Goto, ThreadTypeOK, TicketTypeOK, Slots
<1> QED BY <1>2, <1>3, <1>4, <1>6, Zenon DEF TypeOK

\* FlushNextBuffer keeps the types.
LEMMA FlushNextBufferType ==
  ASSUME DeleteOrder, NEW t \in Threads, NEW i \in Slots, FlushNextBuffer(t, i)
  PROVE  TypeOK'
<1>1. pending \in SUBSET Slots /\ 0 \in 0..Partitions /\ BeginFlush(i, 0, pending)
  BY Types DEF SlotTypeOK, FlushNextBuffer
<1>2. ControlTypeOK'
  BY Types, ControlStutter, Zenon DEF FlushNextBuffer
<1>3. LogTypeOK' /\ TicketTypeOK'
  BY <1>1, BeginFlushType, Zenon DEF TicketTypeOK, DeleteOrder
<1>4. SlotTypeOK'
  <2>1. owner' \in [Slots -> Threads \union {None}] /\ apply_all' \in BOOLEAN
    BY Types, Zenon DEF FlushNextBuffer, SlotTypeOK
  <2> QED BY <1>1, <2>1, BeginFlushType, Zenon DEF SlotTypeOK, DeleteOrder
<1>5. ThreadTypeOK'
  BY Types, LabelFacts DEF FlushNextBuffer, Calls, Goto, ThreadTypeOK, TicketTypeOK
<1> QED BY <1>2, <1>3, <1>4, <1>5, Zenon DEF TypeOK

\* TicketNext keeps the types.
LEMMA TicketNextType ==
  ASSUME DeleteOrder, NEW t \in Threads, TicketNext(t)
  PROVE  TypeOK'
<1> DEFINE i == at[t] + 1
<1>0. at[t] \in 0..NumSlots /\ i <= NumSlots
  BY Types, Zenon DEF ThreadTypeOK, TicketNext
<1>1. i \in Slots /\ pending \in SUBSET Slots /\ 0 \in 0..Partitions
  <2>1. i \in Slots
    BY <1>0 DEF Slots
  <2> QED BY Types, <2>1 DEF SlotTypeOK
<1>2. ControlTypeOK'
  BY Types, ControlStutter, Zenon DEF TicketNext
<1>3. ThreadTypeOK'
  BY Types, <1>1, SMTT(30) DEF TicketNext, ThreadTypeOK, TicketTypeOK, Slots
<1>4. owner' \in [Slots -> Threads \union {None}] /\ apply_all' \in BOOLEAN
  BY Types, Zenon DEF TicketNext, SlotTypeOK
<1>5. CASE BeginFlush(i, 0, pending)
  BY <1>1, <1>2, <1>3, <1>4, <1>5, BeginFlushType, Zenon
     DEF SlotTypeOK, TicketTypeOK, DeleteOrder, TypeOK
<1>6. CASE UNCHANGED <<logVars, docs, private, slice, partition, ticketVars, pending>>
  <2>1. LogTypeOK' /\ TicketTypeOK'
    BY Types, <1>6, LogStutter, TicketStutter, Zenon
  <2>2. SlotTypeOK'
    BY Types, <1>4, <1>6, Zenon DEF SlotTypeOK
  <2> QED BY <1>2, <1>3, <2>1, <2>2, Zenon DEF TypeOK
<1> QED BY <1>5, <1>6, Zenon DEF TicketNext

\* Buffering documents keeps the types.
LEMMA BufferType ==
  ASSUME DeleteOrder, NEW t \in Threads, NEW i \in Slots, NEW p \in 0..Partitions,
         NEW count \in 1..MaxBlock, NEW isDelete \in BOOLEAN,
         Buffer(t, i, p, count, isDelete), ops' \in Nat
  PROVE  TypeOK'
<1>1. ControlTypeOK' /\ TicketTypeOK'
  BY Types, ControlStutter, TicketStutter, Zenon DEF Buffer
<1>2. LogTypeOK' /\ Len(log') \in Nat
  BY Types, LogOperationType, Zenon DEF Buffer
<1>3. docs[i] \in Seq(Nat) /\ slice[i] \in Nat /\ next_seq \in Nat /\ Len(docs[i]) \in Nat
  BY Types DEF SlotTypeOK, LogTypeOK
<1>4. [j \in 1..count |-> next_seq] \in Seq(Nat)
  BY <1>3, BlockType
<1>5. SlotTypeOK'
  <2>1. docs' \in [Slots -> Seq(Nat)]
    BY Types, <1>3, <1>4 DEF Buffer, SlotTypeOK
  <2> QED BY Types, <2>1, Zenon DEF Buffer, SlotTypeOK, policyVars
<1>6. ThreadTypeOK'
  <2>1. Since(slice[i]) \in SUBSET Nat
    BY Types, <1>3, SinceLater, Zenon
  <2>2. read' \in [Threads -> LogRead]
    <3> DEFINE before == Len(docs[i])
               copied == IF before = 0 THEN {} ELSE Since(slice[i])
               r == [before |-> before,
                     nodes  |-> IF isDelete /\ before > 0 THEN copied \union {next_seq}
                                                          ELSE copied,
                     end    |-> Len(log')]
    <3>1. r \in LogRead
      BY <1>2, <1>3, <2>1, Zenon DEF LogRead
    <3>2. read' = [read EXCEPT ![t] = r]
      BY Zenon DEF Buffer
    <3>3. read \in [Threads -> LogRead]
      BY Types, Zenon DEF ThreadTypeOK
    <3> HIDE DEF r
    <3> QED BY <3>1, <3>2, <3>3, Zenon
  <2>3. /\ pc' = [pc EXCEPT ![t] = "apply"]
        /\ at' = [at EXCEPT ![t] = i]
        /\ UNCHANGED <<full_flush, ret, job, held, failed, last_seq>>
    BY Zenon DEF Buffer, Goto
  <2>4. i \in 0..NumSlots
    BY SlotsNat
  <2> QED BY Types, LabelFacts, <2>2, <2>3, <2>4, Zenon DEF ThreadTypeOK
<1> QED BY <1>1, <1>2, <1>5, <1>6, Zenon DEF TypeOK

\* AddDocuments keeps the types.
LEMMA AddDocumentsType ==
  ASSUME DeleteOrder, NEW t \in Threads, NEW i \in Slots, NEW p \in 1..Partitions,
         NEW count \in 1..MaxBlock, NEW isDelete \in BOOLEAN,
         AddDocuments(t, i, p, count, isDelete)
  PROVE  TypeOK'
<1>1. p \in 0..Partitions /\ ops' \in Nat /\ Buffer(t, i, p, count, isDelete)
  BY Types, CallsAddType DEF AddDocuments
<1> QED BY <1>1, BufferType, Zenon

\* AddAfterEviction keeps the types.
LEMMA AddAfterEvictionType ==
  ASSUME DeleteOrder, NEW t \in Threads,
         NEW count \in 1..MaxBlock, NEW isDelete \in BOOLEAN,
         AddAfterEviction(t, count, isDelete)
  PROVE  TypeOK'
<1>1. at[t] \in Slots
  BY Types, Zenon DEF AddAfterEviction, SlotsOwned
<1>2. partition[at[t]] \in 0..Partitions /\ ops' \in Nat
  BY Types, <1>1, Zenon DEF AddAfterEviction, SlotTypeOK, ThreadTypeOK
<1> QED BY <1>1, <1>2, BufferType, Zenon DEF AddAfterEviction

\* BufferDelete keeps the types.
LEMMA BufferDeleteType ==
  ASSUME DeleteOrder, NEW t \in Threads, BufferDelete(t)
  PROVE  TypeOK'
<1>1. ControlTypeOK' /\ TicketTypeOK' /\ LogTypeOK'
  BY Types, ControlStutter, TicketStutter, LogOperationType, Zenon DEF BufferDelete
<1>2. SlotTypeOK'
  BY Types, Zenon DEF BufferDelete, SlotTypeOK, slotVars
<1>3. ThreadTypeOK'
  BY Types, LabelFacts DEF BufferDelete, Calls, Goto, ThreadTypeOK
<1> QED BY <1>1, <1>2, <1>3, Zenon DEF TypeOK

\* ApplyAllDeletes keeps the types.
LEMMA ApplyAllDeletesType ==
  ASSUME DeleteOrder, NEW t \in Threads, ApplyAllDeletes(t)
  PROVE  TypeOK'
<1>1. ControlTypeOK'
  BY Types, ControlStutter, Zenon DEF ApplyAllDeletes
<1>2. LogTypeOK' /\ TicketTypeOK'
  BY Types, DeletesTicketType, SMTT(30) DEF ApplyAllDeletes, TicketTypeOK, DeletesTicket, DeleteOrder
<1>3. SlotTypeOK'
  BY Types, Zenon DEF ApplyAllDeletes, SlotTypeOK, slotVars
<1>4. ThreadTypeOK'
  BY Types, LabelFacts, Zenon DEF ApplyAllDeletes, Goto, ThreadTypeOK, TicketTypeOK
<1> QED BY <1>1, <1>2, <1>3, <1>4, Zenon DEF TypeOK

\* TakeCut keeps the types.
LEMMA TakeCutType ==
  ASSUME DeleteOrder, NEW t \in Threads, TakeCut(t)
  PROVE  TypeOK'
<1>1. ControlTypeOK'
  BY Types, ControlStutter, Zenon DEF TakeCut
<1>2. LogTypeOK' /\ TicketTypeOK'
  <2>1. DeletesTicket /\ barrier' \in {barrier, next_ticket + 1}
    BY Zenon DEF TakeCut, Barrier
  <2>2. next_ticket' = next_ticket + 1
    BY <2>1, Zenon DEF DeletesTicket
  <2>3. /\ LogTypeOK'
        /\ tickets' \subseteq Ticket /\ next_ticket' \in Nat /\ next_publish' \in Nat
    BY <2>1, DeletesTicketType, Zenon DEF DeleteOrder
  <2>4. next_ticket \in Nat /\ barrier \in 0..next_ticket
    BY Types, Zenon DEF TicketTypeOK
  <2>5. barrier' \in 0..next_ticket'
    BY <2>1, <2>2, <2>4
  <2> QED BY <2>3, <2>5, Zenon DEF TicketTypeOK
<1>3. SlotTypeOK'
  BY Types, Zenon DEF TakeCut, SlotTypeOK, Unowned, policyVars
<1>4. ThreadTypeOK'
  <2>1. LastSeq \in Nat
    BY Types DEF LastSeq, LogTypeOK
  <2> QED
    BY Types, LabelFacts, <2>1, SMTT(30) DEF TakeCut, Goto, ThreadTypeOK, TicketTypeOK
<1> QED BY <1>1, <1>2, <1>3, <1>4, Zenon DEF TypeOK

\* The steps that only move a thread keep the types.
LEMMA MovesType ==
  ASSUME DeleteOrder, NEW t \in Threads, PostUpdateNone(t) \/ ApplyAllDeletesSkip(t)
  PROVE  TypeOK'
<1>1. LogTypeOK' /\ ControlTypeOK' /\ SlotTypeOK' /\ TicketTypeOK'
  BY Types, LogStutter, ControlStutter, SlotStutter, TicketStutter, Zenon
     DEF PostUpdateNone, ApplyAllDeletesSkip
<1>2. ThreadTypeOK'
  BY Types, LabelFacts, Zenon DEF PostUpdateNone, ApplyAllDeletesSkip, Goto, ThreadTypeOK
<1> QED BY <1>1, <1>2, Zenon DEF TypeOK

\* StartFullFlush keeps the types.
LEMMA StartFullFlushType ==
  ASSUME DeleteOrder, NEW t \in Threads, NEW j \in FullFlushJobs, StartFullFlush(t, j)
  PROVE  TypeOK'
<1>1. LogTypeOK' /\ ControlTypeOK' /\ SlotTypeOK' /\ TicketTypeOK'
  BY Types, LogStutter, ControlStutter, SlotStutter, TicketStutter, Zenon DEF StartFullFlush
<1>2. ThreadTypeOK'
  BY Types, LabelFacts, SMTT(30) DEF StartFullFlush, Calls, Goto, ThreadTypeOK
<1> QED BY <1>1, <1>2, Zenon DEF TypeOK

\* LockNext keeps the types.
LEMMA LockNextType ==
  ASSUME DeleteOrder, NEW t \in Threads, LockNext(t)
  PROVE  TypeOK'
<1>1. LogTypeOK' /\ ControlTypeOK' /\ TicketTypeOK'
  BY Types, LogStutter, ControlStutter, TicketStutter, Zenon DEF LockNext
<1>2. SlotTypeOK'
  BY Types, Zenon DEF LockNext, SlotTypeOK, policyVars
<1>3. ThreadTypeOK'
  BY Types, LabelFacts, SMTT(30) DEF LockNext, Goto, ThreadTypeOK
<1> QED BY <1>1, <1>2, <1>3, Zenon DEF TypeOK

\* EndFullFlush keeps the types.
LEMMA EndFullFlushType ==
  ASSUME DeleteOrder, NEW t \in Threads, EndFullFlush(t)
  PROVE  TypeOK'
<1>1. LogTypeOK' /\ ControlTypeOK' /\ SlotTypeOK'
  BY Types, LogStutter, ControlStutter, SlotStutter, Zenon DEF EndFullFlush
<1>2. TicketTypeOK'
  BY Types DEF EndFullFlush, LiftBarrier, TicketTypeOK
<1>3. ThreadTypeOK'
  BY Types, LabelFacts, Zenon DEF EndFullFlush, Goto, ThreadTypeOK
<1> QED BY <1>1, <1>2, <1>3, Zenon DEF TypeOK

\* AbortSlots keeps the types.
LEMMA AbortSlotsType ==
  ASSUME DeleteOrder, NEW t \in Threads, AbortSlots(t)
  PROVE  TypeOK'
<1>1. ControlTypeOK' /\ TicketTypeOK'
  BY Types, ControlStutter, TicketStutter, Zenon DEF AbortSlots
<1>2. LogTypeOK'
  BY Types, SlotsNat, Zenon DEF AbortSlots, LogTypeOK
<1>3. docs' \in [Slots -> Seq(Nat)] /\ partition' \in [Slots -> 0..Partitions]
  BY DEF AbortSlots
<1>4. SlotTypeOK'
  BY Types, <1>3, Zenon DEF AbortSlots, SlotTypeOK
<1>5. ThreadTypeOK'
  BY Types, LabelFacts, Zenon DEF AbortSlots, Goto, ThreadTypeOK
<1> QED BY <1>1, <1>2, <1>4, <1>5, Zenon DEF TypeOK

\* What a commit writes has the types of the view.
LEMMA CommitControlType ==
  ASSUME ControlTypeOK, NEW last \in Nat,
         CommitSegments(last) \/ PrepareFails \/ FinishFails \/ PrepareRefused
  PROVE  ControlTypeOK'
<1>1. /\ segs \in SUBSET SegmentType /\ stream \in Packets /\ next_gen \in Nat
      /\ failures \in Nat /\ prepared \in BOOLEAN
  BY Zenon DEF ControlTypeOK, Packets, Packet
<1>2. CASE PrepareRefused
  BY <1>2, ControlStutter, Zenon DEF PrepareRefused
<1>3. CASE CommitSegments(last) \/ PrepareFails \/ FinishFails
  <2>1. ApplyAll(segs, stream) \/ ApplySome(segs, stream)
    BY <1>3, Zenon DEF CommitSegments, PrepareFails, FinishFails, ApplyPackets, ApplyPacketsFails
  <2>2. segs' \in SUBSET SegmentType /\ stream' \in Packets
    BY <1>1, <2>1, ApplyType, Zenon
  <2>3. failures' \in Nat /\ next_gen' \in Nat /\ prepared' \in BOOLEAN
    <3>1. failures' = failures \/ failures' = failures + 1
      BY <1>3, Zenon DEF CommitSegments, PrepareFails, FinishFails, ApplyPackets,
         ApplyPacketsFails, Fails
    <3>2. next_gen' = next_gen /\ (prepared' = prepared \/ prepared' = TRUE)
      BY <1>3, Zenon DEF CommitSegments, PrepareFails, FinishFails
    <3>3. failures' \in Nat /\ next_gen' \in Nat
      BY <1>1, <3>1, <3>2
    <3>4. prepared' \in BOOLEAN
      BY <1>1, <3>2, Zenon
    <3> QED BY <3>3, <3>4, Zenon
  <2>4. commit' \in [seq : Nat, segs : SUBSET SegmentType]
    <3>1. commit' = commit \/ commit' = [seq |-> last, segs |-> segs']
      BY <1>3, Zenon DEF CommitSegments, PrepareFails, FinishFails
    <3> QED BY <2>2, <3>1 DEF ControlTypeOK
  <2> QED BY <2>2, <2>3, <2>4, Zenon DEF ControlTypeOK, Packets, Packet
<1> QED BY <1>2, <1>3, Zenon

\* Commit keeps the types.
LEMMA CommitType ==
  ASSUME DeleteOrder, NEW t \in Threads, Commit(t)
  PROVE  TypeOK'
<1>1. LogTypeOK' /\ SlotTypeOK' /\ TicketTypeOK'
  BY Types, LogStutter, SlotStutter, TicketStutter, Zenon DEF Commit
<1>2. last_seq[t] \in Nat
  BY Types, Zenon DEF ThreadTypeOK
<1>3. ControlTypeOK'
  BY Types, <1>2, ControlStutter, CommitControlType, Zenon DEF Commit
<1>4. ThreadTypeOK'
  BY Types, LabelFacts, Zenon DEF Commit, Goto, ThreadTypeOK
<1> QED BY <1>1, <1>3, <1>4, Zenon DEF TypeOK

\* Drain keeps the types.
LEMMA DrainType ==
  ASSUME DeleteOrder, NEW t \in Threads, Drain(t)
  PROVE  TypeOK'
<1>1. TicketTypeOK'
  BY Types, TicketStutter, Zenon DEF Drain
<1>2. LogTypeOK'
  BY Types, SMTT(30) DEF Drain, ClearLog, DropAll, Rollback, TakeSeq, End, LogTypeOK
<1>3. SlotTypeOK'
  BY Types, Zenon DEF Drain, Unowned, SlotTypeOK, policyVars
<1>4. ControlTypeOK'
  <2>1. commit.segs \in SUBSET SegmentType
    BY Types, Zenon DEF ControlTypeOK
  <2>2. segs' \in SUBSET SegmentType
    BY Types, <2>1, Zenon DEF Drain, DropAll, Rollback, DropAllSegments, DropAllRefused,
       RollbackView, RollbackFails, ControlTypeOK, coreVars
  <2>3. failures \in Nat /\ (failures' = failures \/ failures' = failures + 1)
    BY Types, Zenon DEF Drain, DropAll, Rollback, DropAllSegments, DropAllRefused,
       RollbackView, RollbackFails, Fails, ControlTypeOK, coreVars
  <2>4. failures' \in Nat
    BY <2>3
  <2> QED BY Types, <2>2, <2>4, Zenon DEF Drain, DropAll, Rollback, DropAllSegments, DropAllRefused,
             RollbackView, RollbackFails, ControlTypeOK, coreVars
<1>5. ThreadTypeOK'
  BY Types, LabelFacts, Zenon DEF Drain, Goto, ThreadTypeOK
<1> QED BY <1>1, <1>2, <1>3, <1>4, <1>5, Zenon DEF TypeOK

\* Publishing a ticket, in any outcome, keeps the control plane's types.
LEMMA PublishControlType ==
  ASSUME DeleteOrder, NEW t \in Threads, NEW k \in tickets,
         Publish(t, k) \/ PublishApplyFails(t, k) \/ Abandon(t, k)
  PROVE  ControlTypeOK'
<1>1. /\ segs \in SUBSET SegmentType /\ failures \in Nat
      /\ commit \in [seq : Nat, segs : SUBSET SegmentType] /\ prepared \in BOOLEAN
      /\ ControlTypeOK
  BY Types, Zenon DEF ControlTypeOK
<1>2. /\ View(k) \in SUBSET SegmentType /\ GenAfterTicket(k) \in Nat
      /\ Pushed(k.packet) \in Packets /\ GenAfter(k.packet) \in Nat
  BY <1>1, SegmentFields, TicketFields, PushedType, Zenon
<1>3. segs' \in SUBSET SegmentType /\ stream' \in Packets
  BY <1>1, <1>2, PublishControl, ApplyType, Zenon
<1>4. next_gen' \in Nat /\ failures' \in Nat
  BY <1>1, <1>2, PublishControl
<1>5. commit' \in [seq : Nat, segs : SUBSET SegmentType]
  BY <1>1, PublishControl, Zenon
<1>6. prepared' \in BOOLEAN
  <2>1. prepared' = prepared
    BY PublishControl, Zenon
  <2> QED BY <1>1, <2>1, Zenon
<1> QED BY <1>3, <1>4, <1>5, <1>6, Zenon DEF ControlTypeOK, Packets, Packet

\* Publishing a ticket, in any outcome, keeps the types.
LEMMA PublishType ==
  ASSUME DeleteOrder, NEW t \in Threads, NEW k \in tickets,
         Publish(t, k) \/ PublishApplyFails(t, k) \/ Abandon(t, k)
  PROVE  TypeOK'
<1>1. PICK error \in BOOLEAN : Retire(t, k, error)
  BY PublishControl, Zenon
<1>2. LogTypeOK' /\ SlotTypeOK'
  BY Types, <1>1, LogStutter, SlotStutter, Zenon DEF Retire
<1>3. TicketTypeOK'
  BY Types, <1>1 DEF Retire, TicketTypeOK
<1>4. ThreadTypeOK'
  <2>1. failed' \in [Threads -> BOOLEAN]
    BY Types, <1>1, Zenon DEF Retire, ThreadTypeOK
  <2>2. held' \in [Threads -> SUBSET Nat]
    BY Types, <1>1, Zenon DEF Retire, ThreadTypeOK
  <2>3. pc' \in [Threads -> Labels] /\ ret' \in [Threads -> Returns]
    BY Types, <1>1, LabelFacts, Zenon DEF Retire, Goto, ThreadTypeOK
  <2> QED BY Types, <1>1, <2>1, <2>2, <2>3, Zenon DEF Retire, ThreadTypeOK
<1> QED BY <1>2, <1>3, <1>4, PublishControlType, Zenon DEF TypeOK

\* The types hold while nothing changes.
LEMMA TypeStutter ==
  ASSUME DeleteOrder, UNCHANGED vars
  PROVE  TypeOK'
<1>1. /\ UNCHANGED logVars /\ UNCHANGED coreVars /\ UNCHANGED <<slotVars, policyVars>>
      /\ UNCHANGED ticketVars /\ UNCHANGED <<full_flush, threadVars>>
  BY Zenon DEF vars
<1> QED
  BY <1>1, Types, LogStutter, ControlStutter, SlotStutter, TicketStutter, ThreadStutter, Zenon DEF TypeOK

\* The type invariant is preserved by every step.
LEMMA TypeStep == DeleteOrder /\ [Next]_vars => TypeOK'
<1> SUFFICES ASSUME DeleteOrder, [Next]_vars PROVE TypeOK'
  BY Zenon
<1>1. CASE UNCHANGED vars
  BY <1>1, TypeStutter, Zenon
<1>2. CASE Terminated
  BY <1>2, TypeStutter, Zenon DEF Terminated
<1>3. ASSUME NEW t \in Threads, Step(t) PROVE TypeOK'
  BY <1>3, RefuseAddType, ApplySliceType, SlotFullType, SlotNotFullType, PrePostUpdateType,
     MovesType, ApplyAllDeletesType, LockNextType, TicketNextType, TakeCutType, CommitType,
     EndFullFlushType, AbortSlotsType, DrainType, PublishType, AddAfterEvictionType, Zenon DEF Step
<1>4. ASSUME NEW t \in Threads, Call(t) PROVE TypeOK'
  BY <1>4, PrePostUpdateType, BufferDeleteType, StartFullFlushType, FlushNextBufferType,
     EvictType, AddDocumentsType, Zenon DEF Call
<1> QED BY <1>1, <1>2, <1>3, <1>4, Zenon DEF Next

----------------------------------------------------------------------------
(* The theorems *)

\* The order holds at first: there are no documents and no deletes.
LEMMA OrderInit == Init => DeleteOrder
<1> SUFFICES ASSUME Init PROVE DeleteOrder
  BY Zenon
<1>1. TypeOK
  BY TypeInit, Zenon
<1>2. TicketNumbers
  BY DEF Init, TicketNumbers
<1>3. SlotsOwned /\ \A t \in Threads : pc[t] = "idle"
  BY Zenon DEF Init, SlotsOwned
<1>4. SlotOrder
  <2>1. /\ log = <<>> /\ handed = 0 /\ \A i \in Slots : docs[i] = <<>> /\ private[i] = {}
    BY Zenon DEF Init, LogInit
  <2>2. handed <= Len(log) /\ \A p \in DOMAIN log : log[p] < next_seq
    BY <2>1
  <2>3. ASSUME NEW i \in Slots
        PROVE  /\ \A j \in DOMAIN docs[i] : docs[i][j] < next_seq
               /\ OwnDeletesLater(docs[i], private[i]) /\ LogLater(docs[i], slice[i])
    BY <2>1 DEF OwnDeletesLater, LogLater
  <2>4. \A t \in Threads : pc[t] # "apply"
    BY <1>3, Zenon
  <2> QED BY <2>2, <2>3, <2>4, Zenon DEF SlotOrder
<1>5. TicketOrder /\ SegmentOrder /\ DeletesOnlyEarlier
  BY Zenon DEF Init, ControlInit, TicketOrder, SegmentOrder, DeletesOnlyEarlier
<1> QED BY <1>1, <1>2, <1>3, <1>4, <1>5, Zenon DEF DeleteOrder

\* DeleteOrder is an invariant: it holds at first and every step keeps it.
THEOREM Order == Spec => []DeleteOrder
<1>1. DeleteOrder /\ [Next]_vars => DeleteOrder'
  BY TypeStep, NumbersStep, OwnedStep, OrderStep, Zenon DEF DeleteOrder
<1> QED BY OrderInit, <1>1, PTL DEF Spec

\* The type invariant, the barrier's bound included, holds in every state.
THEOREM TypeCorrect == Spec => []TypeOK
<1>1. DeleteOrder => TypeOK
  BY Zenon DEF DeleteOrder
<1> QED BY Order, <1>1, PTL

\* No delete ever reaches a document added after it, nor the document of its own
\* update, in a segment of the view or of a commit.
THEOREM NoLaterDocumentDeleted == Spec => []DeletesOnlyEarlier
<1>1. DeleteOrder => DeletesOnlyEarlier
  BY Zenon DEF DeleteOrder
<1> QED BY Order, <1>1, PTL

\* The tickets outstanding are exactly those between next_publish and next_ticket.
THEOREM TicketsGapless == Spec => []TicketNumbers
<1>1. DeleteOrder => TicketNumbers
  BY Zenon DEF DeleteOrder
<1> QED BY Order, <1>1, PTL

\* The slot an add works on, and every slot a full flush locked, is the thread's own.
THEOREM SlotsLocked == Spec => []SlotsOwned
<1>1. DeleteOrder => SlotsOwned
  BY Zenon DEF DeleteOrder
<1> QED BY Order, <1>1, PTL

\* A ticket taken and not yet published is held, by at most one thread.
LEMMA EachTicketHeld == Spec => []Publishers
<1>1. Init => Publishers
  BY PublishersInit, Zenon
<1>2. DeleteOrder /\ Publishers /\ [Next]_vars => Publishers'
  BY PublishersStep, Zenon
<1> QED BY Order, <1>1, <1>2, PTL DEF Spec

\* Every ticket is held by exactly one thread, still in its call, as long as no
\* add has dropped a second batch at an error: before the first I/O failure, and
\* for ever in a writer with one partition.
THEOREM TicketsPublished == Spec => [](NoOrphans => EveryTicketHasAPublisher)
<1>1. Publishers => (NoOrphans => EveryTicketHasAPublisher)
  BY PublishersSuffice, Zenon
<1> QED BY EachTicketHeld, <1>1, PTL

\* The cut invariants hold in every state.
THEOREM CutsClean == Spec => []CleanCuts
<1>1. DeleteOrder /\ DeleteOrder' /\ Publishers /\ CleanCuts /\ [Next]_vars => CleanCuts'
  BY CleanCutsStep, CleanCutsStutter, Zenon DEF Next, Terminated
<1> QED BY Order, EachTicketHeld, CleanCutsInit, <1>1, PTL DEF Spec

\* Every document acknowledged and not dropped is in exactly one place: one
\* slot's buffer, one flush not yet published, or one segment of the view.
THEOREM NoDocumentLost == Spec => []DocumentsConserved
<1>1. CleanCuts => Documents
  BY Zenon DEF CleanCuts
<1> QED BY CutsClean, DocumentsSuffice, <1>1, PTL

\* No delete is lost: each delete acknowledged has reached, or is on its way to,
\* every document added before it, save the pairs trimmed in apply_slice's window.
THEOREM NoDeleteIsLost == Spec => []NoDeleteLost
<1>1. CleanCuts => NoDeleteLost
  BY Zenon DEF CleanCuts
<1> QED BY CutsClean, <1>1, PTL

\* Every commit written is a clean cut through the operations of all threads:
\* exactly the documents numbered up to its number, with exactly their deletes.
THEOREM CommitsAreCuts == Spec => CommitIsCut
<1>1. DeleteOrder /\ DeleteOrder' /\ Publishers /\ CleanCuts /\ [Next]_vars =>
        [commit' # commit =>
           /\ commit'.seq >= commit.seq
           /\ DocsOf(commit'.segs) = {d \in adds : d <= commit'.seq}
           /\ ExactDeletes(commit', missed)]_vars
  <2>1. Terminated => UNCHANGED vars
    BY Zenon DEF Terminated
  <2> QED BY <2>1, CleanCutsStep, Zenon DEF Next
<1> QED BY Order, EachTicketHeld, CutsClean, <1>1, PTL DEF Spec, CommitIsCut
=============================================================================
