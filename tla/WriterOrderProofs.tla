------------------------- MODULE WriterOrderProofs --------------------------
(***************************************************************************)
(* What the steps of ConcurrentWriter keep of the inductive invariant      *)
(* DeleteOrder: the numbering of the tickets, the ownership of the slots,  *)
(* and the order of deletes and documents.  And who publishes a ticket.    *)
(***************************************************************************)
EXTENDS WriterFacts

USE LogAssumption, WriterAssumption

\* Slots and the position an empty slot advertises are naturals.
LEMMA SlotsNat == Slots \subseteq Nat /\ Slots = 1..NumSlots /\ EMPTY_SLOT \in Nat
BY DEF Slots, EMPTY_SLOT

\* Trimming only moves forward, and never past what the control plane took.
LEMMA TrimType ==
  ASSUME LogTypeOK, Trim
  PROVE  base' \in Nat /\ base <= base'
<1>1. PICK applied \in Applied : base' = IF applied > base THEN applied ELSE base
  BY Zenon DEF Trim
<1>2. applied \in Nat
  BY Zenon DEF Applied, LogTypeOK
<1> QED
  BY <1>1, <1>2 DEF LogTypeOK

\* One operation on the log keeps its types.
LEMMA LogOperationType ==
  ASSUME LogTypeOK, NEW d \in BOOLEAN, LogOperation(d), UNCHANGED slices
  PROVE  LogTypeOK' /\ Len(log') \in Nat
BY TrimType DEF LogOperation, TakeSeq, LogTypeOK

\* begin_flush keeps the types of what it changes.
LEMMA BeginFlushType ==
  ASSUME TypeOK, NEW i \in Slots, NEW p \in 0..Partitions, NEW m \in SUBSET Slots,
         BeginFlush(i, p, m)
  PROVE  /\ LogTypeOK'
         /\ docs' \in [Slots -> Seq(Nat)]
         /\ private' \in [Slots -> SUBSET (Nat \X Nat)]
         /\ slice' \in [Slots -> Nat]
         /\ partition' \in [Slots -> 0..Partitions]
         /\ tickets' \subseteq Ticket
         /\ next_ticket' \in Nat
         /\ next_publish' \in Nat
         /\ barrier' \in 0..next_ticket'
         /\ pending' \subseteq Slots
<1> USE DEF SlotTypeOK, TicketTypeOK
<1>0. LogTypeOK /\ SlotTypeOK /\ TicketTypeOK
  BY Zenon DEF TypeOK
<1>1. LogTypeOK /\ End \in Nat /\ EMPTY_SLOT \in Nat
  <2>1. log \in Seq(Nat)
    BY <1>0, Zenon DEF LogTypeOK
  <2>2. End \in Nat
    BY <2>1 DEF End
  <2> QED BY <1>0, <2>2, SlotsNat, Zenon
<1>2. Since(slice[i]) \in SUBSET Nat /\ Unhanded \in SUBSET Nat
  BY <1>0, <1>1, SinceLater, Zenon DEF LogTypeOK, Unhanded
<1>3. Len(docs[i]) \in Nat /\ docs[i] \in Seq(Nat)
  BY <1>0
<1>4. ClosedPrivate(i) \in SUBSET (Nat \X Nat)
  BY <1>0, <1>2, <1>3, Zenon DEF ClosedPrivate
<1>5. LogTypeOK'
  BY <1>1, Zenon DEF BeginFlush, LogTypeOK, TakeUnhanded
<1>6. tickets' \subseteq Ticket
  <2>1. next_ticket \in Nat /\ tickets \subseteq Ticket
    BY <1>0, Zenon
  <2>2. [no |-> next_ticket, docs |-> docs[i], private |-> ClosedPrivate(i),
         packet |-> Unhanded] \in Ticket
    BY <1>2, <1>3, <1>4, <2>1, Zenon DEF Ticket
  <2> QED
    BY <2>1, <2>2, Zenon DEF BeginFlush
<1> QED
  BY <1>0, <1>1, <1>5, <1>6 DEF BeginFlush

\* A ticket without a segment is a ticket.
LEMMA DeletesTicketType ==
  ASSUME TypeOK, DeletesTicket
  PROVE  LogTypeOK' /\ tickets' \subseteq Ticket /\ next_ticket' \in Nat /\ next_publish' \in Nat
<1>1. LogTypeOK /\ TicketTypeOK
  BY Zenon DEF TypeOK
<1>2. Unhanded \in SUBSET Nat
  BY <1>1, SinceLater, Zenon DEF LogTypeOK, Unhanded
<1> DEFINE k == [no |-> next_ticket, docs |-> <<>>, packet |-> Unhanded, private |-> {}]
<1>3. k \in Ticket
  BY <1>1, <1>2 DEF Ticket, TicketTypeOK
<1>4. LogTypeOK'
  BY <1>1 DEF DeletesTicket, TakeUnhanded, End, LogTypeOK
<1>5. tickets \subseteq Ticket /\ next_ticket \in Nat /\ next_publish \in Nat
  BY <1>1, Zenon DEF TicketTypeOK
<1>6. /\ tickets' = tickets \union {k} /\ next_ticket' = next_ticket + 1
      /\ UNCHANGED next_publish
  BY Zenon DEF DeletesTicket
<1> HIDE DEF k
<1> QED BY <1>3, <1>4, <1>5, <1>6

----------------------------------------------------------------------------
(* Ticket numbers *)

\* Handing out the next ticket number keeps the numbers gapless.
LEMMA NumbersTaken ==
  ASSUME TicketTypeOK, TicketNumbers,
         NEW k \in Ticket, k.no = next_ticket,
         tickets' = tickets \union {k}, next_ticket' = next_ticket + 1,
         UNCHANGED next_publish
  PROVE  TicketNumbers'
<1>1. /\ next_ticket \in Nat /\ next_publish \in Nat /\ next_publish <= next_ticket
      /\ \A m \in tickets : m.no \in Nat /\ next_publish <= m.no /\ m.no < next_ticket
  BY Zenon DEF TicketTypeOK, TicketNumbers, Ticket
<1>2. (next_publish <= next_ticket)'
  BY <1>1
<1>3. (\A m \in tickets : next_publish <= m.no /\ m.no < next_ticket)'
  BY <1>1
<1>4. (\A m, n \in tickets : m.no = n.no => m = n)'
  BY <1>1 DEF TicketNumbers
<1>5. (\A n \in next_publish..(next_ticket - 1) : \E m \in tickets : m.no = n)'
  BY <1>1 DEF TicketNumbers
<1> QED BY <1>2, <1>3, <1>4, <1>5, Zenon DEF TicketNumbers

\* begin_flush takes the next ticket number.
LEMMA BeginFlushNumbers ==
  ASSUME DeleteOrder, NEW i \in Slots, NEW p \in 0..Partitions, NEW m \in SUBSET Slots,
         BeginFlush(i, p, m)
  PROVE  TicketNumbers'
<1> DEFINE k == [no |-> next_ticket, docs |-> docs[i], private |-> ClosedPrivate(i),
                 packet |-> Unhanded]
<1>1. /\ tickets' = tickets \union {k} /\ next_ticket' = next_ticket + 1
      /\ UNCHANGED next_publish
  BY Zenon DEF BeginFlush
<1>2. k \in Ticket
  BY <1>1, BeginFlushType, Zenon DEF DeleteOrder
<1>3. k.no = next_ticket
  BY Zenon
<1> HIDE DEF k
<1> QED BY <1>1, <1>2, <1>3, Types, NumbersTaken, Zenon DEF DeleteOrder

\* A ticket without a segment takes the next ticket number.
LEMMA DeletesTicketNumbers ==
  ASSUME DeleteOrder, DeletesTicket
  PROVE  TicketNumbers'
<1> DEFINE k == [no |-> next_ticket, docs |-> <<>>, packet |-> Unhanded, private |-> {}]
<1>1. /\ tickets' = tickets \union {k} /\ next_ticket' = next_ticket + 1
      /\ UNCHANGED next_publish
  BY Zenon DEF DeletesTicket
<1>2. k \in Ticket
  BY <1>1, DeletesTicketType, Zenon DEF DeleteOrder
<1>3. k.no = next_ticket
  BY Zenon
<1> HIDE DEF k
<1> QED BY <1>1, <1>2, <1>3, Types, NumbersTaken, Zenon DEF DeleteOrder

\* Retiring the ticket whose turn it is keeps the numbers gapless.
LEMMA RetireNumbers ==
  ASSUME DeleteOrder, NEW t \in Threads, NEW k \in tickets, Publishes(t, k)
  PROVE  TicketNumbers'
<1>1. /\ next_ticket \in Nat /\ next_publish \in Nat
      /\ \A m \in tickets : m.no \in Nat
  BY Types, Zenon DEF TicketTypeOK, Ticket
<1>2. k.no = next_publish
  BY Zenon DEF Publishes, Publish, PublishApplyFails, Abandon, MayPublish
<1>3. /\ tickets' = tickets \ {k} /\ next_publish' = next_publish + 1
      /\ UNCHANGED next_ticket
  BY PublishControl, Zenon DEF Publishes, Retire
<1> QED BY <1>1, <1>2, <1>3 DEF DeleteOrder, TicketNumbers

\* The ticket numbers stay gapless in every step.
LEMMA NumbersStep == DeleteOrder /\ [Next]_vars => TicketNumbers'
<1> SUFFICES ASSUME DeleteOrder, [Next]_vars PROVE TicketNumbers'
  BY Zenon
<1>0. pending \subseteq Slots /\ 0 \in 0..Partitions
  BY Types DEF SlotTypeOK
<1>1. ASSUME UNCHANGED <<tickets, next_ticket, next_publish>> PROVE TicketNumbers'
  BY <1>1, Zenon DEF DeleteOrder, TicketNumbers
<1>2. CASE UNCHANGED vars \/ Terminated
  BY <1>1, <1>2, Zenon DEF Terminated, vars, ticketVars
<1>3. ASSUME NEW t \in Threads, PreUpdate(t) \/ PostUpdate(t) PROVE TicketNumbers'
  BY <1>0, <1>3, BeginFlushNumbers, Zenon DEF PreUpdate, PostUpdate, TakePending
<1>4. ASSUME NEW t \in Threads, Step(t) PROVE TicketNumbers'
  <2>1. CASE SlotFull(t)
    <3>1. at[t] \in Slots
      BY <2>1, Types, Zenon DEF SlotsOwned, SlotFull
    <3> QED BY <1>0, <2>1, <3>1, BeginFlushNumbers, Zenon DEF SlotFull
  <2>2. CASE TicketNext(t)
    <3>1. at[t] + 1 \in Slots
      BY <2>2, Types DEF ThreadTypeOK, TicketNext, Slots
    <3> QED BY <1>0, <1>1, <2>2, <3>1, BeginFlushNumbers, Zenon DEF TicketNext, ticketVars
  <2>3. CASE ApplyAllDeletes(t) \/ TakeCut(t)
    BY <2>3, DeletesTicketNumbers, Zenon DEF ApplyAllDeletes, TakeCut
  <2>4. CASE \E k \in tickets : Publishes(t, k)
    BY <2>4, RetireNumbers, Zenon
  <2>5. CASE RefuseAdd(t) \/ ApplySlice(t) \/ SlotNotFull(t) \/ PostUpdateNone(t)
             \/ ApplyAllDeletesSkip(t) \/ LockNext(t) \/ Commit(t) \/ EndFullFlush(t)
             \/ AbortSlots(t) \/ Drain(t)
    <3>1. UNCHANGED <<tickets, next_ticket, next_publish>>
      BY <2>5, Zenon DEF RefuseAdd, ApplySlice, SlotNotFull, PostUpdateNone, ApplyAllDeletesSkip,
         LockNext, Commit, EndFullFlush, AbortSlots, Drain, ticketVars
    <3> QED BY <1>1, <3>1, Zenon
  <2>6. CASE \E c \in 1..MaxBlock, d \in BOOLEAN : AddAfterEviction(t, c, d)
    BY <1>1, <2>6, Zenon DEF AddAfterEviction, Buffer, ticketVars
  <2> QED BY <1>3, <1>4, <2>1, <2>2, <2>3, <2>4, <2>5, <2>6, Zenon DEF Step, Publishes
<1>5. ASSUME NEW t \in Threads, Call(t) PROVE TicketNumbers'
  <2>1. CASE BufferDelete(t) \/ \E j \in FullFlushJobs : StartFullFlush(t, j)
    BY <1>1, <2>1, Zenon DEF BufferDelete, StartFullFlush, ticketVars
  <2>2. ASSUME NEW i \in Slots, FlushNextBuffer(t, i) PROVE TicketNumbers'
    BY <1>0, <2>2, BeginFlushNumbers, Zenon DEF FlushNextBuffer
  <2>3. ASSUME NEW i \in Slots, NEW p \in 1..Partitions, Evict(t, i, p) PROVE TicketNumbers'
    <3>1. p \in 0..Partitions
      OBVIOUS
    <3> QED BY <1>0, <2>3, <3>1, BeginFlushNumbers, Zenon DEF Evict
  <2>4. ASSUME NEW i \in Slots, NEW p \in 1..Partitions, NEW c \in 1..MaxBlock,
               NEW d \in BOOLEAN, AddDocuments(t, i, p, c, d)
        PROVE  TicketNumbers'
    BY <1>1, <2>4, Zenon DEF AddDocuments, Buffer, ticketVars
  <2> QED BY <1>3, <1>5, <2>1, <2>2, <2>3, <2>4, Zenon DEF Call
<1> QED BY <1>2, <1>4, <1>5, Zenon DEF Next

----------------------------------------------------------------------------
(* The slots' locks *)

\* The labels at which a thread relies on holding slots.
Locking == {"log", "apply", "full", "lock", "ticket", "abort", "drain"}

\* A thread that leaves those labels keeps the others' slots theirs as long as
\* it only lets go of its own.
LEMMA OwnedLeave ==
  ASSUME DeleteOrder, NEW t \in Threads, NEW l, l \notin Locking,
         pc' = [pc EXCEPT ![t] = l],
         \A u \in Threads \ {t} : at'[u] = at[u],
         \A i \in Slots : owner'[i] = owner[i] \/ owner[i] = t
  PROVE  SlotsOwned'
<1> SUFFICES ASSUME NEW u \in Threads
             PROVE  /\ pc'[u] \in {"log", "apply", "full"} => at'[u] \in Slots /\ owner'[at'[u]] = u
                    /\ pc'[u] = "lock" => at'[u] < NumSlots /\ \A i \in 1..at'[u] : owner'[i] = u
                    /\ pc'[u] \in {"ticket", "abort", "drain"} => \A i \in Slots : owner'[i] = u
  BY Zenon DEF SlotsOwned
<1>1. CASE u = t
  <2>1. pc'[u] = l
    BY <1>1, Types, Zenon DEF ThreadTypeOK
  <2> QED BY <2>1, Zenon DEF Locking
<1>2. CASE u # t
  <2>1. pc'[u] = pc[u] /\ at'[u] = at[u] /\ at[u] \in 0..NumSlots
    BY <1>2, Types, Zenon DEF ThreadTypeOK
  <2>2. \A i \in Slots : owner[i] = u => owner'[i] = u
    BY <1>2, Zenon
  <2> QED BY <2>1, <2>2, Types DEF SlotsOwned, Slots
<1> QED BY <1>1, <1>2, Zenon

\* A thread that takes free slots, or keeps its own, does not touch the others'.
LEMMA OwnedOthers ==
  ASSUME DeleteOrder, NEW t \in Threads,
         \A u \in Threads \ {t} : pc'[u] = pc[u] /\ at'[u] = at[u],
         \A i \in Slots : owner'[i] = owner[i] \/ owner[i] \in {t, None},
         /\ pc'[t] \in {"log", "apply", "full"} => at'[t] \in Slots /\ owner'[at'[t]] = t
         /\ pc'[t] = "lock" => at'[t] < NumSlots /\ \A i \in 1..at'[t] : owner'[i] = t
         /\ pc'[t] \in {"ticket", "abort", "drain"} => \A i \in Slots : owner'[i] = t
  PROVE  SlotsOwned'
<1> SUFFICES ASSUME NEW u \in Threads, u # t
             PROVE  /\ pc'[u] \in {"log", "apply", "full"} => at'[u] \in Slots /\ owner'[at'[u]] = u
                    /\ pc'[u] = "lock" => at'[u] < NumSlots /\ \A i \in 1..at'[u] : owner'[i] = u
                    /\ pc'[u] \in {"ticket", "abort", "drain"} => \A i \in Slots : owner'[i] = u
  BY Zenon DEF SlotsOwned
<1>1. pc'[u] = pc[u] /\ at'[u] = at[u] /\ at[u] \in 0..NumSlots
  BY Types, Zenon DEF ThreadTypeOK
<1>2. \A i \in Slots : owner[i] = u => owner'[i] = u
  BY Zenon
<1> QED BY <1>1, <1>2, Types DEF SlotsOwned, Slots

\* Every step keeps the slots owned by the threads working on them.
LEMMA OwnedStep == DeleteOrder /\ [Next]_vars => SlotsOwned'
<1> SUFFICES ASSUME DeleteOrder, [Next]_vars PROVE SlotsOwned'
  BY Zenon
<1>0. /\ pc \in [Threads -> Labels] /\ at \in [Threads -> 0..NumSlots]
      /\ ret \in [Threads -> Returns]
      /\ owner \in [Slots -> Threads \union {None}]
  BY Types, Zenon DEF ThreadTypeOK, SlotTypeOK
<1>1. CASE UNCHANGED vars \/ Terminated
  BY <1>1, Types, Zenon DEF Terminated, vars, slotVars, threadVars, SlotsOwned
<1>2. ASSUME NEW t \in Threads, Step(t) PROVE SlotsOwned'
  <2>1. CASE RefuseAdd(t)
    <3>1. \E l \in {"idle", "publish"} : pc' = [pc EXCEPT ![t] = l]
      BY <2>1, Zenon DEF RefuseAdd, Goto
    <3>2. \A u \in Threads \ {t} : at'[u] = at[u]
      BY <1>0, <2>1, Zenon DEF RefuseAdd
    <3>3. \A i \in Slots : owner'[i] = owner[i] \/ owner[i] = t
      BY <2>1, Zenon DEF RefuseAdd
    <3> QED BY <3>1, <3>2, <3>3, OwnedLeave, Zenon DEF Locking
  <2>2. CASE ApplySlice(t)
    <3>1. pc' = [pc EXCEPT ![t] = "full"] /\ UNCHANGED <<at, owner>> /\ pc[t] = "apply"
      BY <2>2, Zenon DEF ApplySlice, Goto
    <3> QED BY <1>0, <3>1, Types, OwnedOthers DEF SlotsOwned
  <2>3. CASE SlotFull(t) \/ SlotNotFull(t)
    <3>1. \E l \in {"publish", "post", "idle"} : pc' = [pc EXCEPT ![t] = l]
      BY <2>3, Zenon DEF SlotFull, SlotNotFull, Goto, AfterAdd
    <3>2. at' = [at EXCEPT ![t] = 0] /\ owner' = [owner EXCEPT ![at[t]] = None] /\ pc[t] = "full"
      BY <2>3, Zenon DEF SlotFull, SlotNotFull, ReleaseSlot
    <3>3. \A i \in Slots : owner'[i] = owner[i] \/ owner[i] = t
      BY <1>0, <3>2, Types DEF SlotsOwned
    <3> QED BY <1>0, <3>1, <3>2, <3>3, OwnedLeave, Zenon DEF Locking
  <2>4. CASE LockNext(t)
    <3> DEFINE i == at[t] + 1
    <3>1. /\ pc[t] = "lock" /\ owner[i] = None /\ owner' = [owner EXCEPT ![i] = t]
          /\ IF i < NumSlots
               THEN at' = [at EXCEPT ![t] = i] /\ UNCHANGED pc
               ELSE /\ at' = [at EXCEPT ![t] = 0]
                    /\ \E l \in {"ticket", "abort"} : pc' = [pc EXCEPT ![t] = l]
      BY <2>4, Zenon DEF LockNext, Goto
    <3>2. at[t] \in 0..NumSlots /\ at[t] < NumSlots /\ \A j \in 1..at[t] : owner[j] = t
      BY <1>0, <3>1, Types DEF SlotsOwned
    <3>3. \A j \in 1..i : owner'[j] = t
      BY <1>0, <3>1, <3>2 DEF Slots
    <3>4. \A j \in Slots : owner'[j] = owner[j] \/ owner[j] \in {t, None}
      BY <1>0, <3>1, Zenon
    <3>5. \A u \in Threads \ {t} : pc'[u] = pc[u] /\ at'[u] = at[u]
      BY <1>0, <3>1, Zenon
    <3>6. CASE i < NumSlots
      <4>1. pc'[t] = "lock" /\ at'[t] = i
        BY <1>0, <3>1, <3>6, Zenon
      <4> QED BY <3>3, <3>4, <3>5, <3>6, <4>1, OwnedOthers, Zenon
    <3>7. CASE ~(i < NumSlots)
      <4>1. pc'[t] \in {"ticket", "abort"} /\ i = NumSlots
        BY <1>0, <3>1, <3>2, <3>7
      <4> QED BY <3>3, <3>4, <3>5, <4>1, OwnedOthers, Zenon DEF Slots
    <3> QED BY <3>6, <3>7, Zenon

  <2>5. CASE TicketNext(t)
    <3>1. pc[t] = "ticket" /\ UNCHANGED <<pc, owner>> /\ at' = [at EXCEPT ![t] = at[t] + 1]
      BY <2>5, Zenon DEF TicketNext
    <3> QED BY <1>0, <3>1, Types, OwnedOthers DEF SlotsOwned
  <2>6. CASE TakeCut(t)
    <3>1. pc' = [pc EXCEPT ![t] = "publish"] /\ at' = [at EXCEPT ![t] = 0]
      BY <2>6, Zenon DEF TakeCut, Goto
    <3>2. \A i \in Slots : owner'[i] = owner[i] \/ owner[i] = t
      BY <2>6, Zenon DEF TakeCut, Unowned
    <3> QED BY <1>0, <3>1, <3>2, OwnedLeave, Zenon DEF Locking
  <2>7. CASE AbortSlots(t)
    <3>1. pc' = [pc EXCEPT ![t] = "drain"] /\ UNCHANGED <<at, owner>> /\ pc[t] = "abort"
      BY <2>7, Zenon DEF AbortSlots, Goto
    <3> QED BY <1>0, <3>1, Types, OwnedOthers DEF SlotsOwned
  <2>8. CASE Drain(t)
    <3>1. pc' = [pc EXCEPT ![t] = "idle"] /\ UNCHANGED at
      BY <2>8, Zenon DEF Drain, Goto
    <3>2. \A i \in Slots : owner'[i] = owner[i] \/ owner[i] = t
      BY <2>8, Zenon DEF Drain, Unowned
    <3> QED BY <3>1, <3>2, OwnedLeave, Zenon DEF Locking
  <2>9. CASE PostUpdate(t) \/ PostUpdateNone(t) \/ ApplyAllDeletes(t) \/ ApplyAllDeletesSkip(t)
             \/ Commit(t) \/ EndFullFlush(t)
    <3>1. \E l \in {"publish", "deletes", "idle", "unlock"} : pc' = [pc EXCEPT ![t] = l]
      BY <2>9, Zenon DEF PostUpdate, TakePending, PostUpdateNone, ApplyAllDeletes, ApplyAllDeletesSkip,
         Commit, EndFullFlush, Goto
    <3>2. UNCHANGED <<at, owner>>
      BY <2>9, Zenon DEF PostUpdate, TakePending, PostUpdateNone, ApplyAllDeletes, ApplyAllDeletesSkip,
         Commit, EndFullFlush, slotVars
    <3> QED BY <3>1, <3>2, OwnedLeave, Zenon DEF Locking
  <2>10. ASSUME NEW k \in tickets, Publishes(t, k) PROVE SlotsOwned'
    <3>1. PICK error \in BOOLEAN : Retire(t, k, error)
      BY <2>10, PublishControl, Zenon DEF Publishes
    <3>2. UNCHANGED <<at, owner>>
      BY <3>1, Zenon DEF Retire, slotVars
    <3>3. PICK l \in Returns \union {"publish"} : pc' = [pc EXCEPT ![t] = l]
      BY <1>0, <3>1, LabelFacts, Zenon DEF Retire, Goto
    <3>4. l \notin Locking
      BY Zenon DEF Locking, Returns
    <3> QED BY <3>2, <3>3, <3>4, OwnedLeave, Zenon
  <2>11. ASSUME NEW c \in 1..MaxBlock, NEW d \in BOOLEAN, AddAfterEviction(t, c, d)
         PROVE  SlotsOwned'
    <3>1. pc[t] = "log" /\ Buffer(t, at[t], partition[at[t]], c, d)
      BY <2>11, Zenon DEF AddAfterEviction
    <3>2. /\ pc' = [pc EXCEPT ![t] = "apply"] /\ at' = [at EXCEPT ![t] = at[t]]
          /\ owner' = [owner EXCEPT ![at[t]] = t]
      BY <3>1, Zenon DEF Buffer, Goto
    <3>3. at[t] \in Slots /\ owner[at[t]] = t
      BY <3>1, Types, Zenon DEF SlotsOwned
    <3> QED BY <1>0, <3>2, <3>3, OwnedOthers, Zenon
  <2> QED BY <1>2, <2>1, <2>2, <2>3, <2>4, <2>5, <2>6, <2>7, <2>8, <2>9, <2>10, <2>11, Zenon
             DEF Step, Publishes
<1>3. ASSUME NEW t \in Threads, Call(t) PROVE SlotsOwned'
  <2>1. CASE PreUpdate(t) \/ BufferDelete(t) \/ \E i \in Slots : FlushNextBuffer(t, i)
    <3>1. \E l \in {"publish", "deletes", "idle"} : pc' = [pc EXCEPT ![t] = l]
      BY <2>1, Zenon DEF PreUpdate, TakePending, BufferDelete, FlushNextBuffer, Goto, AfterFlush
    <3>2. UNCHANGED <<at, owner>>
      BY <2>1, Zenon DEF PreUpdate, TakePending, BufferDelete, FlushNextBuffer, slotVars
    <3> QED BY <3>1, <3>2, OwnedLeave, Zenon DEF Locking
  <2>2. ASSUME NEW j \in FullFlushJobs, StartFullFlush(t, j) PROVE SlotsOwned'
    <3>1. /\ pc' = [pc EXCEPT ![t] = "lock"] /\ at' = [at EXCEPT ![t] = 0]
          /\ UNCHANGED owner
      BY <2>2, Zenon DEF StartFullFlush, Goto, slotVars
    <3>2. pc'[t] = "lock" /\ at'[t] = 0 /\ 0 < NumSlots
      BY <1>0, <3>1
    <3>3. \A u \in Threads \ {t} : pc'[u] = pc[u] /\ at'[u] = at[u]
      BY <1>0, <3>1, Zenon
    <3> QED BY <3>1, <3>2, <3>3, OwnedOthers
  <2>3. ASSUME NEW i \in Slots, NEW p \in 1..Partitions, Evict(t, i, p) PROVE SlotsOwned'
    <3>1. /\ pc' = [pc EXCEPT ![t] = "log"] /\ at' = [at EXCEPT ![t] = i]
          /\ owner[i] = None /\ owner' = [owner EXCEPT ![i] = t]
      BY <2>3, Zenon DEF Evict, Goto
    <3> QED BY <1>0, <3>1, OwnedOthers, Zenon
  <2>4. ASSUME NEW i \in Slots, NEW p \in 1..Partitions, NEW c \in 1..MaxBlock,
               NEW d \in BOOLEAN, AddDocuments(t, i, p, c, d)
        PROVE  SlotsOwned'
    <3>1. /\ pc' = [pc EXCEPT ![t] = "apply"] /\ at' = [at EXCEPT ![t] = i]
          /\ owner[i] = None /\ owner' = [owner EXCEPT ![i] = t]
      BY <2>4, Zenon DEF AddDocuments, Buffer, Goto
    <3> QED BY <1>0, <3>1, OwnedOthers, Zenon
  <2> QED BY <1>3, <2>1, <2>2, <2>3, <2>4, Zenon DEF Call
<1> QED BY <1>1, <1>2, <1>3, Zenon DEF Next

----------------------------------------------------------------------------
(* Who publishes a ticket *)

\* It is strong enough: a thread that holds a ticket is in its call.
LEMMA PublishersSuffice ==
  Publishers => (NoOrphans => EveryTicketHasAPublisher)
<1> SUFFICES ASSUME Publishers, NoOrphans, NEW k \in tickets
             PROVE  \E t \in Threads : /\ k.no \in held[t] /\ pc[t] # "idle"
                                       /\ \A u \in Threads \ {t} : k.no \notin held[u]
  BY Zenon DEF EveryTicketHasAPublisher
<1>1. PICK t \in Threads : k.no \in held[t]
  BY Zenon DEF Publishers, AllHeld
<1>2. pc[t] # "idle"
  BY <1>1, Zenon DEF Publishers, HeldOnce, Handless
<1>3. \A u \in Threads \ {t} : k.no \notin held[u]
  BY <1>1, Zenon DEF Publishers, HeldOnce
<1> QED BY <1>1, <1>2, <1>3, Zenon

\* A step of thread t that neither takes nor retires a ticket.
LEMMA HeldKept ==
  ASSUME DeleteOrder, Publishers, NEW t \in Threads, NEW l,
         pc' = [pc EXCEPT ![t] = l], l \in Handless => held[t] = {},
         UNCHANGED <<tickets, next_ticket, next_publish, held>>,
         failures' = 0 => failures = 0
  PROVE  HeldOnce' /\ AllHeld'
<1>1. AllHeld'
  BY Zenon DEF Publishers, AllHeld, NoOrphans
<1>2. \A u \in Threads : pc'[u] = IF u = t THEN l ELSE pc[u]
  BY Types, Zenon DEF ThreadTypeOK
<1>3. HeldOnce'
  BY <1>2, Zenon DEF Publishers, HeldOnce
<1> QED BY <1>1, <1>3, Zenon

\* A step in which thread t takes the next ticket.
LEMMA HeldTaken ==
  ASSUME DeleteOrder, Publishers, NEW t \in Threads, NEW l, NEW k,
         pc' = [pc EXCEPT ![t] = l], l \notin Handless,
         tickets' = tickets \union {k}, k.no = next_ticket,
         next_ticket' = next_ticket + 1, UNCHANGED next_publish,
         held' = [held EXCEPT ![t] = held[t] \union {next_ticket}],
         failures' = 0 => failures = 0
  PROVE  HeldOnce' /\ AllHeld'
<1>1. /\ \A u \in Threads : pc'[u] = IF u = t THEN l ELSE pc[u]
      /\ held'[t] = held[t] \union {next_ticket}
      /\ \A u \in Threads \ {t} : held'[u] = held[u]
      /\ \A u \in Threads : held[u] \subseteq Nat
      /\ next_ticket \in Nat /\ next_publish \in Nat /\ next_publish <= next_ticket
  BY Types, Zenon DEF ThreadTypeOK, TicketTypeOK, DeleteOrder, TicketNumbers
<1>2. AllHeld'
  <2> SUFFICES ASSUME NoOrphans', NEW m \in tickets' PROVE \E u \in Threads : m.no \in held'[u]
    BY Zenon DEF AllHeld
  <2>1. CASE m = k
    <3>1. m.no \in held'[t]
      BY <1>1, <2>1, Zenon
    <3> QED BY <3>1, Zenon
  <2>2. CASE m \in tickets
    <3>1. PICK u \in Threads : m.no \in held[u]
      BY <2>2, Zenon DEF Publishers, AllHeld, NoOrphans
    <3>2. m.no \in held'[u]
      BY <1>1, <3>1, Zenon
    <3> QED BY <3>2, Zenon
  <2> QED BY <2>1, <2>2, Zenon
<1>3. \A u \in Threads : \A n \in held[u] : n \in Nat /\ next_publish <= n /\ n < next_ticket
  BY <1>1, Zenon DEF Publishers, HeldOnce
<1>4. \A u \in Threads : \A n \in held'[u] : next_publish' <= n /\ n < next_ticket'
  BY <1>1, <1>3
<1>5. ASSUME NEW u \in Threads, pc'[u] \in Handless PROVE held'[u] = {}
  <2>1. u # t
    BY <1>1, <1>5, Zenon
  <2>2. pc'[u] = pc[u] /\ held'[u] = held[u]
    BY <1>1, <2>1, Zenon
  <2> QED BY <1>5, <2>2, Zenon DEF Publishers, HeldOnce
<1>6. \A u \in Threads : next_ticket \notin held[u]
  BY <1>1, <1>3
<1>7. \A u \in Threads : \A w \in Threads \ {u} : \A n \in held'[u] : n \notin held'[w]
  <2> SUFFICES ASSUME NEW u \in Threads, NEW w \in Threads \ {u}, NEW n \in held'[u],
                      n \in held'[w]
               PROVE  FALSE
    BY Zenon
  <2>1. n \notin held[u] \/ n \notin held[w]
    BY Zenon DEF Publishers, HeldOnce
  <2>2. u = t \/ w = t
    BY <1>1, <2>1, Zenon
  <2>3. n = next_ticket
    BY <1>1, <2>1, <2>2, Zenon
  <2> QED BY <1>1, <1>6, <2>2, <2>3, Zenon
<1> QED BY <1>2, <1>4, <1>5, <1>7, Zenon DEF HeldOnce

\* A step in which thread t retires ticket k.
LEMMA HeldRetired ==
  ASSUME DeleteOrder, Publishers, NEW t \in Threads, NEW k \in tickets, Publishes(t, k)
  PROVE  HeldOnce' /\ AllHeld'
<1>1. pc[t] = "publish" /\ k.no \in held[t] /\ k.no = next_publish
  BY PublishRetires, Zenon
<1>2. PICK error \in BOOLEAN : /\ Retire(t, k, error)
                               /\ failures' = IF error THEN failures + 1 ELSE failures
  BY PublishRetires, Zenon
<1> DEFINE stop == error /\ StopsAt(t)
<1>3. /\ tickets' = tickets \ {k} /\ next_publish' = next_publish + 1 /\ UNCHANGED next_ticket
      /\ held'[t] = IF stop THEN {} ELSE held[t] \ {k.no}
      /\ \A u \in Threads \ {t} : held'[u] = held[u] /\ pc'[u] = pc[u]
      /\ pc'[t] = "publish" \/ held'[t] = {}
  BY <1>2, Types, Zenon DEF Retire, Goto, ThreadTypeOK
<1>4. \A u \in Threads : pc'[u] \in Handless => held'[u] = {}
  <2> SUFFICES ASSUME NEW u \in Threads, pc'[u] \in Handless PROVE held'[u] = {}
    BY Zenon
  <2>1. CASE u = t
    BY <1>3, <2>1, Zenon DEF Handless
  <2>2. CASE u # t
    BY <1>3, <2>2, Zenon DEF Publishers, HeldOnce
  <2> QED BY <2>1, <2>2, Zenon
<1>5. \A u \in Threads : \A n \in held'[u] : n \in held[u] /\ n # k.no
  <2> SUFFICES ASSUME NEW u \in Threads, NEW n \in held'[u] PROVE n \in held[u] /\ n # k.no
    BY Zenon
  <2>1. CASE u = t
    BY <1>3, <2>1, Zenon
  <2>2. CASE u # t
    BY <1>1, <1>3, <2>2, Zenon DEF Publishers, HeldOnce
  <2> QED BY <2>1, <2>2, Zenon
<1>6. \A u \in Threads : \A n \in held'[u] : next_publish' <= n /\ n < next_ticket'
  <2>1. \A u \in Threads : \A n \in held[u] : n \in Nat /\ next_publish <= n /\ n < next_ticket
    BY Types, Zenon DEF ThreadTypeOK, Publishers, HeldOnce
  <2>2. next_publish \in Nat
    BY Types, Zenon DEF TicketTypeOK
  <2> QED BY <1>1, <1>3, <1>5, <2>1, <2>2
<1>7. HeldOnce'
  BY <1>4, <1>5, <1>6, Zenon DEF Publishers, HeldOnce
<1>8. ASSUME NoOrphans', NEW m \in tickets' PROVE \E u \in Threads : m.no \in held'[u]
  <2>1. NoOrphans /\ (error => Partitions = 1)
    <3>1. failures \in Nat
      BY Types, Zenon DEF ControlTypeOK
    <3> QED BY <1>2, <1>8, <3>1 DEF NoOrphans
  <2>2. PICK u \in Threads : m.no \in held[u]
    BY <1>3, <1>8, <2>1, Zenon DEF Publishers, AllHeld
  <2>3. m.no # k.no
    BY <1>3, <1>8, Zenon DEF DeleteOrder, TicketNumbers
  <2>4. CASE u # t
    <3>1. m.no \in held'[u]
      BY <1>3, <2>2, <2>4, Zenon
    <3> QED BY <3>1, Zenon
  <2>5. CASE u = t
    <3>1. ~stop
      <4> SUFFICES ASSUME stop PROVE FALSE
        BY Zenon
      <4>1. Batch(t)
        BY <2>1, Zenon DEF Publishers, OneBatch
      <4> QED BY <1>1, <2>2, <2>3, <2>5, <4>1, Zenon DEF Batch
    <3>2. m.no \in held'[t]
      BY <1>3, <2>2, <2>3, <2>5, <3>1, Zenon
    <3> QED BY <3>2, Zenon
  <2> QED BY <2>4, <2>5, Zenon
<1>9. AllHeld'
  BY <1>8, Zenon DEF AllHeld
<1> QED BY <1>7, <1>9, Zenon

\* A step of thread t leaves the other threads' batches alone.
LEMMA BatchOthers ==
  ASSUME Publishers, NEW t \in Threads,
         \A u \in Threads \ {t} : /\ pc'[u] = pc[u] /\ held'[u] = held[u]
                                  /\ job'[u] = job[u] /\ ret'[u] = ret[u],
         Partitions = 1 => Batch(t)' /\ OnlyPartition'
  PROVE  OneBatch'
<1> SUFFICES ASSUME Partitions = 1, NEW u \in Threads, u # t PROVE Batch(u)'
  BY Zenon DEF OneBatch
<1>1. Batch(u)
  BY Zenon DEF Publishers, OneBatch
<1>2. pc'[u] = pc[u] /\ held'[u] = held[u] /\ job'[u] = job[u] /\ ret'[u] = ret[u]
  BY Zenon
<1> QED BY <1>1, <1>2, Zenon DEF Batch, StopsAt

\* The buffers keep their partition when nothing touches them, and when one is
\* taken.
LEMMA PartitionKept ==
  ASSUME DeleteOrder, Publishers, Partitions = 1,
         \/ UNCHANGED <<docs, partition>>
         \/ \E i \in Slots, p \in 0..Partitions, m \in SUBSET Slots : BeginFlush(i, p, m)
  PROVE  OnlyPartition'
<1>1. CASE UNCHANGED <<docs, partition>>
  BY <1>1, Zenon DEF Publishers, OneBatch, OnlyPartition
<1>2. ASSUME NEW i \in Slots, NEW p \in 0..Partitions, NEW m \in SUBSET Slots, BeginFlush(i, p, m)
      PROVE  OnlyPartition'
  <2>1. /\ docs' = [docs EXCEPT ![i] = <<>>] /\ partition' = [partition EXCEPT ![i] = p]
        /\ docs \in [Slots -> Seq(Nat)] /\ partition \in [Slots -> 0..Partitions]
    BY <1>2, Types, Zenon DEF BeginFlush, SlotTypeOK
  <2>2. /\ docs'[i] = <<>>
        /\ \A j \in Slots \ {i} : docs'[j] = docs[j] /\ partition'[j] = partition[j]
    BY <2>1, Zenon
  <2> QED BY <2>2, Zenon DEF Publishers, OneBatch, OnlyPartition
<1> QED BY <1>1, <1>2, Zenon

\* A thread that holds no ticket goes to a label at which none is expected.
LEMMA PublishersMove ==
  ASSUME DeleteOrder, Publishers, NEW t \in Threads, NEW l \in Handless \ {"lock"},
         held[t] = {}, pc' = [pc EXCEPT ![t] = l],
         UNCHANGED <<tickets, next_ticket, next_publish, held>>,
         failures' = 0 => failures = 0,
         \A u \in Threads \ {t} : job'[u] = job[u] /\ ret'[u] = ret[u],
         Partitions = 1 => OnlyPartition'
  PROVE  Publishers'
<1>1. HeldOnce' /\ AllHeld'
  BY HeldKept, Zenon
<1>2. pc'[t] = l /\ \A u \in Threads \ {t} : pc'[u] = pc[u]
  BY Types, Zenon DEF ThreadTypeOK
<1>3. Batch(t)'
  BY <1>2, Zenon DEF Batch, Handless
<1>4. OneBatch'
  BY <1>2, <1>3, BatchOthers, Zenon
<1> QED BY <1>1, <1>4, Zenon DEF Publishers

\* A thread takes the next ticket and goes to publish it.  An add that goes to
\* publish holds no other.
LEMMA PublishersTake ==
  ASSUME DeleteOrder, Publishers, NEW t \in Threads, NEW l \in {"publish", "ticket", "log"},
         NEW k, pc' = [pc EXCEPT ![t] = l],
         tickets' = tickets \union {k}, k.no = next_ticket,
         next_ticket' = next_ticket + 1, UNCHANGED next_publish,
         held' = [held EXCEPT ![t] = held[t] \union {next_ticket}],
         failures' = 0 => failures = 0,
         \A u \in Threads \ {t} : job'[u] = job[u] /\ ret'[u] = ret[u],
         Partitions = 1 =>
           /\ OnlyPartition' /\ l # "log"
           /\ l = "ticket" => job'[t] # "none"
           /\ l = "publish" => held[t] = {} \/ job'[t] # "none" \/ ret'[t] = "unlock"
  PROVE  Publishers'
<1>1. HeldOnce' /\ AllHeld'
  <2>1. l \notin Handless
    BY Zenon DEF Handless
  <2> QED BY <2>1, HeldTaken, Zenon
<1>2. /\ pc'[t] = l /\ \A u \in Threads \ {t} : pc'[u] = pc[u] /\ held'[u] = held[u]
      /\ held'[t] = held[t] \union {next_ticket}
  BY Types, Zenon DEF ThreadTypeOK
<1>3. Partitions = 1 => Batch(t)'
  BY <1>2, Zenon DEF Batch, StopsAt
<1>4. OneBatch'
  BY <1>2, <1>3, BatchOthers, Zenon
<1> QED BY <1>1, <1>4, Zenon DEF Publishers

\* A thread retires a ticket.
LEMMA PublishersRetire ==
  ASSUME DeleteOrder, Publishers, NEW t \in Threads, NEW k \in tickets, Publishes(t, k)
  PROVE  Publishers'
<1>1. HeldOnce' /\ AllHeld'
  BY HeldRetired, Zenon
<1>2. PICK error \in BOOLEAN : Retire(t, k, error)
  BY PublishRetires, Zenon
<1>3. /\ UNCHANGED <<docs, partition, job>>
      /\ \A u \in Threads \ {t} : pc'[u] = pc[u] /\ held'[u] = held[u] /\ ret'[u] = ret[u]
      /\ \/ pc'[t] \in Returns
         \/ pc'[t] = "publish" /\ ret'[t] = ret[t] /\ held'[t] \subseteq held[t]
  BY <1>2, Types, LabelFacts, Zenon DEF Retire, Goto, ThreadTypeOK, slotVars
<1>4. ASSUME Partitions = 1 PROVE Batch(t)' /\ OnlyPartition'
  <2>1. Batch(t) /\ pc[t] = "publish"
    BY <1>4, PublishRetires, Zenon DEF Publishers, OneBatch
  <2>2. Batch(t)'
    <3>1. CASE pc'[t] \in Returns
      BY <3>1, Zenon DEF Batch, Returns
    <3>2. CASE pc'[t] = "publish" /\ ret'[t] = ret[t] /\ held'[t] \subseteq held[t]
      BY <1>3, <2>1, <3>2, Zenon DEF Batch, StopsAt
    <3> QED BY <1>3, <3>1, <3>2, Zenon
  <2> QED BY <1>3, <1>4, <2>2, PartitionKept, Zenon
<1>5. OneBatch'
  BY <1>3, <1>4, BatchOthers, Zenon
<1> QED BY <1>1, <1>5, Zenon DEF Publishers

\* A flush of a buffer takes the next ticket.
LEMMA BeginFlushTakes ==
  ASSUME NEW i, NEW p, NEW m, BeginFlush(i, p, m)
  PROVE  /\ next_ticket' = next_ticket + 1 /\ UNCHANGED next_publish
         /\ \E k : tickets' = tickets \union {k} /\ k.no = next_ticket
<1> DEFINE k == [no |-> next_ticket, docs |-> docs[i], private |-> ClosedPrivate(i),
                 packet |-> Unhanded]
<1>1. /\ tickets' = tickets \union {k} /\ next_ticket' = next_ticket + 1
      /\ UNCHANGED next_publish
  BY Zenon DEF BeginFlush
<1>2. k.no = next_ticket
  BY Zenon
<1> HIDE DEF k
<1> QED BY <1>1, <1>2, Zenon

\* So does a ticket without a segment.
LEMMA DeletesTicketTakes ==
  ASSUME DeletesTicket
  PROVE  /\ next_ticket' = next_ticket + 1 /\ UNCHANGED next_publish
         /\ \E k : tickets' = tickets \union {k} /\ k.no = next_ticket
<1> DEFINE k == [no |-> next_ticket, docs |-> <<>>, packet |-> Unhanded, private |-> {}]
<1>1. /\ tickets' = tickets \union {k} /\ next_ticket' = next_ticket + 1
      /\ UNCHANGED next_publish
  BY Zenon DEF DeletesTicket
<1>2. k.no = next_ticket
  BY Zenon
<1> HIDE DEF k
<1> QED BY <1>1, <1>2, Zenon

\* The flushes of a buffer marked, largest, evicted, full, or a full flush's next.
LEMMA PublishersFlush ==
  ASSUME DeleteOrder, Publishers, NEW t \in Threads,
         \/ PreUpdate(t) \/ PostUpdate(t) \/ SlotFull(t)
         \/ \E i \in Slots : FlushNextBuffer(t, i) \/ \E p \in 1..Partitions : Evict(t, i, p)
  PROVE  Publishers'
<1>0. /\ pending \subseteq Slots /\ 0 \in 0..Partitions
      /\ held \in [Threads -> SUBSET Nat] /\ ret \in [Threads -> Returns]
      /\ \A p \in 1..Partitions : p \in 0..Partitions
  BY Types DEF SlotTypeOK, ThreadTypeOK
<1>1. ASSUME PreUpdate(t) \/ PostUpdate(t) \/ \E i \in Slots : FlushNextBuffer(t, i)
      PROVE  Publishers'
  <2>1. /\ pc[t] \in {"idle", "pre", "post"}
        /\ \E i \in Slots : BeginFlush(i, 0, pending)
        /\ held' = [held EXCEPT ![t] = {next_ticket}] /\ Goto(t, "publish")
        /\ \E r \in Returns : ret' = [ret EXCEPT ![t] = r]
        /\ UNCHANGED <<coreVars, job>>
    BY <1>0, <1>1, LabelFacts, Zenon DEF PreUpdate, PostUpdate, FlushNextBuffer, TakePending, Calls
  <2>2. held[t] = {}
    BY <2>1, Zenon DEF Publishers, HeldOnce, Handless
  <2>3. held' = [held EXCEPT ![t] = held[t] \union {next_ticket}]
    BY <2>1, <2>2
  <2>4. UNCHANGED failures /\ \A u \in Threads \ {t} : job'[u] = job[u] /\ ret'[u] = ret[u]
    BY <1>0, <2>1, Zenon DEF coreVars
  <2>5. Partitions = 1 => OnlyPartition'
    BY <1>0, <2>1, PartitionKept, Zenon
  <2>6. \E k : tickets' = tickets \union {k} /\ k.no = next_ticket
    BY <2>1, BeginFlushTakes, Zenon
  <2>7. next_ticket' = next_ticket + 1 /\ UNCHANGED next_publish
    BY <2>1, BeginFlushTakes, Zenon
  <2> QED BY <2>1, <2>2, <2>3, <2>4, <2>5, <2>6, <2>7, PublishersTake, Zenon DEF Goto
<1>2. ASSUME SlotFull(t) PROVE Publishers'
  <2>1. /\ pc[t] = "full" /\ \E m \in SUBSET Slots : BeginFlush(at[t], 0, m)
        /\ held' = [held EXCEPT ![t] = held[t] \union {next_ticket}] /\ Goto(t, "publish")
        /\ ret' = [ret EXCEPT ![t] = AfterFlush] /\ UNCHANGED <<coreVars, job>>
    BY <1>2, Zenon DEF SlotFull, ReleaseSlot
  <2>2. at[t] \in Slots
    BY <2>1, Types, Zenon DEF SlotsOwned
  <2>3. Partitions = 1 => OnlyPartition' /\ held[t] = {}
    BY <1>0, <2>1, <2>2, PartitionKept, Zenon DEF Publishers, OneBatch, Batch
  <2>4. UNCHANGED failures /\ \A u \in Threads \ {t} : job'[u] = job[u] /\ ret'[u] = ret[u]
    BY <1>0, <2>1, Zenon DEF coreVars
  <2>5. \E k : tickets' = tickets \union {k} /\ k.no = next_ticket
    BY <2>1, BeginFlushTakes, Zenon
  <2>6. next_ticket' = next_ticket + 1 /\ UNCHANGED next_publish
    BY <2>1, BeginFlushTakes, Zenon
  <2> QED BY <2>1, <2>3, <2>4, <2>5, <2>6, PublishersTake, Zenon DEF Goto
<1>3. ASSUME NEW i \in Slots, NEW p \in 1..Partitions, Evict(t, i, p) PROVE Publishers'
  <2>1. /\ pc[t] \in {"idle", "pre"} /\ partition[i] # p /\ BeginFlush(i, p, pending)
        /\ held' = [held EXCEPT ![t] = {next_ticket}] /\ Goto(t, "log")
        /\ UNCHANGED <<coreVars, job, ret>>
    BY <1>3, Zenon DEF Evict, CallsAdd, Calls
  <2>2. held[t] = {}
    BY <2>1, Zenon DEF Publishers, HeldOnce, Handless
  <2>3. held' = [held EXCEPT ![t] = held[t] \union {next_ticket}]
    BY <2>1, <2>2
  <2>4. Partitions # 1
    <3> SUFFICES ASSUME Partitions = 1 PROVE FALSE
      BY Zenon
    <3>1. docs[i] # <<>>
      BY <2>1, Zenon DEF BeginFlush
    <3>2. partition[i] = 1
      BY <3>1, Zenon DEF Publishers, OneBatch, OnlyPartition
    <3> QED BY <2>1, <3>2
  <2>5. UNCHANGED failures
    BY <2>1, Zenon DEF coreVars
  <2>6. \E k : tickets' = tickets \union {k} /\ k.no = next_ticket
    BY <2>1, BeginFlushTakes, Zenon
  <2>7. next_ticket' = next_ticket + 1 /\ UNCHANGED next_publish
    BY <2>1, BeginFlushTakes, Zenon
  <2> QED BY <2>1, <2>3, <2>4, <2>5, <2>6, <2>7, PublishersTake, Zenon DEF Goto
<1> QED BY <1>1, <1>2, <1>3, Zenon

\* The tickets of a full flush, and of the deletes when they are too large.
LEMMA PublishersCut ==
  ASSUME DeleteOrder, Publishers, NEW t \in Threads,
         TicketNext(t) \/ TakeCut(t) \/ ApplyAllDeletes(t)
  PROVE  Publishers'
<1>0. /\ pending \subseteq Slots /\ 0 \in 0..Partitions
      /\ held \in [Threads -> SUBSET Nat] /\ ret \in [Threads -> Returns]
      /\ pc \in [Threads -> Labels] /\ at \in [Threads -> 0..NumSlots]
  BY Types DEF SlotTypeOK, ThreadTypeOK
<1>1. ASSUME TicketNext(t) PROVE Publishers'
  <2>1. pc[t] = "ticket" /\ pc' = [pc EXCEPT ![t] = "ticket"] /\ UNCHANGED <<coreVars, job, ret>>
    BY <1>0, <1>1 DEF TicketNext
  <2>2. Partitions = 1 => job'[t] # "none"
    BY <2>1, Zenon DEF Publishers, OneBatch, Batch
  <2>3. UNCHANGED failures
    BY <2>1, Zenon DEF coreVars
  <2>4. CASE held' = [held EXCEPT ![t] = held[t] \union {next_ticket}]
             /\ BeginFlush(at[t] + 1, 0, pending)
    <3>1. at[t] + 1 \in Slots
      BY <1>0, <1>1 DEF TicketNext, Slots
    <3>2. Partitions = 1 => OnlyPartition'
      BY <1>0, <2>4, <3>1, PartitionKept, Zenon
    <3>3. \E k : tickets' = tickets \union {k} /\ k.no = next_ticket
      BY <2>4, BeginFlushTakes, Zenon
    <3>4. next_ticket' = next_ticket + 1 /\ UNCHANGED next_publish
      BY <2>4, BeginFlushTakes, Zenon
    <3> QED BY <2>1, <2>2, <2>3, <2>4, <3>2, <3>3, <3>4, PublishersTake, Zenon
  <2>5. CASE UNCHANGED <<docs, partition, ticketVars, held>>
    <3>1. HeldOnce' /\ AllHeld'
      BY <2>1, <2>3, <2>5, HeldKept, Zenon DEF ticketVars, Handless
    <3>2. UNCHANGED pc
      BY <1>1, Zenon DEF TicketNext
    <3>3. Partitions = 1 => Batch(t)' /\ OnlyPartition'
      BY <2>1, <2>2, <2>5, <3>2, PartitionKept, Zenon DEF Batch
    <3>4. OneBatch'
      BY <2>1, <2>5, <3>2, <3>3, BatchOthers, Zenon
    <3> QED BY <3>1, <3>4, Zenon DEF Publishers
  <2> QED BY <1>1, <2>4, <2>5, Zenon DEF TicketNext
<1>2. ASSUME TakeCut(t) \/ ApplyAllDeletes(t) PROVE Publishers'
  <2>1. /\ pc[t] = "ticket" \/ (ret'[t] = "unlock" /\ held[t] = {})
        /\ DeletesTicket /\ Goto(t, "publish") /\ UNCHANGED <<coreVars, docs, partition, job>>
        /\ held' = [held EXCEPT ![t] = held[t] \union {next_ticket}]
        /\ \A u \in Threads \ {t} : ret'[u] = ret[u]
    <3>1. CASE TakeCut(t)
      <4>1. \E r \in {"commit", "unlock"} : ret' = [ret EXCEPT ![t] = r]
        BY <3>1, Zenon DEF TakeCut
      <4>2. \A u \in Threads \ {t} : ret'[u] = ret[u]
        BY <1>0, <4>1, Zenon
      <4>3. /\ pc[t] = "ticket" /\ DeletesTicket /\ Goto(t, "publish")
            /\ UNCHANGED <<coreVars, docs, partition, job>>
        BY <3>1, Zenon DEF TakeCut
      <4>4. held' = [held EXCEPT ![t] = held[t] \union {next_ticket}]
        BY <3>1, Zenon DEF TakeCut
      <4> QED BY <4>2, <4>3, <4>4, Zenon
    <3>2. CASE ApplyAllDeletes(t)
      <4>1. held[t] = {}
        BY <3>2, Zenon DEF ApplyAllDeletes, Publishers, HeldOnce, Handless
      <4>2. held[t] \union {next_ticket} = {next_ticket}
        BY <4>1
      <4> QED BY <1>0, <3>2, <4>1, <4>2, Zenon DEF ApplyAllDeletes, slotVars
    <3> QED BY <1>2, <3>1, <3>2, Zenon
  <2>2. Partitions = 1 => OnlyPartition' /\ (job'[t] # "none" \/ ret'[t] = "unlock")
    BY <2>1, PartitionKept, Zenon DEF Publishers, OneBatch, Batch
  <2>3. UNCHANGED failures
    BY <2>1, Zenon DEF coreVars
  <2>4. \E k : tickets' = tickets \union {k} /\ k.no = next_ticket
    BY <2>1, DeletesTicketTakes, Zenon
  <2>5. next_ticket' = next_ticket + 1 /\ UNCHANGED next_publish
    BY <2>1, DeletesTicketTakes, Zenon
  <2> QED BY <2>1, <2>2, <2>3, <2>4, <2>5, PublishersTake, Zenon DEF Goto
<1> QED BY <1>1, <1>2, Zenon

\* An add on its way: its documents are buffered, the slice applied, the slot
\* found not full, or the documents refused.
LEMMA PublishersAdd ==
  ASSUME DeleteOrder, Publishers, NEW t \in Threads,
         \/ RefuseAdd(t) \/ ApplySlice(t) \/ SlotNotFull(t)
         \/ \E c \in 1..MaxBlock, d \in BOOLEAN :
              \/ AddAfterEviction(t, c, d)
              \/ \E i \in Slots, p \in 1..Partitions : AddDocuments(t, i, p, c, d)
  PROVE  Publishers'
<1>0. /\ pc \in [Threads -> Labels] /\ ret \in [Threads -> Returns]
      /\ docs \in [Slots -> Seq(Nat)] /\ partition \in [Slots -> 0..Partitions]
  BY Types, Zenon DEF ThreadTypeOK, SlotTypeOK
<1>1. ASSUME RefuseAdd(t) \/ SlotNotFull(t) PROVE Publishers'
  <2>1. /\ pc[t] \in {"pre", "log", "full"}
        /\ pc' = [pc EXCEPT ![t] = IF held[t] = {} THEN ret'[t] ELSE "publish"]
        /\ ret'[t] \in {"idle", "post"} /\ \A u \in Threads \ {t} : ret'[u] = ret[u]
        /\ UNCHANGED <<coreVars, docs, partition, tickets, next_ticket, next_publish, job, held>>
    <3>1. CASE RefuseAdd(t)
      BY <1>0, <3>1, Zenon DEF RefuseAdd, Goto, ticketVars
    <3>2. CASE SlotNotFull(t)
      BY <1>0, <3>2, Zenon DEF SlotNotFull, ReleaseSlot, Goto, ticketVars, AfterAdd
    <3> QED BY <1>1, <3>1, <3>2, Zenon
  <2>2. Partitions = 1 => OnlyPartition'
    BY <2>1, PartitionKept, Zenon
  <2>3. UNCHANGED failures
    BY <2>1, Zenon DEF coreVars
  <2>4. CASE held[t] = {}
    <3>1. ret'[t] \in Handless \ {"lock"} /\ pc' = [pc EXCEPT ![t] = ret'[t]]
      BY <2>1, <2>4, Zenon DEF Handless
    <3> QED BY <2>1, <2>2, <2>3, <2>4, <3>1, PublishersMove, Zenon
  <2>5. CASE held[t] # {}
    <3>1. pc' = [pc EXCEPT ![t] = "publish"]
      BY <2>1, <2>5, Zenon
    <3>2. HeldOnce' /\ AllHeld'
      BY <2>1, <2>3, <3>1, HeldKept, Zenon DEF Handless
    <3>3. Partitions # 1
      BY <2>1, <2>5, Zenon DEF Publishers, HeldOnce, Handless, OneBatch, Batch
    <3> QED BY <3>2, <3>3, Zenon DEF Publishers, OneBatch
  <2> QED BY <2>4, <2>5, Zenon
<1>2. ASSUME ApplySlice(t) PROVE Publishers'
  <2>1. /\ pc[t] = "apply" /\ pc' = [pc EXCEPT ![t] = "full"]
        /\ UNCHANGED <<docs, partition, tickets, next_ticket, next_publish, job, ret, held, failures>>
    BY <1>2, Zenon DEF ApplySlice, Goto, ticketVars, coreVars
  <2>2. HeldOnce' /\ AllHeld'
    BY <2>1, HeldKept, Zenon DEF Handless
  <2>3. pc'[t] = "full" /\ \A u \in Threads \ {t} : pc'[u] = pc[u]
    BY <1>0, <2>1, Zenon
  <2>4. Partitions = 1 => Batch(t)' /\ OnlyPartition'
    BY <2>1, <2>3, PartitionKept, Zenon DEF Publishers, OneBatch, Batch
  <2>5. OneBatch'
    BY <2>1, <2>3, <2>4, BatchOthers, Zenon
  <2> QED BY <2>2, <2>5, Zenon DEF Publishers
<1>3. ASSUME NEW c \in 1..MaxBlock, NEW d \in BOOLEAN,
             \/ AddAfterEviction(t, c, d)
             \/ \E i \in Slots, p \in 1..Partitions : AddDocuments(t, i, p, c, d)
      PROVE  Publishers'
  <2>1. PICK i \in Slots, p \in 0..Partitions :
          /\ Buffer(t, i, p, c, d)
          /\ pc[t] = "log" \/ (pc[t] \in {"idle", "pre"} /\ p \in 1..Partitions)
    <3>1. CASE AddAfterEviction(t, c, d)
      <4>1. at[t] \in Slots
        BY <3>1, Types, Zenon DEF SlotsOwned, AddAfterEviction
      <4>2. partition[at[t]] \in 0..Partitions
        BY <1>0, <4>1, Zenon
      <4>3. pc[t] = "log" /\ Buffer(t, at[t], partition[at[t]], c, d)
        BY <3>1, Zenon DEF AddAfterEviction
      <4> QED BY <4>1, <4>2, <4>3, Zenon
    <3>2. ASSUME NEW i \in Slots, NEW p \in 1..Partitions, AddDocuments(t, i, p, c, d)
          PROVE  /\ p \in 0..Partitions /\ Buffer(t, i, p, c, d)
                 /\ pc[t] \in {"idle", "pre"}
      <4>1. p \in 0..Partitions
        OBVIOUS
      <4> QED BY <3>2, <4>1, Zenon DEF AddDocuments, CallsAdd, Calls
    <3> QED BY <1>3, <3>1, <3>2, Zenon
  <2>2. /\ pc' = [pc EXCEPT ![t] = "apply"] /\ partition' = [partition EXCEPT ![i] = p]
        /\ docs' = [docs EXCEPT ![i] = docs[i] \o [j \in 1..c |-> next_seq]]
        /\ UNCHANGED <<tickets, next_ticket, next_publish, job, ret, held, failures>>
    BY <2>1, Zenon DEF Buffer, Goto, ticketVars, coreVars
  <2>3. HeldOnce' /\ AllHeld'
    BY <2>2, HeldKept, Zenon DEF Handless
  <2>4. pc'[t] = "apply" /\ \A u \in Threads \ {t} : pc'[u] = pc[u]
    BY <1>0, <2>2, Zenon
  <2>5. ASSUME Partitions = 1 PROVE Batch(t)' /\ OnlyPartition'
    <3>1. pc[t] \in {"idle", "pre"} /\ p \in 1..Partitions
      BY <2>1, <2>5, Zenon DEF Publishers, OneBatch, Batch
    <3>2. held'[t] = {}
      BY <2>2, <3>1, Zenon DEF Publishers, HeldOnce, Handless
    <3>3. p = 1
      BY <2>5, <3>1
    <3>4. /\ partition'[i] = 1
          /\ \A j \in Slots \ {i} : docs'[j] = docs[j] /\ partition'[j] = partition[j]
      BY <1>0, <2>2, <3>3, Zenon
    <3>5. OnlyPartition'
      BY <2>5, <3>4, Zenon DEF Publishers, OneBatch, OnlyPartition
    <3> QED BY <2>4, <3>2, <3>5, Zenon DEF Batch
  <2>6. OneBatch'
    BY <2>2, <2>4, <2>5, BatchOthers, Zenon
  <2> QED BY <2>3, <2>6, Zenon DEF Publishers
<1> QED BY <1>1, <1>2, <1>3, Zenon

\* The steps that touch no ticket and leave a thread without one.
LEMMA PublishersQuiet ==
  ASSUME DeleteOrder, Publishers, NEW t \in Threads,
         \/ PostUpdateNone(t) \/ ApplyAllDeletesSkip(t) \/ Commit(t) \/ EndFullFlush(t)
         \/ AbortSlots(t) \/ Drain(t) \/ BufferDelete(t)
  PROVE  Publishers'
<1>0. /\ job \in [Threads -> FullFlushJobs \union {"none"}] /\ failures \in Nat
  BY Types, Zenon DEF ThreadTypeOK, ControlTypeOK
<1>1. /\ pc[t] \in Handless
      /\ \E l \in {"idle", "deletes", "unlock", "drain"} : pc' = [pc EXCEPT ![t] = l]
      /\ UNCHANGED <<tickets, next_ticket, next_publish, held, ret>>
  BY Zenon DEF PostUpdateNone, ApplyAllDeletesSkip, Commit, EndFullFlush, AbortSlots, Drain,
     BufferDelete, Calls, AfterFlush, Goto, Handless, ticketVars
<1>2. held[t] = {}
  BY <1>1, Zenon DEF Publishers, HeldOnce
<1>3. \A u \in Threads \ {t} : job'[u] = job[u]
  BY <1>0, Zenon DEF PostUpdateNone, ApplyAllDeletesSkip, Commit, EndFullFlush, AbortSlots, Drain,
     BufferDelete
<1>4. failures' = 0 => failures = 0
  <2>1. failures' = failures \/ failures' = failures + 1
    BY Zenon DEF PostUpdateNone, ApplyAllDeletesSkip, Commit, EndFullFlush, AbortSlots, Drain,
       BufferDelete, CommitSegments, ApplyPackets, PrepareFails, ApplyPacketsFails, FinishFails,
       PrepareRefused, Fails, DropAll, Rollback, DropAllSegments, DropAllRefused,
       RollbackView, RollbackFails,
       coreVars
  <2> QED BY <1>0, <2>1
<1>5. ASSUME Partitions = 1 PROVE OnlyPartition'
  <2>1. CASE AbortSlots(t)
    BY <2>1, Zenon DEF AbortSlots, OnlyPartition
  <2>2. CASE ~AbortSlots(t)
    <3>1. UNCHANGED <<docs, partition>>
      BY <2>2, Zenon DEF PostUpdateNone, ApplyAllDeletesSkip, Commit, EndFullFlush, Drain,
         BufferDelete, slotVars
    <3> QED BY <1>5, <3>1, PartitionKept, Zenon
  <2> QED BY <2>1, <2>2, Zenon
<1> QED
  <2>1. PICK l \in {"idle", "deletes", "unlock", "drain"} : pc' = [pc EXCEPT ![t] = l]
    BY <1>1, Zenon
  <2>2. l \in Handless \ {"lock"}
    BY Zenon DEF Handless
  <2> QED BY <1>1, <1>2, <1>3, <1>4, <1>5, <2>1, <2>2, PublishersMove, Zenon

\* A full flush takes its locks.
LEMMA PublishersLock ==
  ASSUME DeleteOrder, Publishers, NEW t \in Threads,
         LockNext(t) \/ \E j \in FullFlushJobs : StartFullFlush(t, j)
  PROVE  Publishers'
<1>0. /\ pc \in [Threads -> Labels]
      /\ job \in [Threads -> FullFlushJobs \union {"none"}]
  BY Types, Zenon DEF ThreadTypeOK
<1>1. UNCHANGED <<tickets, next_ticket, next_publish, held, ret, failures, docs, partition>>
  BY Zenon DEF LockNext, StartFullFlush, ticketVars, coreVars, slotVars
<1>2. /\ pc[t] \in {"idle", "lock"}
      /\ \E l \in {"lock", "ticket", "abort"} : pc' = [pc EXCEPT ![t] = l]
  <2>1. CASE LockNext(t)
    <3>1. pc[t] = "lock" /\ (UNCHANGED pc \/ \E l \in {"ticket", "abort"} : pc' = [pc EXCEPT ![t] = l])
      BY <2>1, Zenon DEF LockNext, Goto
    <3>2. pc = [pc EXCEPT ![t] = pc[t]]
      BY <1>0
    <3> QED BY <3>1, <3>2, Zenon
  <2> QED BY <2>1, Zenon DEF StartFullFlush, Calls, Goto
<1>3. held[t] = {}
  BY <1>2, Zenon DEF Publishers, HeldOnce, Handless
<1>4. HeldOnce' /\ AllHeld'
  BY <1>1, <1>2, <1>3, HeldKept, Zenon
<1>5. \A u \in Threads \ {t} : pc'[u] = pc[u] /\ job'[u] = job[u]
  BY <1>0, <1>2, Zenon DEF LockNext, StartFullFlush
<1>6. ASSUME Partitions = 1 PROVE Batch(t)' /\ OnlyPartition'
  <2>1. job'[t] # "none"
    <3>1. CASE LockNext(t)
      BY <1>6, <3>1, Zenon DEF LockNext, Publishers, OneBatch, Batch
    <3>2. ASSUME NEW j \in FullFlushJobs, StartFullFlush(t, j) PROVE job'[t] # "none"
      BY <1>0, <3>2, Zenon DEF StartFullFlush, FullFlushJobs
    <3> QED BY <3>1, <3>2, Zenon
  <2>2. pc'[t] \in {"lock", "ticket", "abort"}
    BY <1>0, <1>2, Zenon
  <2> QED BY <1>1, <1>6, <2>1, <2>2, PartitionKept, Zenon DEF Batch
<1>7. OneBatch'
  BY <1>1, <1>5, <1>6, BatchOthers, Zenon
<1> QED BY <1>4, <1>7, Zenon DEF Publishers

\* The tickets have no publisher to lose at first, ...
LEMMA PublishersInit == Init => Publishers
<1> SUFFICES ASSUME Init PROVE Publishers
  BY Zenon
<1>1. /\ tickets = {} /\ \A i \in Slots : docs[i] = <<>>
      /\ \A t \in Threads : pc[t] = "idle" /\ held[t] = {}
  BY Zenon DEF Init
<1>2. HeldOnce /\ AllHeld
  BY <1>1, Zenon DEF HeldOnce, AllHeld
<1>3. OneBatch
  BY <1>1, Zenon DEF OneBatch, OnlyPartition, Batch
<1> QED BY <1>2, <1>3, Zenon DEF Publishers

\* ... and every step leaves each of them one.
LEMMA PublishersStep == DeleteOrder /\ Publishers /\ [Next]_vars => Publishers'
<1> SUFFICES ASSUME DeleteOrder, Publishers, [Next]_vars PROVE Publishers'
  BY Zenon
<1>1. CASE UNCHANGED vars \/ Terminated
  <2>1. UNCHANGED <<pc, held, job, ret, tickets, next_ticket, next_publish, docs, partition, failures>>
    BY <1>1, Zenon DEF Terminated, vars, ticketVars, slotVars, threadVars, coreVars
  <2>2. HeldOnce' /\ AllHeld'
    BY <2>1, Zenon DEF Publishers, HeldOnce, AllHeld, NoOrphans
  <2>3. ASSUME Partitions = 1, NEW t \in Threads PROVE Batch(t)'
    <3>1. Batch(t)
      BY <2>3, Zenon DEF Publishers, OneBatch
    <3> QED BY <2>1, <3>1, Zenon DEF Batch, StopsAt
  <2>4. OneBatch'
    BY <2>1, <2>3, PartitionKept, Zenon DEF OneBatch
  <2> QED BY <2>2, <2>4, Zenon DEF Publishers
<1>2. ASSUME NEW t \in Threads, Step(t) PROVE Publishers'
  BY <1>2, PublishersFlush, PublishersCut, PublishersAdd, PublishersQuiet, PublishersLock,
     PublishersRetire, Zenon DEF Step, Publishes
<1>3. ASSUME NEW t \in Threads, Call(t) PROVE Publishers'
  BY <1>3, PublishersFlush, PublishersAdd, PublishersQuiet, PublishersLock, Zenon DEF Call
<1> QED BY <1>1, <1>2, <1>3, Zenon DEF Next

----------------------------------------------------------------------------
(* Lemmas on the order's parts *)

\* The slot order survives a step that leaves the log, the buffers and the
\* windows alone and takes sequence numbers only forward.
LEMMA SlotOrderFrame ==
  ASSUME DeleteOrder, SameWindows, UNCHANGED <<log, docs, private, slice>>,
         handed' \in Nat, handed' <= Len(log), next_seq' \in {next_seq, next_seq + 1}
  PROVE  SlotOrder'
<1>1. /\ \A i \in Slots : docs[i] \in Seq(Nat)
      /\ log \in Seq(Nat) /\ next_seq \in Nat
  BY OrderTypes, Zenon
<1>2. /\ \A p \in DOMAIN log' : log'[p] < next_seq'
      /\ \A i \in Slots : \A j \in DOMAIN docs'[i] : docs'[i][j] < next_seq'
  <2>1. \A p \in DOMAIN log : log[p] \in Nat /\ log[p] < next_seq
    BY <1>1 DEF DeleteOrder, SlotOrder
  <2>2. ASSUME NEW i \in Slots, NEW j \in DOMAIN docs[i]
        PROVE  docs[i][j] \in Nat /\ docs[i][j] < next_seq
    BY <1>1 DEF DeleteOrder, SlotOrder
  <2> QED BY <1>1, <2>1, <2>2
<1>3. \A i \in Slots : /\ OwnDeletesLater(docs[i], private[i])'
                       /\ InWindow(i)' = {} => LogLater(docs[i], slice[i])'
  BY SameInWindow, Zenon DEF DeleteOrder, SlotOrder, OwnDeletesLater, LogLater
<1>4. ASSUME NEW u \in Threads, pc'[u] = "apply"
      PROVE  /\ OwnDeletesLater(docs[at[u]], read[u].nodes \X {read[u].before})'
             /\ LogLater(docs[at[u]], read[u].end)'
  BY <1>4, Zenon DEF SameWindows, DeleteOrder, SlotOrder, OwnDeletesLater, LogLater
<1> QED BY <1>2, <1>3, <1>4, Zenon DEF SlotOrder

\* Segments stay in order when only the log is handed over or a number taken.
LEMMA SegmentOrderFrame ==
  ASSUME DeleteOrder, UNCHANGED <<log, coreVars>>, handed' \in {handed, Len(log)},
         next_seq' \in {next_seq, next_seq + 1}
  PROVE  SegmentOrder' /\ DeletesOnlyEarlier'
<1>1. /\ log \in Seq(Nat) /\ next_seq \in Nat /\ handed \in Nat
      /\ segs \subseteq SegmentType /\ commit.segs \subseteq SegmentType
      /\ UNCHANGED <<segs, commit, stream, next_gen>>
  BY OrderTypes, Zenon DEF coreVars
<1>2. DeletesOnlyEarlier'
  BY <1>1, Zenon DEF DeleteOrder, DeletesOnlyEarlier
<1>3. ASSUME NEW s \in segs
      PROVE  \A d \in s.docs : d < next_seq' /\ \A p \in DOMAIN log : p > handed' => d < log[p]
  BY <1>1 DEF DeleteOrder, SegmentOrder, SegmentType
<1>4. ASSUME NEW s \in commit.segs
      PROVE  \A d \in s.docs : d < next_seq'
  BY <1>1 DEF DeleteOrder, SegmentOrder, SegmentType
<1> QED BY <1>1, <1>2, <1>3, <1>4, Zenon DEF DeleteOrder, SegmentOrder, AppliesTo

\* Tickets stay in order when only the log is handed over or a number taken.
LEMMA TicketOrderFrame ==
  ASSUME DeleteOrder, UNCHANGED <<log, tickets, segs>>, handed' \in {handed, Len(log)},
         next_seq' \in {next_seq, next_seq + 1}
  PROVE  TicketOrder'
<1>1. /\ log \in Seq(Nat) /\ next_seq \in Nat /\ handed \in Nat
      /\ \A k \in tickets : k.docs \in Seq(Nat)
  BY OrderTypes, TicketFields, Zenon
<1>2. ASSUME NEW k \in tickets
      PROVE  /\ \A j \in DOMAIN k.docs : k.docs[j] < next_seq'
             /\ OwnDeletesLater(k.docs, k.private)
             /\ LogLater(k.docs, handed)'
  BY <1>1 DEF DeleteOrder, TicketOrder, LogLater
<1> QED BY <1>2, Zenon DEF DeleteOrder, TicketOrder, OwnDeletesLater

----------------------------------------------------------------------------
(* Tickets handed out *)

\* What is not handed over yet is later than every document of an earlier
\* ticket and of every segment.
LEMMA UnhandedLater ==
  ASSUME DeleteOrder, NEW n \in Unhanded
  PROVE  /\ n \in Nat
         /\ \A k \in tickets : \A j \in DOMAIN k.docs : k.docs[j] < n
         /\ \A s \in segs : \A d \in s.docs : d < n
<1>1. LogTypeOK /\ handed \in Nat
  BY Types, Zenon DEF LogTypeOK
<1>2. n \in Nat /\ \E p \in DOMAIN log : p > handed /\ log[p] = n
  BY <1>1, SinceLater, Zenon DEF Unhanded
<1> QED BY <1>2, Zenon DEF DeleteOrder, TicketOrder, LogLater, SegmentOrder

\* A new ticket keeps the tickets' order when its own documents are in order and
\* its packet is what was not handed over.
LEMMA NewTicketOrder ==
  ASSUME DeleteOrder, NEW k \in Ticket, k.no = next_ticket, k.packet = Unhanded,
         tickets' = tickets \union {k}, handed' = Len(log),
         UNCHANGED <<log, next_seq, segs>>,
         \A j \in DOMAIN k.docs : k.docs[j] < next_seq,
         OwnDeletesLater(k.docs, k.private)
  PROVE  TicketOrder'
<1>1. /\ \A m \in tickets : m.no \in Nat /\ m.no < next_ticket
      /\ next_ticket \in Nat /\ log \in Seq(Nat)
  BY OrderTypes, Types, TicketFields, Zenon DEF DeleteOrder, TicketNumbers, TicketTypeOK
<1>2. ASSUME NEW m \in tickets'
      PROVE  /\ (\A j \in DOMAIN m.docs : m.docs[j] < next_seq')
             /\ OwnDeletesLater(m.docs, m.private)
             /\ LogLater(m.docs, handed)'
  BY <1>1 DEF DeleteOrder, TicketOrder, LogLater
<1>3. ASSUME NEW m \in tickets', NEW l \in tickets', l.no > m.no,
             NEW n \in l.packet, NEW j \in DOMAIN m.docs
      PROVE  m.docs[j] < n
  <2>1. CASE m = k
    BY <1>1, <1>3, <2>1
  <2>2. CASE m # k /\ l = k
    BY <2>2, UnhandedLater, Zenon
  <2>3. CASE m # k /\ l # k
    BY <1>3, <2>3, Zenon DEF DeleteOrder, TicketOrder
  <2> QED BY <2>1, <2>2, <2>3, Zenon
<1>4. ASSUME NEW m \in tickets', NEW s \in segs', NEW d \in s.docs, NEW n \in m.packet
      PROVE  d < n
  <2>1. CASE m = k
    BY <2>1, UnhandedLater, Zenon
  <2>2. CASE m # k
    BY <2>2, Zenon DEF DeleteOrder, TicketOrder
  <2> QED BY <2>1, <2>2, Zenon
<1> QED BY <1>2, <1>3, <1>4, Zenon DEF TicketOrder, OwnDeletesLater

\* begin_flush moves a buffer and its deletes to a ticket in order.
LEMMA BeginFlushOrder ==
  ASSUME DeleteOrder, NEW i \in Slots, NEW p \in 0..Partitions, NEW m \in SUBSET Slots,
         BeginFlush(i, p, m), InWindow(i) = {}, SameWindows, UNCHANGED coreVars
  PROVE  SlotOrder' /\ TicketOrder' /\ SegmentOrder' /\ DeletesOnlyEarlier'
<1> DEFINE k == [no |-> next_ticket, docs |-> docs[i], private |-> ClosedPrivate(i),
                 packet |-> Unhanded]
<1>1. /\ tickets' = tickets \union {k} /\ handed' = Len(log)
      /\ UNCHANGED <<log, next_seq>> /\ UNCHANGED segs
      /\ docs' = [docs EXCEPT ![i] = <<>>] /\ private' = [private EXCEPT ![i] = {}]
      /\ slice' = [slice EXCEPT ![i] = Len(log)]
  BY Zenon DEF BeginFlush, TakeUnhanded, End, coreVars
<1>2. /\ docs[i] \in Seq(Nat) /\ private[i] \in SUBSET (Nat \X Nat) /\ slice[i] \in Nat
      /\ log \in Seq(Nat) /\ next_seq \in Nat
  BY OrderTypes, Zenon
<1>3. SegmentOrder' /\ DeletesOnlyEarlier'
  BY <1>1, SegmentOrderFrame, Zenon
<1>4. TicketOrder'
  <2>1. k \in Ticket
    BY <1>1, BeginFlushType, Zenon DEF DeleteOrder
  <2>2. /\ \A j \in DOMAIN docs[i] : docs[i][j] < next_seq
        /\ OwnDeletesLater(docs[i], private[i]) /\ LogLater(docs[i], slice[i])
    BY Zenon DEF DeleteOrder, SlotOrder
  <2>3. \A n \in Since(slice[i]) : n \in Nat /\ \A j \in DOMAIN docs[i] : docs[i][j] < n
    BY <1>2, <2>2, SinceLater, Types DEF LogLater
  <2>4. OwnDeletesLater(docs[i], ClosedPrivate(i))
    <3> SUFFICES ASSUME NEW e \in ClosedPrivate(i)
                 PROVE  e[2] <= Len(docs[i]) /\ \A j \in 1..e[2] : docs[i][j] < e[1]
      BY Zenon DEF OwnDeletesLater
    <3>1. CASE e \in private[i]
      BY <2>2, <3>1, Zenon DEF OwnDeletesLater
    <3>2. CASE e \in Since(slice[i]) \X {Len(docs[i])}
      BY <1>2, <2>3, <3>2
    <3> QED BY <3>1, <3>2, Zenon DEF ClosedPrivate
  <2>5. k.docs = docs[i] /\ k.private = ClosedPrivate(i) /\ k.packet = Unhanded /\ k.no = next_ticket
    BY Zenon
  <2> HIDE DEF k
  <2> QED BY <1>1, <2>1, <2>2, <2>4, <2>5, NewTicketOrder, Zenon
<1>5. SlotOrder'
  <2>1. docs \in [Slots -> Seq(Nat)] /\ private \in [Slots -> SUBSET (Nat \X Nat)]
        /\ slice \in [Slots -> Nat]
    BY Types, Zenon DEF SlotTypeOK
  <2>2. handed' <= Len(log') /\ \A q \in DOMAIN log' : log'[q] < next_seq'
    BY <1>1, <1>2 DEF DeleteOrder, SlotOrder
  <2>3. ASSUME NEW l \in Slots
        PROVE  /\ \A j \in DOMAIN docs'[l] : docs'[l][j] < next_seq'
               /\ OwnDeletesLater(docs[l], private[l])'
               /\ InWindow(l)' = {} => LogLater(docs[l], slice[l])'
    <3>1. CASE l = i
      <4>1. docs'[l] = <<>> /\ private'[l] = {}
        BY <1>1, <2>1, <3>1, Zenon
      <4> QED BY <4>1 DEF OwnDeletesLater, LogLater
    <3>2. CASE l # i
      <4>1. docs'[l] = docs[l] /\ private'[l] = private[l] /\ slice'[l] = slice[l]
        BY <1>1, <2>1, <3>2, Zenon
      <4> QED BY <1>1, <4>1, SameInWindow, Zenon DEF DeleteOrder, SlotOrder, OwnDeletesLater, LogLater
    <3> QED BY <3>1, <3>2, Zenon
  <2>4. ASSUME NEW u \in Threads, pc'[u] = "apply"
        PROVE  /\ OwnDeletesLater(docs[at[u]], read[u].nodes \X {read[u].before})'
               /\ LogLater(docs[at[u]], read[u].end)'
    <3>1. pc[u] = "apply" /\ at'[u] = at[u] /\ read'[u] = read[u]
      BY <2>4, Zenon DEF SameWindows
    <3>2. at[u] \in Slots /\ at[u] # i
      BY <3>1, Types, Zenon DEF SlotsOwned, InWindow
    <3>3. docs'[at[u]] = docs[at[u]]
      BY <1>1, <2>1, <3>2, Zenon
    <3> QED BY <1>1, <3>1, <3>3, Zenon DEF DeleteOrder, SlotOrder, OwnDeletesLater, LogLater
  <2> QED BY <2>2, <2>3, <2>4, Zenon DEF SlotOrder
<1> QED BY <1>3, <1>4, <1>5, Zenon

\* A ticket without a segment freezes only deletes later than every document before it.
LEMMA DeletesTicketOrder ==
  ASSUME DeleteOrder, DeletesTicket, SameWindows, UNCHANGED coreVars,
         UNCHANGED <<docs, private, slice>>
  PROVE  SlotOrder' /\ TicketOrder' /\ SegmentOrder' /\ DeletesOnlyEarlier'
<1> DEFINE k == [no |-> next_ticket, docs |-> <<>>, packet |-> Unhanded, private |-> {}]
<1>1. /\ tickets' = tickets \union {k} /\ handed' = Len(log)
      /\ UNCHANGED <<log, next_seq>> /\ UNCHANGED segs
  BY Zenon DEF DeletesTicket, TakeUnhanded, End, coreVars
<1>2. log \in Seq(Nat) /\ next_seq \in Nat
  BY OrderTypes, Zenon
<1>3. k \in Ticket
  BY <1>1, DeletesTicketType, Zenon DEF DeleteOrder
<1>4. /\ k.no = next_ticket /\ k.packet = Unhanded
      /\ \A j \in DOMAIN k.docs : k.docs[j] < next_seq
      /\ OwnDeletesLater(k.docs, k.private)
  BY DEF OwnDeletesLater
<1> HIDE DEF k
<1>5. TicketOrder'
  BY <1>1, <1>3, <1>4, NewTicketOrder, Zenon
<1>6. SegmentOrder' /\ DeletesOnlyEarlier'
  BY <1>1, SegmentOrderFrame, Zenon
<1>7. SlotOrder'
  BY <1>1, <1>2, SlotOrderFrame
<1> QED BY <1>5, <1>6, <1>7, Zenon

----------------------------------------------------------------------------
(* Operations on the log *)

\* An operation logged keeps the log later than a buffer it was later than.
LEMMA LogLaterKept ==
  ASSUME DeleteOrder, NEW d \in BOOLEAN, LogOperation(d),
         NEW buffer \in Seq(Nat), NEW from \in Nat, LogLater(buffer, from),
         \A j \in DOMAIN buffer : buffer[j] < next_seq
  PROVE  \A p \in DOMAIN log', j \in DOMAIN buffer : p > from => buffer[j] < log'[p]
<1> SUFFICES ASSUME NEW p \in DOMAIN log', NEW j \in DOMAIN buffer, p > from
             PROVE  buffer[j] < log'[p]
  BY Zenon
<1>1. CASE p \in DOMAIN log /\ log'[p] = log[p]
  BY <1>1, Zenon DEF LogLater
<1>2. CASE log'[p] = next_seq
  BY <1>2, Zenon
<1> QED BY <1>1, <1>2, LogOperationEffect, Zenon

\* The tickets and the segments stay in order through an operation on the log.
LEMMA LogOperationOrder ==
  ASSUME DeleteOrder, NEW d \in BOOLEAN, LogOperation(d), UNCHANGED coreVars,
         UNCHANGED tickets
  PROVE  TicketOrder' /\ SegmentOrder' /\ DeletesOnlyEarlier'
<1>1. UNCHANGED <<segs, commit, stream, next_gen>>
  BY Zenon DEF coreVars
<1>2. /\ next_seq \in Nat /\ next_seq' = next_seq + 1 /\ handed' = handed /\ handed \in Nat
      /\ segs \subseteq SegmentType /\ commit.segs \subseteq SegmentType
  BY LogOperationEffect, OrderTypes, Zenon
<1>3. TicketOrder'
  <2>1. ASSUME NEW k \in tickets
        PROVE  /\ \A j \in DOMAIN k.docs : k.docs[j] < next_seq'
               /\ LogLater(k.docs, handed)'
    <3>1. /\ k.docs \in Seq(Nat) /\ LogLater(k.docs, handed)
          /\ \A j \in DOMAIN k.docs : k.docs[j] < next_seq
      BY TicketFields, Zenon DEF DeleteOrder, TicketOrder
    <3>2. \A p \in DOMAIN log', j \in DOMAIN k.docs : p > handed => k.docs[j] < log'[p]
      BY <1>2, <3>1, LogLaterKept, Zenon
    <3> QED BY <1>2, <3>1, <3>2 DEF LogLater
  <2> QED BY <1>1, <2>1, Zenon DEF DeleteOrder, TicketOrder, OwnDeletesLater
<1>4. DeletesOnlyEarlier'
  BY <1>1, Zenon DEF DeleteOrder, DeletesOnlyEarlier
<1>5. SegmentOrder'
  <2>1. ASSUME NEW s \in segs, NEW c \in s.docs
        PROVE  c < next_seq' /\ \A p \in DOMAIN log' : p > handed => c < log'[p]
    <3>1. c \in Nat /\ c < next_seq /\ \A p \in DOMAIN log : p > handed => c < log[p]
      BY <1>2, Zenon DEF DeleteOrder, SegmentOrder, SegmentType
    <3> QED BY <1>2, <3>1, LogOperationEffect
  <2>2. ASSUME NEW s \in commit.segs, NEW c \in s.docs PROVE c < next_seq'
    BY <1>2 DEF DeleteOrder, SegmentOrder, SegmentType
  <2> QED BY <1>1, <1>2, <2>1, <2>2, Zenon DEF DeleteOrder, SegmentOrder, AppliesTo
<1> QED BY <1>3, <1>4, <1>5, Zenon

\* ... and so do the slots it does not add to.
LEMMA LogOperationSlots ==
  ASSUME DeleteOrder, NEW d \in BOOLEAN, LogOperation(d)
  PROVE  /\ handed' <= Len(log')
         /\ \A p \in DOMAIN log' : log'[p] < next_seq'
         /\ \A i \in Slots :
              /\ \A j \in DOMAIN docs[i] : docs[i][j] < next_seq'
              /\ InWindow(i) = {} =>
                   \A p \in DOMAIN log', j \in DOMAIN docs[i] : p > slice[i] => docs[i][j] < log'[p]
         /\ \A u \in Threads : pc[u] = "apply" =>
              \A p \in DOMAIN log', j \in DOMAIN docs[at[u]] :
                p > read[u].end => docs[at[u]][j] < log'[p]
<1>1. /\ next_seq \in Nat /\ next_seq' = next_seq + 1 /\ log \in Seq(Nat) /\ handed \in Nat
      /\ \A i \in Slots : docs[i] \in Seq(Nat) /\ slice[i] \in Nat
      /\ \A i \in Slots : \A j \in DOMAIN docs[i] : docs[i][j] < next_seq
  BY OrderTypes, LogOperationEffect, Zenon DEF DeleteOrder, SlotOrder
<1>2. handed' <= Len(log') /\ \A p \in DOMAIN log' : log'[p] < next_seq'
  <2>1. handed <= Len(log) /\ \A p \in DOMAIN log : log[p] \in Nat /\ log[p] < next_seq
    <3>1. handed <= Len(log) /\ \A p \in DOMAIN log : log[p] < next_seq
      BY Zenon DEF DeleteOrder, SlotOrder
    <3>2. log \in Seq(Nat)
      BY <1>1, Zenon
    <3> QED BY <3>1, <3>2
  <2>2. handed' <= Len(log')
    <3>1. handed' = handed /\ log' \in Seq(Nat) /\ Len(log) <= Len(log')
      BY LogOperationEffect, Zenon
    <3>2. Len(log') \in Nat /\ Len(log) \in Nat
      BY <1>1, <3>1
    <3> QED BY <1>1, <2>1, <3>1, <3>2
  <2>3. ASSUME NEW p \in DOMAIN log' PROVE log'[p] < next_seq'
    <3>1. (p \in DOMAIN log /\ log'[p] = log[p]) \/ log'[p] = next_seq
      BY LogOperationEffect, Zenon
    <3> QED BY <1>1, <2>1, <3>1
  <2> QED BY <2>2, <2>3, Zenon
<1>3. ASSUME NEW i \in Slots PROVE \A j \in DOMAIN docs[i] : docs[i][j] < next_seq'
  <2>1. \A j \in DOMAIN docs[i] : docs[i][j] \in Nat /\ docs[i][j] < next_seq
    BY <1>1
  <2> QED BY <1>1, <2>1
<1>4. ASSUME NEW i \in Slots, InWindow(i) = {}
      PROVE  \A p \in DOMAIN log', j \in DOMAIN docs[i] : p > slice[i] => docs[i][j] < log'[p]
  BY <1>1, <1>4, LogLaterKept, Zenon DEF DeleteOrder, SlotOrder
<1>5. ASSUME NEW u \in Threads, pc[u] = "apply"
      PROVE  \A p \in DOMAIN log', j \in DOMAIN docs[at[u]] :
                p > read[u].end => docs[at[u]][j] < log'[p]
  <2>1. at[u] \in Slots /\ LogLater(docs[at[u]], read[u].end)
    BY <1>5, Types, Zenon DEF SlotsOwned, DeleteOrder, SlotOrder
  <2>2. read[u].end \in Nat
    BY Types, Zenon DEF ThreadTypeOK, LogRead
  <2> QED BY <1>1, <2>1, <2>2, LogLaterKept, Zenon
<1> QED BY <1>2, <1>3, <1>4, <1>5, Zenon

\* buffer_delete keeps the slots in order.
LEMMA BufferDeleteOrder ==
  ASSUME DeleteOrder, LogOperation(TRUE), SameWindows, UNCHANGED <<docs, private, slice>>
  PROVE  SlotOrder'
<1>1. TRUE \in BOOLEAN
  BY Zenon
<1>2. ASSUME NEW i \in Slots
      PROVE  /\ \A j \in DOMAIN docs'[i] : docs'[i][j] < next_seq'
             /\ OwnDeletesLater(docs[i], private[i])'
             /\ InWindow(i)' = {} => LogLater(docs[i], slice[i])'
  BY <1>1, LogOperationSlots, SameInWindow, Zenon DEF DeleteOrder, SlotOrder, OwnDeletesLater, LogLater
<1>3. ASSUME NEW u \in Threads, pc'[u] = "apply"
      PROVE  /\ OwnDeletesLater(docs[at[u]], read[u].nodes \X {read[u].before})'
             /\ LogLater(docs[at[u]], read[u].end)'
  BY <1>1, <1>3, LogOperationSlots, Zenon DEF SameWindows, DeleteOrder, SlotOrder, OwnDeletesLater, LogLater
<1> QED BY <1>1, <1>2, <1>3, LogOperationSlots, Zenon DEF SlotOrder

\* A document added is later than all of the log; what the add copied out of the
\* log is later than the documents the slot held before.
LEMMA BufferOrder ==
  ASSUME DeleteOrder, NEW t \in Threads, NEW i \in Slots, NEW p \in 0..Partitions,
         NEW count \in 1..MaxBlock, NEW isDelete \in BOOLEAN,
         Buffer(t, i, p, count, isDelete), pc[t] # "apply",
         owner[i] \in {None, t}, InWindow(i) = {}
  PROVE  SlotOrder'
<1> DEFINE block == [j \in 1..count |-> next_seq]
           before == Len(docs[i])
           copied == IF before = 0 THEN {} ELSE Since(slice[i])
           nodes == IF isDelete /\ before > 0 THEN copied \union {next_seq} ELSE copied
           r == [before |-> before, nodes |-> nodes, end |-> Len(log')]
<1>1. /\ LogOperation(isDelete) /\ docs' = [docs EXCEPT ![i] = docs[i] \o block]
      /\ read' = [read EXCEPT ![t] = r] /\ at' = [at EXCEPT ![t] = i]
      /\ pc' = [pc EXCEPT ![t] = "apply"] /\ UNCHANGED <<private, slice>>
  BY Zenon DEF Buffer, Goto
<1>2. /\ docs \in [Slots -> Seq(Nat)] /\ docs[i] \in Seq(Nat)
      /\ private \in [Slots -> SUBSET (Nat \X Nat)] /\ slice[i] \in Nat
      /\ pc \in [Threads -> Labels] /\ at \in [Threads -> 0..NumSlots]
      /\ read \in [Threads -> LogRead] /\ next_seq \in Nat /\ next_seq' = next_seq + 1
      /\ before \in Nat /\ count \in Nat
  <2>1. /\ docs \in [Slots -> Seq(Nat)] /\ private \in [Slots -> SUBSET (Nat \X Nat)]
        /\ slice \in [Slots -> Nat]
    BY Types, Zenon DEF SlotTypeOK
  <2>2. /\ pc \in [Threads -> Labels] /\ at \in [Threads -> 0..NumSlots]
        /\ read \in [Threads -> LogRead]
    BY Types, Zenon DEF ThreadTypeOK
  <2>3. next_seq \in Nat /\ next_seq' = next_seq + 1
    BY <1>1, LogOperationEffect, Zenon
  <2> QED BY <2>1, <2>2, <2>3
<1>3. /\ block \in Seq(Nat) /\ Len(block) = count /\ \A j \in 1..count : block[j] = next_seq
  BY <1>2, BlockType, Zenon
<1> HIDE DEF block, copied, nodes, r
<1>0. next_seq \in Nat /\ next_seq' = next_seq + 1 /\ before \in Nat
  BY <1>2, Zenon
<1>4. /\ docs'[i] \in Seq(Nat) /\ before <= Len(docs'[i])
      /\ \A j \in 1..before : docs'[i][j] = docs[i][j]
      /\ \A j \in DOMAIN docs'[i] : docs'[i][j] = next_seq
                                      \/ (j \in DOMAIN docs[i] /\ docs'[i][j] = docs[i][j])
  <2>1. docs'[i] = docs[i] \o block
    BY <1>1, <1>2, Zenon
  <2> QED BY <1>2, <1>3, <2>1
<1>5. ASSUME NEW l \in Slots
      PROVE  /\ \A j \in DOMAIN docs'[l] : docs'[l][j] < next_seq'
             /\ OwnDeletesLater(docs[l], private[l])'
             /\ InWindow(l)' = {} => LogLater(docs[l], slice[l])'
  <2>1. CASE l = i
    <3>1. \A j \in DOMAIN docs'[i] : docs'[i][j] < next_seq'
      <4>1. \A j \in DOMAIN docs[i] : docs[i][j] \in Nat /\ docs[i][j] < next_seq
        BY SlotFacts, Zenon
      <4>2. ASSUME NEW j \in DOMAIN docs'[i] PROVE docs'[i][j] < next_seq'
        <5>1. docs'[i][j] = next_seq \/ (j \in DOMAIN docs[i] /\ docs'[i][j] = docs[i][j])
          BY <1>4, Zenon
        <5>2. docs'[i][j] \in Nat /\ docs'[i][j] <= next_seq
          BY <1>0, <4>1, <5>1
        <5> QED BY <1>0, <5>2
      <4> QED BY <4>2, Zenon
    <3>2. OwnDeletesLater(docs'[i], private[i])
      <4> SUFFICES ASSUME NEW e \in private[i]
                   PROVE  e[2] <= Len(docs'[i]) /\ \A j \in 1..e[2] : docs'[i][j] < e[1]
        BY Zenon DEF OwnDeletesLater
      <4>1. e[2] \in Nat /\ e[2] <= before /\ \A j \in 1..e[2] : docs[i][j] < e[1]
        BY SlotFacts, Zenon
      <4>2. Len(docs'[i]) \in Nat /\ before <= Len(docs'[i])
        BY <1>4
      <4> HIDE DEF before
      <4>3. e[2] <= Len(docs'[i]) /\ \A j \in 1..e[2] : j \in 1..before
        BY <1>0, <4>1, <4>2
      <4> QED BY <1>4, <4>1, <4>3, Zenon
    <3>3. t \in InWindow(i)'
      BY <1>1, <1>2, Zenon DEF InWindow
    <3> QED BY <1>1, <2>1, <3>1, <3>2, <3>3, Zenon DEF OwnDeletesLater
  <2>2. CASE l # i
    <3>1. docs'[l] = docs[l]
      BY <1>1, <1>2, <2>2, Zenon
    <3>2. InWindow(l)' = {} => InWindow(l) = {}
      BY <1>1, <1>2, Zenon DEF InWindow
    <3>3. OwnDeletesLater(docs[l], private[l])
      BY Zenon DEF DeleteOrder, SlotOrder
    <3> QED BY <1>1, <3>1, <3>2, <3>3, LogOperationSlots, Zenon DEF OwnDeletesLater, LogLater
  <2> QED BY <2>1, <2>2, Zenon
<1>6. ASSUME NEW u \in Threads, pc'[u] = "apply"
      PROVE  /\ OwnDeletesLater(docs[at[u]], read[u].nodes \X {read[u].before})'
             /\ LogLater(docs[at[u]], read[u].end)'
  <2>1. CASE u = t
    <3>1. at'[u] = i /\ read'[u] = r
      BY <1>1, <1>2, <2>1, Zenon
    <3>2. DOMAIN docs[i] = 1..before
      BY <1>2
    <3>3. \A n \in nodes : \A j \in 1..before : docs[i][j] < n
      <4>1. /\ \A j \in DOMAIN docs[i] : docs[i][j] < next_seq
            /\ \A n \in Since(slice[i]) : \A j \in DOMAIN docs[i] : docs[i][j] < n
        BY SlotFacts, Zenon
      <4>2. \A n \in nodes : n = next_seq \/ n \in Since(slice[i])
        BY Zenon DEF nodes, copied
      <4> HIDE DEF before
      <4> QED BY <3>2, <4>1, <4>2, Zenon
    <3>4. r.nodes = nodes /\ r.before = before /\ r.end = Len(log')
      BY Zenon DEF r
    <3>5. OwnDeletesLater(docs'[i], r.nodes \X {r.before})
      <4> SUFFICES ASSUME NEW n \in nodes
                   PROVE  before <= Len(docs'[i]) /\ \A j \in 1..before : docs'[i][j] < n
        BY <3>4 DEF OwnDeletesLater
      <4> QED BY <1>4, <3>3, Zenon
    <3>6. \A q \in DOMAIN log', j \in DOMAIN docs'[i] : q > r.end => docs'[i][j] < log'[q]
      BY <1>1, <3>4, LogOperationEffect
    <3> QED BY <3>1, <3>5, <3>6, Zenon DEF OwnDeletesLater, LogLater
  <2>2. CASE u # t
    <3>1. pc[u] = "apply" /\ at'[u] = at[u] /\ read'[u] = read[u]
      BY <1>1, <1>2, <1>6, <2>2, Zenon
    <3>2. at[u] \in Slots /\ at[u] # i
      BY <3>1, Types, Zenon DEF SlotsOwned, InWindow
    <3>3. docs'[at[u]] = docs[at[u]]
      BY <1>1, <1>2, <3>2, Zenon
    <3>4. OwnDeletesLater(docs[at[u]], read[u].nodes \X {read[u].before})
      BY <3>1, Zenon DEF DeleteOrder, SlotOrder
    <3> QED BY <1>1, <3>1, <3>3, <3>4, LogOperationSlots, Zenon DEF OwnDeletesLater, LogLater
  <2> QED BY <2>1, <2>2, Zenon
<1> QED BY <1>1, <1>5, <1>6, LogOperationSlots, Zenon DEF SlotOrder

\* apply_slice gives the slot's documents only deletes later than they are.
LEMMA ApplySliceOrder ==
  ASSUME DeleteOrder, NEW t \in Threads, ApplySlice(t)
  PROVE  SlotOrder' /\ TicketOrder' /\ SegmentOrder' /\ DeletesOnlyEarlier'
<1> DEFINE i == at[t]
           r == read[t]
<1>1. /\ pc[t] = "apply" /\ pc' = [pc EXCEPT ![t] = "full"]
      /\ private' = [private EXCEPT ![i] = private[i] \union (r.nodes \X {r.before})]
      /\ slice' = [slice EXCEPT ![i] = r.end]
      /\ UNCHANGED <<log, handed, next_seq, docs, at, read, tickets>> /\ UNCHANGED coreVars
      /\ UNCHANGED segs
  BY Zenon DEF ApplySlice, Limit, Goto, ticketVars, coreVars
<1>2. /\ i \in Slots /\ private \in [Slots -> SUBSET (Nat \X Nat)] /\ slice \in [Slots -> Nat]
      /\ pc \in [Threads -> Labels]
  BY <1>1, Types, Zenon DEF SlotsOwned, SlotTypeOK, ThreadTypeOK
<1>3. TicketOrder' /\ SegmentOrder' /\ DeletesOnlyEarlier'
  BY <1>1, TicketOrderFrame, SegmentOrderFrame, Zenon
<1>4. OwnDeletesLater(docs[i], r.nodes \X {r.before}) /\ LogLater(docs[i], r.end)
  BY <1>1, Zenon DEF DeleteOrder, SlotOrder
<1>5. ASSUME NEW l \in Slots
      PROVE  /\ OwnDeletesLater(docs[l], private[l])'
             /\ InWindow(l)' = {} => LogLater(docs[l], slice[l])'
  <2>1. OwnDeletesLater(docs[l], private[l])
    BY Zenon DEF DeleteOrder, SlotOrder
  <2>2. CASE l = i
    <3>1. private'[l] = private[l] \union (r.nodes \X {r.before}) /\ slice'[l] = r.end
      BY <1>1, <1>2, <2>2, Zenon
    <3> QED BY <1>1, <1>4, <2>1, <2>2, <3>1, Zenon DEF OwnDeletesLater, LogLater
  <2>3. CASE l # i
    <3>1. private'[l] = private[l] /\ slice'[l] = slice[l]
      BY <1>1, <1>2, <2>3, Zenon
    <3>2. InWindow(l)' = InWindow(l)
      BY <1>1, <1>2, <2>3, Zenon DEF InWindow
    <3>3. InWindow(l) = {} => LogLater(docs[l], slice[l])
      BY Zenon DEF DeleteOrder, SlotOrder
    <3> QED BY <1>1, <2>1, <3>1, <3>2, <3>3, Zenon DEF OwnDeletesLater, LogLater
  <2> QED BY <2>2, <2>3, Zenon
<1>6. ASSUME NEW u \in Threads, pc'[u] = "apply"
      PROVE  /\ OwnDeletesLater(docs[at[u]], read[u].nodes \X {read[u].before})'
             /\ LogLater(docs[at[u]], read[u].end)'
  <2>1. pc[u] = "apply"
    BY <1>1, <1>2, <1>6, Zenon
  <2> QED BY <1>1, <2>1, Zenon DEF DeleteOrder, SlotOrder, OwnDeletesLater, LogLater
<1>7. SlotOrder'
  BY <1>1, <1>5, <1>6, Zenon DEF DeleteOrder, SlotOrder
<1> QED BY <1>3, <1>7, Zenon

\* Dropping the buffers leaves nothing out of order.
LEMMA AbortSlotsOrder ==
  ASSUME DeleteOrder, NEW t \in Threads, AbortSlots(t)
  PROVE  SlotOrder' /\ TicketOrder' /\ SegmentOrder' /\ DeletesOnlyEarlier'
<1>1. /\ docs' = [i \in Slots |-> <<>>] /\ private' = [i \in Slots |-> {}]
      /\ UNCHANGED <<log, handed, next_seq, tickets, segs>> /\ UNCHANGED coreVars
      /\ pc[t] = "abort" /\ pc' = [pc EXCEPT ![t] = "drain"]
  BY Zenon DEF AbortSlots, Goto, ticketVars, coreVars
<1>2. TicketOrder' /\ SegmentOrder' /\ DeletesOnlyEarlier'
  BY <1>1, TicketOrderFrame, SegmentOrderFrame, Zenon
<1>3. \A u \in Threads : pc'[u] # "apply"
  BY <1>1, NoWindows, Types, Zenon DEF ThreadTypeOK
<1>4. ASSUME NEW i \in Slots
      PROVE  /\ \A j \in DOMAIN docs'[i] : docs'[i][j] < next_seq'
             /\ OwnDeletesLater(docs[i], private[i])'
             /\ LogLater(docs[i], slice[i])'
  <2>1. docs'[i] = <<>> /\ private'[i] = {}
    BY <1>1, Zenon
  <2> QED BY <2>1 DEF OwnDeletesLater, LogLater
<1>5. SlotOrder'
  BY <1>1, <1>3, <1>4, Zenon DEF DeleteOrder, SlotOrder
<1> QED BY <1>2, <1>5, Zenon

\* delete_all and rollback, once drained, leave only segments in order.
LEMMA DrainOrder ==
  ASSUME DeleteOrder, NEW t \in Threads, Drain(t)
  PROVE  SlotOrder' /\ TicketOrder' /\ SegmentOrder' /\ DeletesOnlyEarlier'
<1>1. /\ pc[t] = "drain" /\ pc' = [pc EXCEPT ![t] = "idle"] /\ handed' = Len(log)
      /\ UNCHANGED <<log, docs, private, slice, at, read, tickets, commit, next_gen>>
      /\ next_seq' \in {next_seq, next_seq + 1}
      /\ next_publish = next_ticket
  BY Zenon DEF Drain, Drained, Goto, ClearLog, End, DropAll, Rollback, TakeSeq, ticketVars,
     DropAllSegments, DropAllRefused, RollbackView, RollbackFails, coreVars
<1>2. /\ log \in Seq(Nat) /\ next_seq \in Nat /\ next_ticket \in Nat
      /\ commit.segs \subseteq SegmentType /\ segs \subseteq SegmentType
  BY OrderTypes, Types, Zenon DEF TicketTypeOK
<1>3. tickets' = {}
  BY <1>1, NoneOutstanding, Zenon
<1>4. TicketOrder'
  BY <1>3, Zenon DEF TicketOrder
<1>5. SameWindows
  BY <1>1, NoWindows, Types, Zenon DEF SameWindows, ThreadTypeOK
<1>6. SlotOrder'
  <2>1. Len(log) \in Nat
    BY <1>2
  <2>2. Len(log) <= Len(log)
    BY <2>1
  <2> QED BY <1>1, <1>5, <2>1, <2>2, SlotOrderFrame, Zenon
<1>7. /\ (segs' = segs /\ stream' = stream) \/ (stream' = {} /\ segs' \in {{}, commit.segs})
  BY Zenon DEF Drain, DropAll, Rollback, DropAllSegments, DropAllRefused,
     RollbackView, RollbackFails, coreVars
<1>8. DeletesOnlyEarlier'
  BY <1>1, <1>7, Zenon DEF DeleteOrder, DeletesOnlyEarlier
<1>9. SegmentOrder'
  <2>1. ASSUME NEW s \in segs \union commit.segs, NEW d \in s.docs PROVE d < next_seq'
    <3>1. d \in Nat /\ d < next_seq
      BY <1>2, Zenon DEF DeleteOrder, SegmentOrder, SegmentType
    <3>2. next_seq \in Nat /\ (next_seq' = next_seq \/ next_seq' = next_seq + 1)
      BY <1>1, <1>2, Zenon
    <3> QED BY <3>1, <3>2
  <2>2. \A p \in DOMAIN log' : ~(p > handed')
    BY <1>1, <1>2
  <2>3. \A s \in segs \union commit.segs : s.gen < next_gen
    BY Zenon DEF DeleteOrder, SegmentOrder
  <2>4. segs' \subseteq segs \union commit.segs
    BY <1>7, Zenon
  <2>5. /\ \A q \in stream' : q.gen < next_gen'
        /\ \A s \in segs', q \in stream' : AppliesTo(q, s) => \A n \in q.nodes, d \in s.docs : d < n
    BY <1>1, <1>7, Zenon DEF DeleteOrder, SegmentOrder
  <2> QED BY <1>1, <2>1, <2>2, <2>3, <2>4, <2>5, Zenon DEF SegmentOrder, AppliesTo
<1> QED BY <1>4, <1>6, <1>8, <1>9, Zenon

----------------------------------------------------------------------------
(* Packets applied *)

\* Applying packets to segments they are in order with: every segment after is
\* one from before with the same documents and generation, its deletes in order.
LEMMA ApplyOrder ==
  ASSUME NEW S \in SUBSET SegmentType, NEW P \in Packets,
         ApplyAll(S, P) \/ ApplySome(S, P),
         \A s \in S : \A pair \in s.dels : pair[2] < pair[1],
         \A s \in S, q \in P : AppliesTo(q, s) => \A n \in q.nodes, d \in s.docs : d < n
  PROVE  /\ stream' \subseteq P
         /\ \A r \in segs' :
              /\ \E s \in S : r.docs = s.docs /\ r.gen = s.gen
              /\ \A pair \in r.dels : pair[2] < pair[1]
<1>1. stream' \subseteq P
  BY Zenon DEF ApplyAll, ApplySome
<1>2. \A r \in segs' : r \in S \/ \E s \in S : r = Resolved(s, P)
  BY Zenon DEF ApplyAll, ApplySome
<1>3. ASSUME NEW s \in S
      PROVE  /\ Resolved(s, P).docs = s.docs /\ Resolved(s, P).gen = s.gen
             /\ \A pair \in Resolved(s, P).dels : pair[2] < pair[1]
  BY ResolvedType, SMTT(30)
<1> QED BY <1>1, <1>2, <1>3, Zenon

\* A commit, in any outcome, applies packets to the segments they may reach.
LEMMA CommitOrder ==
  ASSUME DeleteOrder, NEW t \in Threads, Commit(t)
  PROVE  SlotOrder' /\ TicketOrder' /\ SegmentOrder' /\ DeletesOnlyEarlier'
<1>1. /\ UNCHANGED <<log, handed, next_seq, docs, private, slice, tickets, at, read>>
      /\ pc[t] = "commit" /\ pc' = [pc EXCEPT ![t] = "unlock"]
  BY Zenon DEF Commit, logVars, slotVars, ticketVars, Goto
<1>2. SameWindows
  BY <1>1, Types, Zenon DEF SameWindows, ThreadTypeOK
<1>3. SlotOrder'
  <2>1. handed \in Nat /\ handed <= Len(log)
    BY OrderTypes, Zenon DEF DeleteOrder, SlotOrder
  <2> QED BY <1>1, <1>2, <2>1, SlotOrderFrame, Zenon
<1>4. CASE UNCHANGED coreVars
  BY <1>1, <1>3, <1>4, TicketOrderFrame, SegmentOrderFrame, Zenon DEF coreVars
<1>5. CASE CommitSegments(last_seq[t]) \/ PrepareFails \/ FinishFails
  <2>1. /\ ApplyAll(segs, stream) \/ ApplySome(segs, stream)
        /\ next_gen' = next_gen
        /\ commit' = commit \/ commit' = [seq |-> last_seq[t], segs |-> segs']
    BY <1>5, Zenon DEF CommitSegments, PrepareFails, FinishFails, ApplyPackets, ApplyPacketsFails
  <2>2. /\ \A s \in segs : \A pair \in s.dels : pair[2] < pair[1]
        /\ \A s \in segs, q \in stream :
             AppliesTo(q, s) => \A n \in q.nodes, d \in s.docs : d < n
    BY Zenon DEF DeleteOrder, DeletesOnlyEarlier, SegmentOrder
  <2>3. /\ stream' \subseteq stream
        /\ \A r \in segs' : /\ \E s \in segs : r.docs = s.docs /\ r.gen = s.gen
                            /\ \A pair \in r.dels : pair[2] < pair[1]
    <3>1. segs \in SUBSET SegmentType /\ stream \in Packets
      BY OrderTypes, Zenon
    <3> QED BY <2>1, <2>2, <3>1, ApplyOrder, Zenon
  <2>4. commit'.segs = commit.segs \/ commit'.segs = segs'
    BY <2>1
  <2>5. DeletesOnlyEarlier'
    BY <2>3, <2>4, Zenon DEF DeleteOrder, DeletesOnlyEarlier
  <2>6. SegmentOrder'
    <3>1. ASSUME NEW r \in segs'
          PROVE  /\ r.gen < next_gen
                 /\ \A d \in r.docs : d < next_seq /\ \A p \in DOMAIN log : p > handed => d < log[p]
                 /\ \A q \in stream' : AppliesTo(q, r) => \A n \in q.nodes, d \in r.docs : d < n
      <4>1. PICK s \in segs : r.docs = s.docs /\ r.gen = s.gen
        BY <2>3, Zenon
      <4> QED BY <2>3, <4>1, Zenon DEF DeleteOrder, SegmentOrder, AppliesTo
    <3>2. ASSUME NEW r \in commit'.segs
          PROVE  r.gen < next_gen /\ \A d \in r.docs : d < next_seq
      BY <2>4, <3>1, Zenon DEF DeleteOrder, SegmentOrder
    <3>3. \A q \in stream' : q.gen < next_gen
      BY <2>3, Zenon DEF DeleteOrder, SegmentOrder
    <3> QED BY <1>1, <2>1, <3>1, <3>2, <3>3, Zenon DEF SegmentOrder, AppliesTo
  <2>7. TicketOrder'
    <3>1. ASSUME NEW k \in tickets, NEW r \in segs', NEW d \in r.docs, NEW n \in k.packet
          PROVE  d < n
      BY <2>3, Zenon DEF DeleteOrder, TicketOrder
    <3> QED BY <1>1, <3>1, Zenon DEF DeleteOrder, TicketOrder, OwnDeletesLater, LogLater
  <2> QED BY <1>3, <2>5, <2>6, <2>7, Zenon
<1> QED BY <1>4, <1>5, Zenon DEF Commit, PrepareRefused

\* Generations only grow when a ticket is published.
LEMMA GenerationsGrow ==
  ASSUME DeleteOrder, NEW k \in tickets
  PROVE  /\ next_gen \in Nat /\ GenAfter(k.packet) \in Nat /\ next_gen <= GenAfter(k.packet)
         /\ GenAfterTicket(k) \in Nat /\ GenAfter(k.packet) <= GenAfterTicket(k)
<1>1. next_gen \in Nat
  BY OrderTypes, Zenon
<1>2. GenAfter(k.packet) \in {next_gen, next_gen + 1}
  BY Zenon DEF GenAfter
<1>3. GenAfterTicket(k) \in {GenAfter(k.packet), GenAfter(k.packet) + 1}
  BY Zenon DEF GenAfterTicket
<1> QED BY <1>1, <1>2, <1>3

\* What a ticket pushes is in order with the view it is pushed to: its packet
\* with the segments before it, and none of the stream reaches its own segment.
LEMMA PushedOrder ==
  ASSUME DeleteOrder, NEW k \in tickets
  PROVE  /\ \A s \in View(k), q \in Pushed(k.packet) :
              AppliesTo(q, s) => \A n \in q.nodes, d \in s.docs : d < n
         /\ \A q \in Pushed(k.packet) : q.gen < GenAfter(k.packet)
         /\ \A s \in segs : s.gen < GenAfter(k.packet)
         /\ GenAfter(k.packet) \in Nat /\ next_gen <= GenAfter(k.packet)
         /\ \A s \in View(k) : s.gen < GenAfterTicket(k)
<1>1. /\ next_gen \in Nat /\ segs \subseteq SegmentType /\ stream \in Packets
      /\ \A s \in segs : s.gen \in Nat /\ s.gen < next_gen
      /\ \A q \in stream : q.gen \in Nat /\ q.gen < next_gen
  BY OrderTypes, Zenon DEF DeleteOrder, SegmentOrder, SegmentType, Packets, Packet
<1>2. GenAfter(k.packet) \in {next_gen, next_gen + 1}
  BY Zenon DEF GenAfter
<1>3. \A q \in Pushed(k.packet) :
         q \in stream \/ (q.gen = next_gen /\ q.nodes = k.packet /\ k.packet # {})
  BY DEF Pushed
<1>4. \A q \in Pushed(k.packet) : q.gen \in Nat /\ q.gen < GenAfter(k.packet)
  BY <1>1, <1>3 DEF GenAfter
<1>5. \A s \in segs : s.gen < GenAfter(k.packet)
  BY <1>1, <1>2
<1>6. \A s \in View(k) : s \in segs \/ (s = Segment(k) /\ k.docs # <<>>)
  BY Zenon DEF View
<1>7. Segment(k).gen = GenAfter(k.packet)
  BY SegmentFields, Zenon
<1>8. ASSUME NEW s \in View(k), NEW q \in Pushed(k.packet), AppliesTo(q, s),
             NEW n \in q.nodes, NEW d \in s.docs
      PROVE  d < n
  <2>1. s \in segs
    <3>1. GenAfter(k.packet) \in Nat /\ q.gen \in Nat /\ q.gen < GenAfter(k.packet)
      BY <1>4, GenerationsGrow, Zenon
    <3>2. s.gen <= q.gen
      BY <1>8, Zenon DEF AppliesTo
    <3>3. s.gen # GenAfter(k.packet)
      BY <3>1, <3>2
    <3> QED BY <1>6, <1>7, <3>3, Zenon
  <2>2. CASE q \in stream
    BY <1>8, <2>1, <2>2, Zenon DEF DeleteOrder, SegmentOrder
  <2>3. CASE q.nodes = k.packet
    BY <2>1, <2>3, Zenon DEF DeleteOrder, TicketOrder
  <2> QED BY <1>3, <2>2, <2>3, Zenon
<1>9. \A s \in View(k) : s.gen < GenAfterTicket(k)
  BY <1>1, <1>2, <1>5, <1>6, <1>7 DEF GenAfterTicket
<1>10. GenAfter(k.packet) \in Nat /\ next_gen <= GenAfter(k.packet)
  BY GenerationsGrow, Zenon
<1> QED BY <1>4, <1>5, <1>8, <1>9, <1>10, Zenon

\* Publishing a ticket, in any outcome, keeps the order.
LEMMA PublishOrder ==
  ASSUME DeleteOrder, NEW t \in Threads, NEW k \in tickets, Publishes(t, k)
  PROVE  SlotOrder' /\ TicketOrder' /\ SegmentOrder' /\ DeletesOnlyEarlier'
<1>1. PICK error \in BOOLEAN : Retire(t, k, error)
  BY PublishControl, Zenon DEF Publishes
<1>2. /\ UNCHANGED <<log, handed, next_seq, docs, private, slice, at, read, commit>>
      /\ tickets' = tickets \ {k} /\ k.no = next_publish
      /\ pc[t] = "publish"
      /\ \E l \in Returns \union {"publish"} : pc' = [pc EXCEPT ![t] = l]
  BY <1>1, Types, LabelFacts, Zenon DEF Publishes, Publish, PublishApplyFails, Abandon, MayPublish,
     Retire, Goto, logVars, slotVars, ThreadTypeOK
<1>3. SameWindows
  BY <1>2, Types, Zenon DEF SameWindows, ThreadTypeOK, Returns
<1>4. SlotOrder'
  <2>1. handed \in Nat /\ handed <= Len(log)
    BY OrderTypes, Zenon DEF DeleteOrder, SlotOrder
  <2> QED BY <1>2, <1>3, <2>1, SlotOrderFrame, Zenon
\* the view the stream is applied to: with the ticket's segment, or, abandoned,
\* without it
<1>5. PICK S \in {segs, View(k)} :
         /\ ApplyAll(S, Pushed(k.packet)) \/ ApplySome(S, Pushed(k.packet))
         /\ \A s \in S : s.gen < next_gen'
         /\ next_gen' \in Nat /\ GenAfter(k.packet) <= next_gen'
  <2>1. CASE Publish(t, k) \/ PublishApplyFails(t, k)
    <3>1. /\ ApplyAll(View(k), Pushed(k.packet)) \/ ApplySome(View(k), Pushed(k.packet))
          /\ next_gen' = GenAfterTicket(k)
      BY <2>1, Zenon DEF Publish, PublishApplyFails, ApplyPackets, ApplyPacketsFails
    <3>2. GenAfterTicket(k) \in Nat /\ GenAfter(k.packet) <= GenAfterTicket(k)
      BY GenerationsGrow, Zenon
    <3>3. \A s \in View(k) : s.gen < GenAfterTicket(k)
      BY PushedOrder, Zenon
    <3> QED BY <3>1, <3>2, <3>3, Zenon
  <2>2. CASE Abandon(t, k)
    <3>1. /\ ApplyAll(segs, Pushed(k.packet)) \/ ApplySome(segs, Pushed(k.packet))
          /\ next_gen' = GenAfter(k.packet)
      BY <2>2, Zenon DEF Abandon, AbandonedPacket
    <3>2. GenAfter(k.packet) \in Nat /\ GenAfter(k.packet) <= GenAfter(k.packet)
      BY GenerationsGrow
    <3>3. \A s \in segs : s.gen < GenAfter(k.packet)
      BY PushedOrder, Zenon
    <3> QED BY <3>1, <3>2, <3>3, Zenon
  <2> QED BY <2>1, <2>2, Zenon DEF Publishes
<1>6. S \in SUBSET SegmentType /\ Pushed(k.packet) \in Packets /\ S \subseteq View(k)
  BY OrderTypes, SegmentFields, PushedType, TicketFields, Types, Zenon DEF View
<1>7. ASSUME NEW s \in S
      PROVE  s \in segs \/ (s = Segment(k) /\ s.docs = DocSet(k.docs))
  BY <1>6, SegmentFields, Zenon DEF View
<1>8. /\ stream' \subseteq Pushed(k.packet)
      /\ \A r \in segs' : /\ \E s \in S : r.docs = s.docs /\ r.gen = s.gen
                          /\ \A pair \in r.dels : pair[2] < pair[1]
  <2>1. \A s \in S : \A pair \in s.dels : pair[2] < pair[1]
    BY <1>7, SegmentFields, Zenon DEF DeleteOrder, DeletesOnlyEarlier
  <2>2. \A s \in S, q \in Pushed(k.packet) :
           AppliesTo(q, s) => \A n \in q.nodes, d \in s.docs : d < n
    BY <1>6, PushedOrder, Zenon
  <2> QED BY <1>5, <1>6, <2>1, <2>2, ApplyOrder, Zenon
<1>9. DeletesOnlyEarlier'
  BY <1>2, <1>8, Zenon DEF DeleteOrder, DeletesOnlyEarlier
<1>10. SegmentOrder'
  <2>1. ASSUME NEW s \in S, NEW d \in s.docs
        PROVE  d < next_seq /\ \A p \in DOMAIN log : p > handed => d < log[p]
    <3>1. CASE s \in segs
      BY <3>1, Zenon DEF DeleteOrder, SegmentOrder
    <3>2. CASE s.docs = DocSet(k.docs)
      <4>1. PICK j \in DOMAIN k.docs : d = k.docs[j]
        BY <3>2, Zenon DEF DocSet
      <4>2. k.docs[j] < next_seq /\ LogLater(k.docs, handed)
        BY Zenon DEF DeleteOrder, TicketOrder
      <4> QED BY <4>1, <4>2, Zenon DEF LogLater
    <3> QED BY <1>7, <3>1, <3>2, Zenon
  <2>2. ASSUME NEW r \in segs'
        PROVE  /\ r.gen < next_gen'
               /\ \A d \in r.docs : d < next_seq /\ \A p \in DOMAIN log : p > handed => d < log[p]
               /\ \A q \in stream' : AppliesTo(q, r) => \A n \in q.nodes, d \in r.docs : d < n
    <3>1. PICK s \in S : r.docs = s.docs /\ r.gen = s.gen
      BY <1>8, Zenon
    <3> QED BY <1>5, <1>6, <1>8, <2>1, <3>1, PushedOrder, Zenon DEF AppliesTo
  <2>3. ASSUME NEW q \in stream' PROVE q.gen < next_gen'
    <3>1. q.gen \in Nat
      BY <1>6, <1>8, Zenon DEF Packets, Packet
    <3>2. q.gen < GenAfter(k.packet) /\ GenAfter(k.packet) \in Nat
      BY <1>8, PushedOrder, Zenon
    <3> QED BY <1>5, <3>1, <3>2
  <2>4. ASSUME NEW s \in commit.segs PROVE s.gen < next_gen' /\ \A d \in s.docs : d < next_seq
    <3>1. s.gen \in Nat /\ s.gen < next_gen /\ next_gen \in Nat
      BY OrderTypes, Zenon DEF DeleteOrder, SegmentOrder, SegmentType
    <3>2. next_gen <= GenAfter(k.packet) /\ GenAfter(k.packet) \in Nat
      BY GenerationsGrow, Zenon
    <3>3. next_gen' \in Nat /\ GenAfter(k.packet) <= next_gen'
      BY <1>5, Zenon
    <3>4. s.gen < next_gen'
      BY <3>1, <3>2, <3>3
    <3> QED BY <3>4, Zenon DEF DeleteOrder, SegmentOrder
  <2> QED BY <1>2, <2>2, <2>3, <2>4, Zenon DEF SegmentOrder, AppliesTo
<1>11. TicketOrder'
  <2>1. ASSUME NEW m \in tickets' PROVE m \in tickets /\ m.no > k.no
    <3>1. m.no \in Nat /\ k.no \in Nat /\ k.no <= m.no /\ m.no # k.no
      BY <1>2, TicketFields, Zenon DEF DeleteOrder, TicketNumbers
    <3> QED BY <1>2, <3>1
  <2>2. ASSUME NEW m \in tickets', NEW r \in segs', NEW d \in r.docs, NEW n \in m.packet
        PROVE  d < n
    <3>1. PICK s \in S : r.docs = s.docs
      BY <1>8, Zenon
    <3>2. CASE s \in segs
      BY <2>1, <3>1, <3>2, Zenon DEF DeleteOrder, TicketOrder
    <3>3. CASE s.docs = DocSet(k.docs)
      <4>1. PICK j \in DOMAIN k.docs : d = k.docs[j]
        BY <3>1, <3>3, Zenon DEF DocSet
      <4>2. k.docs[j] < n
        BY <2>1, Zenon DEF DeleteOrder, TicketOrder
      <4> QED BY <4>1, <4>2, Zenon
    <3> QED BY <1>7, <3>2, <3>3, Zenon
  <2> QED BY <1>2, <2>1, <2>2, Zenon DEF DeleteOrder, TicketOrder, OwnDeletesLater, LogLater
<1> QED BY <1>4, <1>9, <1>10, <1>11, Zenon

----------------------------------------------------------------------------
(* Every step *)

\* A step that changes no window, and keeps the log, the slots, the tickets and
\* the control plane, keeps the order.
LEMMA FrameOrder ==
  ASSUME DeleteOrder, SameWindows, UNCHANGED <<log, handed, next_seq>>,
         UNCHANGED <<docs, private, slice>>, UNCHANGED tickets, UNCHANGED coreVars
  PROVE  SlotOrder' /\ TicketOrder' /\ SegmentOrder' /\ DeletesOnlyEarlier'
<1>1. handed \in Nat /\ handed <= Len(log) /\ UNCHANGED segs
  BY OrderTypes, Zenon DEF DeleteOrder, SlotOrder, coreVars
<1> QED BY <1>1, SlotOrderFrame, TicketOrderFrame, SegmentOrderFrame, Zenon

\* The steps that take a buffer with begin_flush keep the order.
LEMMA FlushSteps ==
  ASSUME DeleteOrder, NEW t \in Threads,
         \/ PreUpdate(t) \/ PostUpdate(t) \/ SlotFull(t) \/ TicketNext(t)
         \/ \E i \in Slots : FlushNextBuffer(t, i) \/ \E p \in 1..Partitions : Evict(t, i, p)
  PROVE  SlotOrder' /\ TicketOrder' /\ SegmentOrder' /\ DeletesOnlyEarlier'
<1> DEFINE Goal == SlotOrder' /\ TicketOrder' /\ SegmentOrder' /\ DeletesOnlyEarlier'
<1>1. /\ pending \in SUBSET Slots /\ 0 \in 0..Partitions /\ \A p \in 1..Partitions : p \in 0..Partitions
  BY Types DEF SlotTypeOK
<1>2. pc \in [Threads -> Labels] /\ at \in [Threads -> 0..NumSlots] /\ read \in [Threads -> LogRead]
  BY Types, Zenon DEF ThreadTypeOK
<1>3. CASE PreUpdate(t) \/ PostUpdate(t)
  <2>1. PICK i \in pending : owner[i] = None /\ BeginFlush(i, 0, pending)
    BY <1>3, Zenon DEF PreUpdate, PostUpdate, TakePending
  <2>2. /\ pc[t] # "apply" /\ pc' = [pc EXCEPT ![t] = "publish"] /\ UNCHANGED <<at, read>>
        /\ UNCHANGED coreVars
    BY <1>3, Zenon DEF PreUpdate, PostUpdate, TakePending, Goto
  <2>3. SameWindows /\ InWindow(i) = {}
    BY <1>1, <2>1, <2>2, Moves, FreeSlot, Zenon
  <2> QED BY <1>1, <2>1, <2>2, <2>3, BeginFlushOrder, Zenon
<1>4. ASSUME NEW i \in Slots, FlushNextBuffer(t, i) PROVE Goal
  <2>1. /\ owner[i] = None /\ BeginFlush(i, 0, pending)
        /\ pc[t] # "apply" /\ pc' = [pc EXCEPT ![t] = "publish"] /\ UNCHANGED <<at, read>>
        /\ UNCHANGED coreVars
    BY <1>4, Zenon DEF FlushNextBuffer, Calls, Goto
  <2>2. SameWindows /\ InWindow(i) = {}
    BY <2>1, Moves, FreeSlot, Zenon
  <2> QED BY <1>1, <2>1, <2>2, BeginFlushOrder, Zenon
<1>5. ASSUME NEW i \in Slots, NEW p \in 1..Partitions, Evict(t, i, p) PROVE Goal
  <2>1. /\ owner[i] = None /\ BeginFlush(i, p, pending)
        /\ pc[t] # "apply" /\ pc' = [pc EXCEPT ![t] = "log"]
        /\ at' = [at EXCEPT ![t] = i] /\ UNCHANGED read /\ UNCHANGED coreVars
    BY <1>5, Zenon DEF Evict, CallsAdd, Calls, Goto
  <2>2. SameWindows /\ InWindow(i) = {}
    BY <1>2, <2>1, Moves, FreeSlot, Zenon
  <2> QED BY <1>1, <2>1, <2>2, BeginFlushOrder, Zenon
<1>6. CASE SlotFull(t)
  <2>1. PICK m \in SUBSET Slots : BeginFlush(at[t], 0, m)
    BY <1>6, Zenon DEF SlotFull
  <2>2. /\ pc[t] = "full" /\ pc' = [pc EXCEPT ![t] = "publish"]
        /\ at' = [at EXCEPT ![t] = 0] /\ read' = [read EXCEPT ![t] = NoRead]
        /\ UNCHANGED coreVars
    BY <1>6, Zenon DEF SlotFull, ReleaseSlot, Goto
  <2>3. at[t] \in Slots /\ owner[at[t]] = t
    BY <2>2, Types, Zenon DEF SlotsOwned
  <2>4. SameWindows /\ InWindow(at[t]) = {}
    BY <1>2, <2>2, <2>3, Moves, FreeSlot, Zenon
  <2> QED BY <1>1, <2>1, <2>2, <2>3, <2>4, BeginFlushOrder, Zenon
<1>7. CASE TicketNext(t)
  <2>1. /\ pc[t] = "ticket" /\ at' = [at EXCEPT ![t] = at[t] + 1] /\ UNCHANGED <<pc, read>>
        /\ UNCHANGED coreVars
    BY <1>7, Zenon DEF TicketNext
  <2>2. SameWindows /\ \A i \in Slots : InWindow(i) = {}
    BY <1>2, <2>1, NoWindows, Zenon DEF SameWindows, InWindow
  <2>3. at[t] + 1 \in Slots
    <3>1. at[t] + 1 <= NumSlots
      BY <1>7, Zenon DEF TicketNext
    <3>2. at[t] \in 0..NumSlots
      BY Types, Zenon DEF ThreadTypeOK
    <3> QED BY <3>1, <3>2 DEF Slots
  <2>4. CASE BeginFlush(at[t] + 1, 0, pending)
    BY <1>1, <2>1, <2>2, <2>3, <2>4, BeginFlushOrder, Zenon
  <2>5. CASE UNCHANGED <<logVars, docs, private, slice, partition, ticketVars, pending, held>>
    BY <2>1, <2>2, <2>5, FrameOrder, Zenon DEF logVars, ticketVars
  <2> QED BY <1>7, <2>4, <2>5, Zenon DEF TicketNext
<1> QED BY <1>3, <1>4, <1>5, <1>6, <1>7, Zenon

\* The steps that buffer documents keep the order.
LEMMA AddSteps ==
  ASSUME DeleteOrder, NEW t \in Threads, NEW i \in Slots, NEW p \in 0..Partitions,
         NEW c \in 1..MaxBlock, NEW d \in BOOLEAN, Buffer(t, i, p, c, d),
         pc[t] # "apply", owner[i] \in {None, t}
  PROVE  SlotOrder' /\ TicketOrder' /\ SegmentOrder' /\ DeletesOnlyEarlier'
<1>1. InWindow(i) = {}
  BY FreeSlot, Zenon
<1>2. LogOperation(d) /\ UNCHANGED coreVars /\ UNCHANGED tickets
  BY Zenon DEF Buffer, ticketVars
<1> QED BY <1>1, <1>2, BufferOrder, LogOperationOrder, Zenon

\* The steps that touch no document and no delete keep the order.
LEMMA OtherSteps ==
  ASSUME DeleteOrder, NEW t \in Threads,
         \/ RefuseAdd(t) \/ SlotNotFull(t) \/ PostUpdateNone(t) \/ ApplyAllDeletesSkip(t)
         \/ LockNext(t) \/ EndFullFlush(t) \/ \E j \in FullFlushJobs : StartFullFlush(t, j)
  PROVE  SlotOrder' /\ TicketOrder' /\ SegmentOrder' /\ DeletesOnlyEarlier'
<1>1. pc \in [Threads -> Labels] /\ at \in [Threads -> 0..NumSlots] /\ read \in [Threads -> LogRead]
  BY Types, Zenon DEF ThreadTypeOK
<1>2. /\ UNCHANGED <<log, handed, next_seq>> /\ UNCHANGED <<docs, private, slice>>
      /\ UNCHANGED tickets /\ UNCHANGED coreVars
  BY Zenon DEF RefuseAdd, SlotNotFull, ReleaseSlot, PostUpdateNone, ApplyAllDeletesSkip, LockNext,
     EndFullFlush, StartFullFlush, logVars, slotVars, ticketVars
<1>3. /\ pc[t] # "apply"
      /\ \E l \in Labels \ {"apply"} : pc' = [pc EXCEPT ![t] = l]
  <2>1. CASE RefuseAdd(t) \/ SlotNotFull(t)
    BY <2>1, Zenon DEF RefuseAdd, SlotNotFull, AfterAdd, Goto, Labels
  <2>2. CASE PostUpdateNone(t) \/ ApplyAllDeletesSkip(t) \/ EndFullFlush(t)
             \/ \E j \in FullFlushJobs : StartFullFlush(t, j)
    BY <2>2, Zenon DEF PostUpdateNone, ApplyAllDeletesSkip, EndFullFlush, StartFullFlush, Calls, Goto, Labels
  <2>3. CASE LockNext(t)
    <3>1. pc[t] = "lock" /\ (pc' = pc \/ \E l \in {"ticket", "abort"} : pc' = [pc EXCEPT ![t] = l])
      BY <2>3, Zenon DEF LockNext, Goto
    <3>2. pc = [pc EXCEPT ![t] = "lock"]
      BY <1>1, <3>1, Zenon
    <3> QED BY <3>1, <3>2, Zenon DEF Labels
  <2> QED BY <2>1, <2>2, <2>3, Zenon
<1>4. \A u \in Threads \ {t} : at'[u] = at[u] /\ read'[u] = read[u]
  BY <1>1, Zenon DEF RefuseAdd, SlotNotFull, ReleaseSlot, PostUpdateNone, ApplyAllDeletesSkip,
     LockNext, EndFullFlush, StartFullFlush
<1>5. SameWindows
  BY <1>3, <1>4, Moves, Zenon
<1> QED BY <1>2, <1>5, FrameOrder, Zenon

\* Every step keeps the order of deletes and documents.
LEMMA OrderStep ==
  DeleteOrder /\ [Next]_vars => SlotOrder' /\ TicketOrder' /\ SegmentOrder' /\ DeletesOnlyEarlier'
<1> SUFFICES ASSUME DeleteOrder, [Next]_vars
             PROVE  SlotOrder' /\ TicketOrder' /\ SegmentOrder' /\ DeletesOnlyEarlier'
  BY Zenon
<1> DEFINE Goal == SlotOrder' /\ TicketOrder' /\ SegmentOrder' /\ DeletesOnlyEarlier'
<1>1. CASE UNCHANGED vars \/ Terminated
  <2>1. /\ UNCHANGED <<log, handed, next_seq>> /\ UNCHANGED <<docs, private, slice>>
        /\ UNCHANGED tickets /\ UNCHANGED coreVars /\ SameWindows
    BY <1>1, Zenon DEF Terminated, vars, logVars, slotVars, ticketVars, threadVars, SameWindows
  <2> QED BY <2>1, FrameOrder, Zenon
<1>2. ASSUME NEW t \in Threads, Step(t) PROVE Goal
  <2>1. CASE ApplyAllDeletes(t) \/ TakeCut(t)
    <3>1. /\ DeletesTicket /\ UNCHANGED coreVars /\ UNCHANGED <<docs, private, slice>>
          /\ pc[t] # "apply" /\ pc' = [pc EXCEPT ![t] = "publish"] /\ UNCHANGED read
          /\ \A u \in Threads \ {t} : at'[u] = at[u]
      BY <2>1, Types, Zenon DEF ApplyAllDeletes, TakeCut, slotVars, Goto, ThreadTypeOK
    <3>2. SameWindows
      BY <3>1, Moves, Zenon
    <3> QED BY <3>1, <3>2, DeletesTicketOrder, Zenon
  <2>2. ASSUME NEW c \in 1..MaxBlock, NEW d \in BOOLEAN, AddAfterEviction(t, c, d) PROVE Goal
    <3>1. pc[t] = "log" /\ Buffer(t, at[t], partition[at[t]], c, d)
      BY <2>2, Zenon DEF AddAfterEviction
    <3>2. at[t] \in Slots /\ owner[at[t]] = t /\ partition[at[t]] \in 0..Partitions
      <4>1. at[t] \in Slots /\ owner[at[t]] = t
        BY <3>1, Types, Zenon DEF SlotsOwned
      <4>2. partition \in [Slots -> 0..Partitions]
        BY Types, Zenon DEF SlotTypeOK
      <4> QED BY <4>1, <4>2, Zenon
    <3> QED BY <3>1, <3>2, AddSteps
  <2>3. CASE \E k \in tickets : Publishes(t, k)
    BY <2>3, PublishOrder, Zenon
  <2>4. CASE SlotFull(t) \/ PostUpdate(t) \/ TicketNext(t)
    BY <2>4, FlushSteps, Zenon
  <2>5. CASE RefuseAdd(t) \/ SlotNotFull(t) \/ PostUpdateNone(t) \/ ApplyAllDeletesSkip(t)
             \/ LockNext(t) \/ EndFullFlush(t)
    BY <2>5, OtherSteps, Zenon
  <2>6. CASE ApplySlice(t) \/ Commit(t) \/ AbortSlots(t) \/ Drain(t)
    BY <2>6, ApplySliceOrder, CommitOrder, AbortSlotsOrder, DrainOrder, Zenon
  <2> QED BY <1>2, <2>1, <2>2, <2>3, <2>4, <2>5, <2>6, Zenon DEF Step, Publishes
<1>3. ASSUME NEW t \in Threads, Call(t) PROVE Goal
  <2>1. CASE BufferDelete(t)
    <3>1. /\ LogOperation(TRUE) /\ UNCHANGED coreVars /\ UNCHANGED <<docs, private, slice>>
          /\ UNCHANGED tickets /\ UNCHANGED <<at, read>> /\ pc[t] # "apply"
          /\ \E l \in {"deletes", "idle"} : pc' = [pc EXCEPT ![t] = l]
      BY <2>1, Zenon DEF BufferDelete, Calls, AfterFlush, slotVars, ticketVars, Goto
    <3>2. SameWindows
      BY <3>1, Moves, Zenon
    <3>3. TRUE \in BOOLEAN
      BY Zenon
    <3> QED BY <3>1, <3>2, <3>3, BufferDeleteOrder, LogOperationOrder, Zenon
  <2>2. ASSUME NEW i \in Slots, NEW p \in 1..Partitions, NEW c \in 1..MaxBlock,
               NEW d \in BOOLEAN, AddDocuments(t, i, p, c, d)
        PROVE  Goal
    <3>1. pc[t] # "apply" /\ owner[i] = None /\ Buffer(t, i, p, c, d)
      BY <2>2, Zenon DEF AddDocuments, CallsAdd, Calls
    <3>2. p \in 0..Partitions
      OBVIOUS
    <3> QED BY <3>1, <3>2, AddSteps, Zenon
  <2>3. CASE \/ PreUpdate(t)
             \/ \E i \in Slots : FlushNextBuffer(t, i) \/ \E p \in 1..Partitions : Evict(t, i, p)
    BY <2>3, FlushSteps, Zenon
  <2>4. CASE \E j \in FullFlushJobs : StartFullFlush(t, j)
    BY <2>4, OtherSteps, Zenon
  <2> QED BY <1>3, <2>1, <2>2, <2>3, <2>4, Zenon DEF Call
<1> QED BY <1>1, <1>2, <1>3, Zenon DEF Next
=============================================================================
