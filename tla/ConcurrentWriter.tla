-------------------------- MODULE ConcurrentWriter --------------------------
(***************************************************************************)
(* ConcurrentIndexWriter (concurrent_writer.rs): indexing threads buffer   *)
(* documents in slots, deletes go to one log, full buffers become segments *)
(* published in ticket order, and a commit cuts through the operations of  *)
(* all threads.  Composes the delete log (DeleteLog) and the wrapped       *)
(* writer (ControlPlane).                                                  *)
(*                                                                         *)
(* A step is what a thread does between two points where another thread    *)
(* can see or change what it works on: one hold of the log's lock, or of   *)
(* the control lock, with the work under the thread's own slot lock folded *)
(* into the step next to it.                                               *)
(***************************************************************************)
EXTENDS DeleteLog, ControlPlane

CONSTANTS
    Threads,            \* the threads calling the writer
    None,               \* no thread
    MaxBufferedDocs,    \* max_buffered_docs, at least 2
    MaxBlock,           \* bound: documents in one add_documents block
    Partitions,         \* segment partitions; 1 = the writer does not partition
    RamBuffer,          \* whether a RAM buffer is configured
    Jobs                \* the operations the threads may call

ASSUME WriterAssumption ==
    /\ MaxBufferedDocs \in Nat
    /\ MaxBlock \in Nat \ {0}
    /\ Partitions \in Nat \ {0}
    /\ RamBuffer \in BOOLEAN
    /\ None \notin Threads

VARIABLES
    \* the slots (Dwpt), each behind its lock
    docs,           \* buffered documents, in the order they were added
    private,        \* <<delete, limit>>: reaches the first `limit` documents
    slice,          \* the log position up to which `private` is current
    partition,      \* the partition of the buffered documents, 0 for none
    owner,          \* the thread holding the slot's lock
    \* tickets, under the control lock
    tickets,        \* the flushes taken and not yet published
    next_ticket,
    next_publish,
    barrier,        \* the first ticket held back by a commit, 0 for none
    full_flush,     \* the holder of the full-flush lock
    \* the flush policy's decisions, under the accounting lock
    pending,        \* the slots marked for flushing
    apply_all,      \* FlushControl.apply_all_deletes
    \* the threads
    pc,             \* where a thread is
    ret,            \* where it goes once its tickets are published
    job,            \* the full flush it runs
    at,             \* the slot it holds; how many slots a full flush has done
    read,           \* what an add copied out of the log
    held,           \* the tickets it must publish
    failed,         \* whether a ticket of its full flush failed
    last_seq,       \* the last operation before its cut
    ops,            \* operations started so far (bounded)
    \* history, read by no guard
    adds,           \* documents acknowledged and not dropped since
    dels,           \* deletes acknowledged and not dropped since
    missed          \* pairs <<delete, document>> trimmed unseen by a slot

slotVars == <<docs, private, slice, partition, owner>>
ticketVars == <<tickets, next_ticket, next_publish, barrier>>
policyVars == <<pending, apply_all>>
threadVars == <<pc, ret, job, at, read, held, failed, last_seq, ops>>
historyVars == <<adds, dels, missed>>
vars == <<logVars, coreVars, slotVars, ticketVars, full_flush, policyVars,
          threadVars, historyVars>>

NoRead == [before |-> 0, nodes |-> {}, end |-> 0]

Init ==
    /\ LogInit
    /\ ControlInit
    /\ docs = [i \in Slots |-> <<>>]
    /\ private = [i \in Slots |-> {}]
    /\ slice = [i \in Slots |-> 0]
    /\ partition = [i \in Slots |-> 0]
    /\ owner = [i \in Slots |-> None]
    /\ tickets = {}
    /\ next_ticket = 1
    /\ next_publish = 1
    /\ barrier = 0
    /\ full_flush = None
    /\ pending = {}
    /\ apply_all = FALSE
    /\ pc = [t \in Threads |-> "idle"]
    /\ ret = [t \in Threads |-> "idle"]
    /\ job = [t \in Threads |-> "none"]
    /\ at = [t \in Threads |-> 0]
    /\ read = [t \in Threads |-> NoRead]
    /\ held = [t \in Threads |-> {}]
    /\ failed = [t \in Threads |-> FALSE]
    /\ last_seq = [t \in Threads |-> 0]
    /\ ops = 0
    /\ adds = {}
    /\ dels = {}
    /\ missed = {}

----------------------------------------------------------------------------
(* The parts actions are made of *)

Goto(t, label) == pc' = [pc EXCEPT ![t] = label]

\* A thread calls an operation of kind k.
Calls(t, k) ==
    /\ pc[t] = "idle"
    /\ k \in Jobs
    /\ ops < MaxOps
    /\ ops' = ops + 1

\* An add goes on: called just now, or after helping with a marked buffer.
CallsAdd(t, k) ==
    \/ Calls(t, k)
    \/ pc[t] = "pre" /\ k \in Jobs /\ UNCHANGED ops

\* Where an add goes once its own buffer is published, and when it had none.
AfterFlush == IF RamBuffer THEN "deletes" ELSE "idle"
AfterAdd == IF RamBuffer THEN "post" ELSE "idle"

\* Mutant: the flush forgets to close the slot's slice.
ClosedPrivateStale(i) == private[i]

\* A flush closes the slot's slice: every entry since its last add came after
\* all of its documents.
ClosedPrivate(i) == private[i] \union (Since(slice[i]) \X {Len(docs[i])})

\* Mutant: the buffer is copied and stays in the slot.
BeginFlushCopies(i, p, marked) ==
    /\ docs[i] # <<>>
    /\ tickets' = tickets \union
         {[no |-> next_ticket, docs |-> docs[i], private |-> ClosedPrivate(i),
           packet |-> Unhanded]}
    /\ next_ticket' = next_ticket + 1
    /\ TakeUnhanded
    /\ docs' = docs
    /\ private' = [private EXCEPT ![i] = {}]
    /\ slice' = [slice EXCEPT ![i] = End]
    /\ partition' = [partition EXCEPT ![i] = p]
    /\ slices' = [slices EXCEPT ![i] = EMPTY_SLOT]
    /\ pending' = marked \ {i}
    /\ UNCHANGED <<log, base, next_seq, next_publish, barrier>>

\* begin_flush: slot i's buffer is taken with a ticket.  One read of the log
\* closes the slot's slice, reaching all of its documents, and freezes what the
\* published segments owe.  The slot is left for partition p (0 for none), and
\* checked out of the marked ones.
BeginFlush(i, p, marked) ==
    /\ docs[i] # <<>>
    /\ tickets' = tickets \union
         {[no |-> next_ticket, docs |-> docs[i], private |-> ClosedPrivate(i),
           packet |-> Unhanded]}
    /\ next_ticket' = next_ticket + 1
    /\ TakeUnhanded
    /\ docs' = [docs EXCEPT ![i] = <<>>]
    /\ private' = [private EXCEPT ![i] = {}]
    /\ slice' = [slice EXCEPT ![i] = End]
    /\ partition' = [partition EXCEPT ![i] = p]
    /\ slices' = [slices EXCEPT ![i] = EMPTY_SLOT]
    /\ pending' = marked \ {i}
    /\ UNCHANGED <<log, base, next_seq, next_publish, barrier>>

\* Mutant: the ticket's number is not used up.
DeletesTicketReused ==
    /\ tickets' = tickets \union
         {[no |-> next_ticket, docs |-> <<>>, packet |-> Unhanded, private |-> {}]}
    /\ next_ticket' = next_ticket
    /\ TakeUnhanded
    /\ UNCHANGED <<log, base, next_seq, slices, next_publish>>

\* A ticket with no segment: what the published segments owe as of now.
DeletesTicket ==
    /\ tickets' = tickets \union
         {[no |-> next_ticket, docs |-> <<>>, packet |-> Unhanded, private |-> {}]}
    /\ next_ticket' = next_ticket + 1
    /\ TakeUnhanded
    /\ UNCHANGED <<log, base, next_seq, slices, next_publish>>

\* The pairs a buffer's own deletes reach: entry <<n, limit>> the documents
\* before position `limit`.
PrivatePairs(buffer, own) ==
    UNION {{<<e[1], buffer[j]>> : j \in 1..e[2]} : e \in own}

\* The documents of a buffer, as a set.
DocSet(buffer) == {buffer[j] : j \in DOMAIN buffer}

----------------------------------------------------------------------------
(* Adds and updates: add_with *)

\* pre_update and postUpdate: the thread takes a marked buffer whose slot is
\* free.  Whether it looks is read from a flag any caller may change
\* (check_pending_flush_on_update), so it may also not look.
TakePending(t) ==
    \E i \in pending :
      /\ owner[i] = None
      /\ BeginFlush(i, 0, pending)
      /\ held' = [held EXCEPT ![t] = {next_ticket}]
      /\ Goto(t, "publish")
      /\ UNCHANGED <<coreVars, owner, full_flush, apply_all, job, at, read,
                     failed, last_seq, historyVars>>

PreUpdate(t) ==
    /\ "add" \in Jobs \/ "update" \in Jobs
    /\ \/ pc[t] = "idle" /\ ops < MaxOps /\ ops' = ops + 1
       \/ pc[t] = "pre" /\ UNCHANGED ops
    /\ TakePending(t)
    /\ ret' = [ret EXCEPT ![t] = "pre"]

\* The slot acquired holds another partition than p: it is flushed first.
Evict(t, i, p) ==
    /\ \E k \in {"add", "update"} : CallsAdd(t, k)
    /\ owner[i] = None
    /\ partition[i] # p
    /\ BeginFlush(i, p, pending)
    /\ owner' = [owner EXCEPT ![i] = t]
    /\ at' = [at EXCEPT ![t] = i]
    /\ held' = [held EXCEPT ![t] = {next_ticket}]
    /\ Goto(t, "log")
    /\ UNCHANGED <<coreVars, full_flush, apply_all, ret, job, read, failed,
                   last_seq, historyVars>>

\* The documents (count of them, a block) go into slot i, then the log's lock
\* is taken once: the update's delete is appended, the sequence number taken,
\* the entries the slot has not seen are copied out, the log is trimmed.
\* A slot that held nothing has nothing an entry could reach.
Buffer(t, i, p, count, isDelete) ==
    LET before == Len(docs[i])
        copied == IF before = 0 THEN {} ELSE Since(slice[i])
    IN  /\ LogOperation(isDelete)
        /\ docs' = [docs EXCEPT ![i] = @ \o [j \in 1..count |-> next_seq]]
        /\ partition' = [partition EXCEPT ![i] = p]
        /\ read' = [read EXCEPT ![t] =
             [before |-> before,
              nodes  |-> IF isDelete /\ before > 0 THEN copied \union {next_seq}
                                                   ELSE copied,
              end    |-> Len(log')]]
        /\ owner' = [owner EXCEPT ![i] = t]
        /\ at' = [at EXCEPT ![t] = i]
        /\ adds' = adds \union {next_seq}
        /\ dels' = IF isDelete THEN dels \union {next_seq} ELSE dels
        /\ Goto(t, "apply")
        /\ UNCHANGED <<coreVars, slices, private, slice, ticketVars, full_flush,
                       policyVars, ret, job, held, failed, last_seq, missed>>

\* A free slot is acquired that is empty or holds the same partition.
AddDocuments(t, i, p, count, isDelete) ==
    /\ CallsAdd(t, IF isDelete THEN "update" ELSE "add")
    /\ owner[i] = None
    /\ docs[i] = <<>> \/ partition[i] = p
    /\ Buffer(t, i, p, count, isDelete)

\* The add goes on in the slot it evicted.
AddAfterEviction(t, count, isDelete) ==
    /\ pc[t] = "log"
    /\ (IF isDelete THEN "update" ELSE "add") \in Jobs
    /\ UNCHANGED ops
    /\ Buffer(t, at[t], partition[at[t]], count, isDelete)

\* The documents are refused (their check, the document limit, or buffering
\* them failed): an evicted buffer is still published, its outcome ignored.
RefuseAdd(t) ==
    /\ pc[t] \in {"pre", "log"}
    /\ owner' = [i \in Slots |-> IF owner[i] = t THEN None ELSE owner[i]]
    /\ Goto(t, IF held[t] = {} THEN "idle" ELSE "publish")
    /\ ret' = [ret EXCEPT ![t] = "idle"]
    /\ at' = [at EXCEPT ![t] = 0]
    /\ UNCHANGED <<logVars, coreVars, docs, private, slice, partition,
                   ticketVars, full_flush, policyVars, job, read, held, failed,
                   last_seq, ops, historyVars>>

\* Mutant: the limit counts the documents just added.
LimitAfter(t) == Len(docs[at[t]])

\* How many of a slot's documents the entries an add copied reach: those the
\* slot held before it.
Limit(t) == read[t].before

\* apply_slice: what was copied reaches the documents the slot held before;
\* the slot's position is advertised only now.  An entry appended and trimmed
\* since the log was read is past finding: history notes it.
ApplySlice(t) ==
    LET i == at[t]
        r == read[t]
    IN  /\ pc[t] = "apply"
        /\ private' = [private EXCEPT ![i] = @ \union (r.nodes \X {Limit(t)})]
        /\ slice' = [slice EXCEPT ![i] = r.end]
        /\ slices' = [slices EXCEPT ![i] = r.end]
        /\ missed' = missed \union
             ({log[p] : p \in r.end + 1 .. base} \X DocSet(docs[i]))
        /\ Goto(t, "full")
        /\ UNCHANGED <<log, base, handed, next_seq, coreVars, docs, partition,
                       owner, ticketVars, full_flush, policyVars, ret, job, at,
                       read, held, failed, last_seq, ops, adds, dels>>

\* The slots whose documents the accounting knows of.
Counted == {j \in Slots : docs[j] # <<>> /\
              \A u \in Threads : at[u] = j /\ pc[u] \in {"apply", "full"}
                                   => read[u].before > 0}

\* What the flush policy leaves after an add to slot i: the marked slots, and
\* whether the deletes are to be applied.  A slot with enough documents is
\* marked; bytes are left out, so otherwise the largest slot may be any, the
\* deletes may be too large or not, the slot past its hard limit or not.
Marks(i, marked, all) ==
    IF i \in pending THEN marked = pending /\ all = apply_all
    ELSE IF Len(docs[i]) >= MaxBufferedDocs
      THEN marked = pending \union {i} /\ all = apply_all
      ELSE /\ apply_all => all
           /\ \E m \in {{}} \union {{j} : j \in (Counted \union {i}) \ pending} :
                marked \in {pending \union m, pending \union m \union {i}}

\* Without a RAM buffer only the count and the hard limit fill a slot.
Fills(i, full) == Len(docs[i]) >= MaxBufferedDocs => full

\* Whether slot i is full, and what the decision leaves marked.
Decides(i, full, marked, all) ==
    IF RamBuffer
      THEN Marks(i, marked, all) /\ full = (i \in marked)
      ELSE Fills(i, full) /\ marked = pending /\ all = apply_all

\* The flush decision under the slot's lock: a full slot is taken with a
\* ticket; the slot is released.
ReleaseSlot(t) ==
    /\ owner' = [owner EXCEPT ![at[t]] = None]
    /\ at' = [at EXCEPT ![t] = 0]
    /\ read' = [read EXCEPT ![t] = NoRead]
    /\ UNCHANGED <<coreVars, full_flush, job, failed, last_seq, ops, historyVars>>

SlotFull(t) ==
    /\ pc[t] = "full"
    /\ \E marked \in SUBSET Slots, all \in BOOLEAN :
         /\ Decides(at[t], TRUE, marked, all)
         /\ apply_all' = all
         /\ BeginFlush(at[t], 0, marked)
    /\ held' = [held EXCEPT ![t] = @ \union {next_ticket}]
    /\ Goto(t, "publish")
    /\ ret' = [ret EXCEPT ![t] = AfterFlush]
    /\ ReleaseSlot(t)

SlotNotFull(t) ==
    /\ pc[t] = "full"
    /\ \E marked \in SUBSET Slots, all \in BOOLEAN :
         /\ Decides(at[t], FALSE, marked, all)
         /\ apply_all' = all
         /\ pending' = marked
    /\ Goto(t, IF held[t] = {} THEN AfterAdd ELSE "publish")
    /\ ret' = [ret EXCEPT ![t] = AfterAdd]
    /\ ReleaseSlot(t)
    /\ UNCHANGED <<logVars, docs, private, slice, partition, ticketVars, held>>

\* postUpdate: one marked buffer is flushed, or none.
PostUpdate(t) ==
    /\ pc[t] = "post"
    /\ TakePending(t)
    /\ ret' = [ret EXCEPT ![t] = "deletes"]
    /\ UNCHANGED ops

PostUpdateNone(t) ==
    /\ pc[t] = "post"
    /\ Goto(t, "deletes")
    /\ UNCHANGED <<logVars, coreVars, slotVars, ticketVars, full_flush, policyVars,
                   ret, job, at, read, held, failed, last_seq, ops, historyVars>>

----------------------------------------------------------------------------
(* Deletes *)

\* buffer_delete: one hold of the log's lock.  With a RAM buffer the policy
\* may find the buffered deletes too large.
BufferDelete(t) ==
    /\ Calls(t, "delete")
    /\ LogOperation(TRUE)
    /\ dels' = dels \union {next_seq}
    /\ apply_all' \in IF RamBuffer THEN {apply_all, TRUE} ELSE {apply_all}
    /\ Goto(t, AfterFlush)
    /\ UNCHANGED <<coreVars, slices, slotVars, ticketVars, full_flush, pending,
                   ret, job, at, read, held, failed, last_seq, adds, missed>>

\* maybe_apply_all_deletes: never during a full flush.
ApplyAllDeletes(t) ==
    /\ pc[t] = "deletes"
    /\ full_flush = None
    /\ apply_all
    /\ apply_all' = FALSE
    /\ full_flush' = t
    /\ DeletesTicket
    /\ held' = [held EXCEPT ![t] = {next_ticket}]
    /\ Goto(t, "publish")
    /\ ret' = [ret EXCEPT ![t] = "unlock"]
    /\ UNCHANGED <<coreVars, slotVars, barrier, pending, job, at, read, failed,
                   last_seq, ops, historyVars>>

ApplyAllDeletesSkip(t) ==
    /\ pc[t] = "deletes"
    /\ full_flush # None \/ ~apply_all
    /\ Goto(t, "idle")
    /\ UNCHANGED <<logVars, coreVars, slotVars, ticketVars, full_flush, policyVars,
                   ret, job, at, read, held, failed, last_seq, ops, historyVars>>

----------------------------------------------------------------------------
(* Publishing: complete_flush and complete_cut, each ticket in its turn *)

\* wait_turn: every earlier ticket is published and no commit holds it back.
MayPublish(k) ==
    /\ k.no = next_publish
    /\ barrier # 0 => k.no < barrier

\* Mutant: no generation is used up for the segment.
SegmentNoGen(k) ==
    [docs |-> DocSet(k.docs),
     dels |-> PrivatePairs(k.docs, k.private),
     gen  |-> GenAfter(k.packet) - 1]

\* The segment of ticket k, its own deletes resolved while it was built.
\* Its generation is above every packet pushed before it.
Segment(k) ==
    [docs |-> DocSet(k.docs),
     dels |-> PrivatePairs(k.docs, k.private),
     gen  |-> GenAfter(k.packet)]

\* Mutant: a full flush also returns at its first error.
StopsAtError(t) == ret[t] # "unlock"

\* An add that sees an error returns at once, dropping a second batch it may
\* hold; a full flush waits for all of its batches.
StopsAt(t) == job[t] = "none" /\ ret[t] # "unlock"

\* retire: the ticket's turn is over, whatever its outcome.
Retire(t, k, error) ==
    LET rest == held[t] \ {k.no}
        stop == error /\ StopsAt(t)
    IN  /\ tickets' = tickets \ {k}
        /\ next_publish' = next_publish + 1
        /\ held' = [held EXCEPT ![t] = IF stop THEN {} ELSE rest]
        /\ failed' = [failed EXCEPT ![t] = @ \/ (error /\ job[t] # "none")]
        /\ Goto(t, IF stop THEN "idle" ELSE IF rest = {} THEN ret[t] ELSE "publish")
        /\ ret' = IF stop \/ rest = {} THEN [ret EXCEPT ![t] = "idle"] ELSE ret
        /\ UNCHANGED <<logVars, slotVars, next_ticket, barrier, full_flush,
                       policyVars, job, at, read, last_seq, ops, commit,
                       prepared, dels, missed>>

\* publish_segment_with: the frozen packet is pushed, the segment joins the
\* view above it, and the stream is applied.
View(k) == IF k.docs = <<>> THEN segs ELSE segs \union {Segment(k)}

GenAfterTicket(k) == IF k.docs = <<>> THEN GenAfter(k.packet) ELSE GenAfter(k.packet) + 1

Publish(t, k) ==
    /\ pc[t] = "publish"
    /\ k.no \in held[t]
    /\ MayPublish(k)
    /\ ApplyPackets(View(k), Pushed(k.packet))
    /\ next_gen' = GenAfterTicket(k)
    /\ UNCHANGED adds
    /\ Retire(t, k, FALSE)

\* Applying the stream fails: the segment is published, the packets kept.
PublishApplyFails(t, k) ==
    /\ pc[t] = "publish"
    /\ k.no \in held[t]
    /\ MayPublish(k)
    /\ ApplyPacketsFails(View(k), Pushed(k.packet))
    /\ next_gen' = GenAfterTicket(k)
    /\ UNCHANGED adds
    /\ Retire(t, k, TRUE)

\* Mutant: an abandoned ticket's frozen deletes go with it.
AbandonedPacketDropped(k) == Pushed({})

\* What an abandoned ticket still owes the published segments.
AbandonedPacket(k) == Pushed(k.packet)

\* The build failed: abandon.  Its documents are gone; the published segments
\* still get what the ticket froze, as far as applying it succeeds.
Abandon(t, k) ==
    /\ pc[t] = "publish"
    /\ k.no \in held[t]
    /\ MayPublish(k)
    /\ k.docs # <<>>
    /\ Fails
    /\ ApplyAll(segs, AbandonedPacket(k)) \/ ApplySome(segs, AbandonedPacket(k))
    /\ next_gen' = GenAfter(k.packet)
    /\ adds' = adds \ DocSet(k.docs)
    /\ Retire(t, k, TRUE)

----------------------------------------------------------------------------
(* Full flushes: flush, commit, delete_all and rollback *)

FullFlushJobs == {"flush", "commit", "delete_all", "rollback"}

\* The full-flush lock is taken; a thread waiting for it has not started.
StartFullFlush(t, j) ==
    /\ Calls(t, j)
    /\ full_flush = None
    /\ full_flush' = t
    /\ job' = [job EXCEPT ![t] = j]
    /\ at' = [at EXCEPT ![t] = 0]
    /\ Goto(t, "lock")
    /\ UNCHANGED <<logVars, coreVars, slotVars, ticketVars, policyVars, ret, read,
                   held, failed, last_seq, historyVars>>

\* Every slot is locked, lowest first.
LockNext(t) ==
    LET i == at[t] + 1
    IN  /\ pc[t] = "lock"
        /\ owner[i] = None
        /\ owner' = [owner EXCEPT ![i] = t]
        /\ IF i < NumSlots
             THEN at' = [at EXCEPT ![t] = i] /\ UNCHANGED pc
             ELSE /\ at' = [at EXCEPT ![t] = 0]
                  /\ Goto(t, IF job[t] \in {"flush", "commit"} THEN "ticket"
                                                              ELSE "abort")
        /\ UNCHANGED <<logVars, coreVars, docs, private, slice, partition,
                       ticketVars, full_flush, policyVars, ret, job, read, held,
                       failed, last_seq, ops, historyVars>>

\* flush_all tickets each buffer that holds documents, in slot order.
TicketNext(t) ==
    LET i == at[t] + 1
    IN  /\ pc[t] = "ticket"
        /\ i <= NumSlots
        /\ at' = [at EXCEPT ![t] = i]
        /\ \/ /\ BeginFlush(i, 0, pending)
              /\ held' = [held EXCEPT ![t] = @ \union {next_ticket}]
           \/ /\ docs[i] = <<>>
              /\ UNCHANGED <<logVars, docs, private, slice, partition,
                             ticketVars, pending, held>>
        /\ UNCHANGED <<coreVars, owner, full_flush, apply_all, pc, ret, job,
                       read, failed, last_seq, ops, historyVars>>

Unowned(t) == [i \in Slots |-> IF owner[i] = t THEN None ELSE owner[i]]

\* The last operation before a cut.
LastSeq == next_seq - 1

\* Mutant: off by one, the barrier is a ticket too late.
BarrierLate == next_ticket + 2

\* The first ticket a commit holds back.
Barrier == next_ticket + 1

\* The cut: a ticket of what the published segments owe as of now, and the
\* last operation's number, read together; a commit's barrier goes up, and
\* the slots are let go.
TakeCut(t) ==
    /\ pc[t] = "ticket"
    /\ at[t] = NumSlots
    /\ DeletesTicket
    /\ barrier' = IF job[t] = "commit" THEN Barrier ELSE barrier
    /\ last_seq' = [last_seq EXCEPT ![t] = LastSeq]
    /\ owner' = Unowned(t)
    /\ at' = [at EXCEPT ![t] = 0]
    /\ held' = [held EXCEPT ![t] = @ \union {next_ticket}]
    /\ Goto(t, "publish")
    /\ ret' = [ret EXCEPT ![t] = IF job[t] = "commit" THEN "commit" ELSE "unlock"]
    /\ UNCHANGED <<coreVars, docs, private, slice, partition, full_flush,
                   policyVars, job, read, failed, ops, historyVars>>

\* Once every ticket up to the cut is published: the commit is written, or
\* fails, or is not tried because a ticket of its own or the caller's
\* before_commit failed.
Commit(t) ==
    /\ pc[t] = "commit"
    /\ \/ ~failed[t] /\ CommitSegments(last_seq[t])
       \/ ~failed[t] /\ PrepareFails
       \/ ~failed[t] /\ FinishFails
       \/ ~failed[t] /\ PrepareRefused
       \/ UNCHANGED coreVars
    /\ Goto(t, "unlock")
    /\ UNCHANGED <<logVars, slotVars, ticketVars, full_flush, policyVars, ret,
                   job, at, read, held, failed, last_seq, ops, historyVars>>

\* Mutant: the barrier stays up after a commit.
LiftBarrierNever(t) == barrier' = barrier

\* BarrierGuard: a commit's barrier is lifted, however it ends.
LiftBarrier(t) == barrier' = IF job[t] = "commit" THEN 0 ELSE barrier

\* The end of a full flush, however it ends: a commit's barrier is lifted
\* and the full-flush lock released.
EndFullFlush(t) ==
    /\ pc[t] = "unlock"
    /\ LiftBarrier(t)
    /\ full_flush' = None
    /\ job' = [job EXCEPT ![t] = "none"]
    /\ failed' = [failed EXCEPT ![t] = FALSE]
    /\ last_seq' = [last_seq EXCEPT ![t] = 0]
    /\ Goto(t, "idle")
    /\ UNCHANGED <<logVars, coreVars, slotVars, tickets, next_ticket,
                   next_publish, policyVars, ret, at, read, held, ops,
                   historyVars>>

\* abort_slots: every buffer and its deletes are dropped, the slots kept locked.
AbortSlots(t) ==
    /\ pc[t] = "abort"
    /\ adds' = adds \ UNION {DocSet(docs[i]) : i \in Slots}
    /\ docs' = [i \in Slots |-> <<>>]
    /\ private' = [i \in Slots |-> {}]
    /\ slice' = [i \in Slots |-> 0]
    /\ partition' = [i \in Slots |-> 0]
    /\ slices' = [i \in Slots |-> EMPTY_SLOT]
    /\ pending' = {}
    /\ Goto(t, "drain")
    /\ UNCHANGED <<log, base, handed, next_seq, coreVars, owner, ticketVars,
                   full_flush, apply_all, ret, job, at, read, held, failed,
                   last_seq, ops, dels, missed>>

\* With every ticketed flush published, in one hold of the control lock: the
\* log is cleared and the view dropped or taken back; then the slots and the
\* full-flush lock are let go.
DropAll(t) ==
    /\ job[t] = "delete_all"
    /\ TakeSeq
    /\ \/ /\ DropAllSegments
          /\ adds' = {}
          /\ dels' = {}
       \/ /\ DropAllRefused
          /\ dels' = dels \ Unhanded
          /\ UNCHANGED adds

Rollback(t) ==
    /\ job[t] = "rollback"
    /\ UNCHANGED next_seq
    /\ \/ /\ RollbackView
          /\ adds' = DocsOf(commit.segs)
          /\ dels' = {n \in dels : n <= commit.seq}
       \/ /\ RollbackFails
          /\ dels' = dels \ Unhanded
          /\ UNCHANGED adds

\* Every ticketed flush is published.
Drained == next_publish = next_ticket

Drain(t) ==
    /\ pc[t] = "drain"
    /\ Drained
    /\ ClearLog
    /\ DropAll(t) \/ Rollback(t)
    /\ owner' = Unowned(t)
    /\ full_flush' = None
    /\ job' = [job EXCEPT ![t] = "none"]
    /\ Goto(t, "idle")
    /\ UNCHANGED <<slices, docs, private, slice, partition, ticketVars,
                   policyVars, ret, at, read, held, failed, last_seq, ops, missed>>

\* flush_next_buffer: the largest buffer, which may be any that holds documents.
FlushNextBuffer(t, i) ==
    /\ Calls(t, "flush_next")
    /\ owner[i] = None
    /\ BeginFlush(i, 0, pending)
    /\ held' = [held EXCEPT ![t] = {next_ticket}]
    /\ Goto(t, "publish")
    /\ ret' = [ret EXCEPT ![t] = "idle"]
    /\ UNCHANGED <<coreVars, owner, full_flush, apply_all, job, at, read, failed,
                   last_seq, historyVars>>

----------------------------------------------------------------------------
(* The specification *)

\* What a thread does in an operation it has called.
Step(t) ==
    \/ RefuseAdd(t) \/ ApplySlice(t) \/ SlotFull(t) \/ SlotNotFull(t)
    \/ PostUpdate(t) \/ PostUpdateNone(t)
    \/ ApplyAllDeletes(t) \/ ApplyAllDeletesSkip(t)
    \/ LockNext(t) \/ TicketNext(t) \/ TakeCut(t) \/ Commit(t) \/ EndFullFlush(t)
    \/ AbortSlots(t) \/ Drain(t)
    \/ \E k \in tickets : Publish(t, k) \/ PublishApplyFails(t, k) \/ Abandon(t, k)
    \/ \E c \in 1..MaxBlock, d \in BOOLEAN : AddAfterEviction(t, c, d)

\* What a thread does first in a call, and an add after helping.
Call(t) ==
    \/ PreUpdate(t) \/ BufferDelete(t)
    \/ \E j \in FullFlushJobs : StartFullFlush(t, j)
    \/ \E i \in Slots :
         \/ FlushNextBuffer(t, i)
         \/ \E p \in 1..Partitions :
              \/ Evict(t, i, p)
              \/ \E c \in 1..MaxBlock, d \in BOOLEAN : AddDocuments(t, i, p, c, d)

\* Every call has returned and no more are made.
Terminated ==
    /\ ops = MaxOps
    /\ \A t \in Threads : pc[t] = "idle"
    /\ UNCHANGED vars

Next == Terminated \/ \E t \in Threads : Step(t) \/ Call(t)

Spec == Init /\ [][Next]_vars

\* Every thread in a call is scheduled.
Fairness ==
    \A t \in Threads : WF_vars(Step(t) \/ (pc[t] = "pre" /\ Call(t)))

FairSpec == Spec /\ Fairness

----------------------------------------------------------------------------
(* Properties *)

\* Where a thread may be, and where it may go from a published ticket.
Labels == {"idle", "pre", "log", "apply", "full", "publish", "post", "deletes",
           "lock", "ticket", "commit", "abort", "drain", "unlock"}
Returns == {"idle", "pre", "post", "deletes", "commit", "unlock"}

Ticket == [no : Nat, docs : Seq(Nat), private : SUBSET (Nat \X Nat), packet : SUBSET Nat]
LogRead == [before : Nat, nodes : SUBSET Nat, end : Nat]

SlotTypeOK ==
    /\ docs \in [Slots -> Seq(Nat)]
    /\ private \in [Slots -> SUBSET (Nat \X Nat)]
    /\ slice \in [Slots -> Nat]
    /\ partition \in [Slots -> 0..Partitions]
    /\ owner \in [Slots -> Threads \union {None}]
    /\ pending \subseteq Slots
    /\ apply_all \in BOOLEAN

TicketTypeOK ==
    /\ tickets \subseteq Ticket
    /\ next_ticket \in Nat
    /\ next_publish \in Nat
    /\ barrier \in 0..next_ticket

ThreadTypeOK ==
    /\ full_flush \in Threads \union {None}
    /\ pc \in [Threads -> Labels]
    /\ ret \in [Threads -> Returns]
    /\ job \in [Threads -> FullFlushJobs \union {"none"}]
    /\ at \in [Threads -> 0..NumSlots]
    /\ read \in [Threads -> LogRead]
    /\ held \in [Threads -> SUBSET Nat]
    /\ failed \in [Threads -> BOOLEAN]
    /\ last_seq \in [Threads -> Nat]
    /\ ops \in Nat

\* The barrier is never above the next ticket: a commit holds back exactly the
\* tickets handed out after its cut.
TypeOK == LogTypeOK /\ ControlTypeOK /\ SlotTypeOK /\ TicketTypeOK /\ ThreadTypeOK

\* Ticket numbers are handed out without gap or repetition and leave in order:
\* the tickets outstanding are exactly those between the next to publish and
\* the next to hand out, so a drain that finds the two equal left none behind.
TicketNumbers ==
    /\ next_publish <= next_ticket
    /\ \A k \in tickets : next_publish <= k.no /\ k.no < next_ticket
    /\ \A k, m \in tickets : k.no = m.no => k = m
    /\ \A n \in next_publish..(next_ticket - 1) : \E k \in tickets : k.no = n

\* A delete reaches no document added after it, nor the document of its own
\* update: the half of the delete contract a limit or a generation taken too
\* high would break.
DeletesOnlyEarlier ==
    \A s \in segs \union commit.segs : \A pair \in s.dels : pair[2] < pair[1]

\* The threads between reading the log and advertising slot i's slice.
InWindow(i) == {t \in Threads : pc[t] = "apply" /\ at[t] = i}

\* A slot's lock protects its buffer: the slot an add works on, and every slot
\* a full flush has locked, is owned by that thread.
SlotsOwned ==
    \A t \in Threads :
      /\ pc[t] \in {"log", "apply", "full"} => at[t] \in Slots /\ owner[at[t]] = t
      /\ pc[t] = "lock" => at[t] < NumSlots /\ \A i \in 1..at[t] : owner[i] = t
      /\ pc[t] \in {"ticket", "abort", "drain"} => \A i \in Slots : owner[i] = t

\* Entry n of a buffer's own deletes, with limit e[2], is later than each
\* document it reaches.
OwnDeletesLater(buffer, own) ==
    \A e \in own : e[2] <= Len(buffer) /\ \A j \in 1..e[2] : buffer[j] < e[1]

\* Every log entry past position `from` is later than every document buffered.
LogLater(buffer, from) ==
    \A p \in DOMAIN log, j \in DOMAIN buffer : p > from => buffer[j] < log[p]

\* The order that keeps a delete from reaching a later document, wherever the
\* two are: in the log and the slots, ...
SlotOrder ==
    /\ handed <= Len(log)
    /\ \A p \in DOMAIN log : log[p] < next_seq
    /\ \A i \in Slots :
         /\ \A j \in DOMAIN docs[i] : docs[i][j] < next_seq
         /\ OwnDeletesLater(docs[i], private[i])
         /\ InWindow(i) = {} => LogLater(docs[i], slice[i])
    /\ \A t \in Threads :
         pc[t] = "apply" =>
           /\ OwnDeletesLater(docs[at[t]], read[t].nodes \X {read[t].before})
           /\ LogLater(docs[at[t]], read[t].end)

\* ... in the flushes under way, whose packets go to the segments of earlier
\* tickets only, ...
TicketOrder ==
    \A k \in tickets :
      /\ \A j \in DOMAIN k.docs : k.docs[j] < next_seq
      /\ OwnDeletesLater(k.docs, k.private)
      /\ LogLater(k.docs, handed)
      /\ \A m \in tickets : m.no > k.no =>
           \A n \in m.packet, j \in DOMAIN k.docs : k.docs[j] < n
      /\ \A s \in segs : \A d \in s.docs, n \in k.packet : d < n

\* ... and in the segments, where generations keep a packet from the segments
\* published after it.
SegmentOrder ==
    /\ \A s \in segs :
         /\ s.gen < next_gen
         /\ \A d \in s.docs : d < next_seq /\ \A p \in DOMAIN log : p > handed => d < log[p]
         /\ \A q \in stream : AppliesTo(q, s) => \A n \in q.nodes, d \in s.docs : d < n
    /\ \A q \in stream : q.gen < next_gen
    /\ \A s \in commit.segs : s.gen < next_gen /\ \A d \in s.docs : d < next_seq

\* The inductive invariant behind DeletesOnlyEarlier.
DeleteOrder ==
    /\ TypeOK /\ TicketNumbers /\ SlotsOwned
    /\ SlotOrder /\ TicketOrder /\ SegmentOrder /\ DeletesOnlyEarlier

\* Where delete n still waits for, or has reached, document d of a slot, of a
\* ticket, of a segment.
SlotOwes(i, n, d) ==
    \/ <<n, d>> \in PrivatePairs(docs[i], private[i])
    \/ InWindow(i) = {} /\ n \in Since(slice[i])
    \/ \E t \in InWindow(i) :
         \/ <<n, d>> \in PrivatePairs(docs[i], read[t].nodes \X {read[t].before})
         \/ n \in {log[p] : p \in read[t].end + 1 .. End}

TicketOwes(m, n, d) ==
    \/ <<n, d>> \in PrivatePairs(m.docs, m.private)
    \/ \E k \in tickets : k.no > m.no /\ n \in k.packet
    \/ n \in Unhanded

SegmentOwes(s, n, d) ==
    \/ <<n, d>> \in s.dels
    \/ \E q \in stream : AppliesTo(q, s) /\ n \in q.nodes
    \/ \E k \in tickets : n \in k.packet
    \/ n \in Unhanded

\* A delete reaches every document added before it: whatever buffer, flush or
\* segment the document is in, the delete is applied there or on its way.
\* Excepted are the entries trimmed while a slot's first document was being
\* added (see DeletesComplete).
NoDeleteLost ==
    \A d \in adds, n \in dels :
      n > d /\ <<n, d>> \notin missed =>
        \/ \E i \in Slots : d \in DocSet(docs[i]) /\ SlotOwes(i, n, d)
        \/ \E m \in tickets : d \in DocSet(m.docs) /\ TicketOwes(m, n, d)
        \/ \E s \in segs : d \in s.docs /\ SegmentOwes(s, n, d)

\* The slots, flushes and segments document d is in.  Segments are told apart
\* by their generations, a new one at each publication.
PlacesOf(d) ==
    {<<"slot", i>> : i \in {j \in Slots : d \in DocSet(docs[j])}}
      \union {<<"ticket", k>> : k \in {m \in tickets : d \in DocSet(m.docs)}}
      \union {<<"segment", s>> : s \in {r \in segs : d \in r.docs}}

\* Every document acknowledged and not dropped is in exactly one place: one
\* slot's buffer, one flush not yet published, or one segment of the view; and
\* those hold no other document.  A buffer left behind in its slot, or published
\* twice, would double all of its documents.
DocumentsConserved ==
    /\ \A d \in adds : \E p \in PlacesOf(d) : PlacesOf(d) = {p}
    /\ \A i \in Slots : DocSet(docs[i]) \subseteq adds
    /\ \A k \in tickets : DocSet(k.docs) \subseteq adds
    /\ \A s \in segs : s.docs \subseteq adds

\* What the commit about to be written must hold of each document.
ExactDeletes(c, pairs) ==
    \A s \in c.segs : \A d \in s.docs :
      LET reached == {n \in dels : <<n, d>> \in s.dels}
          due     == {n \in dels : d < n /\ n <= c.seq}
      IN  reached \subseteq due /\ due \ {n \in dels : <<n, d>> \in pairs} \subseteq reached

\* A commit is a clean cut: it holds exactly the documents of the operations
\* numbered at or below the number it returns, and exactly their deletes are
\* applied, whatever other threads published meanwhile; and commits only move
\* forward.
CommitIsCut ==
    [][commit' # commit =>
         /\ commit'.seq >= commit.seq
         /\ DocsOf(commit'.segs) = {d \in adds : d <= commit'.seq}
         /\ ExactDeletes(commit', missed)]_vars

\* Every ticket not yet published is held by one thread, which is on its way to
\* publish it: otherwise every later ticket waits for ever.
EveryTicketHasAPublisher ==
    \A k \in tickets :
      \E t \in Threads :
        /\ k.no \in held[t] /\ pc[t] # "idle"
        /\ \A u \in Threads \ {t} : k.no \notin held[u]

\* Every call returns: nobody in a call waits for ever for a slot, a ticket's
\* turn, the barrier or the drain, so no lock is held for ever.
EveryCallReturns == \A t \in Threads : pc[t] # "idle" ~> pc[t] = "idle"

\* The delete contract of the module documentation, as a commit shows it: with
\* no exception, every delete in the commit reached every document before it.
DeletesComplete ==
    [][commit' # commit => ExactDeletes(commit', {})]_vars

\* The stream is empty whenever the control lock is free.
StreamDrained == stream = {}

\* A delete_all that the prepared commit makes the wrapped writer refuse drops
\* no buffered document.
RefusedDropsNothing ==
    [][\A t \in Threads :
         pc[t] = "abort" /\ pc'[t] = "drain" /\ job[t] = "delete_all" /\ prepared
           => docs' = docs]_vars
=============================================================================
