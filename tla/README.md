# A formal model of the Lucene-in-Rust index writer and its surroundings

This directory holds TLA+ specifications of the concurrent and the crash-prone
parts of the repository, the TLC configurations that check them on small
instances, and proofs, checked by TLAPS, of what holds for every instance of the
concurrent writer, of its merges and of the searchers. Everything is translated from the sources under `crates/`;
`PROJECT.json` gives the lines each definition stands for, the hazards it is
aimed at, and the status of every part of the system.

## The system

`lucene-index` is the part with state and threads. An application thread calls
`ConcurrentIndexWriter` (`concurrent_writer.rs`), Lucene's `DocumentsWriter`:

* **Slots.** A thread adding documents takes the lock of a *slot* (`Dwpt`) and
  buffers them there. With segment partitions, a slot holds one partition at a
  time; a slot holding another one is *evicted*: flushed first.
* **Delete log.** A delete, or the delete half of an update, is appended to one
  log, which also hands out the sequence number of every operation. Each slot
  remembers how far it has applied the log to its own documents (its *slice*),
  the control plane how far it has taken it (*handed*), and the log is trimmed
  up to the smallest of them.
* **Flush policy.** A slot with enough documents, or chosen because memory is
  short, is flushed. A large amount of buffered deletes is applied at once.
* **Tickets.** Taking a buffer for flushing gives it a numbered ticket, which
  freezes the deletes that the segments before it still owe. Segments are built
  without locks and published in ticket order under the control lock.
* **Wrapped writer.** Publishing pushes the frozen deletes as a packet onto the
  stream of the single-threaded `IndexWriter` (`index_writer.rs`,
  `buffered_updates.rs`), adds the segment to its view and applies the stream.
  Generations decide which packet reaches which segment.
* **Full flushes.** `flush` and `commit` lock every slot, ticket every buffer
  and take a *cut*; a commit also raises a *barrier* that keeps the tickets
  after the cut from publishing until the commit is written. `delete_all` and
  `rollback` lock every slot, drop the buffers, wait until every ticket is
  published, and empty the view or take it back to the last commit.

Around the writer:

* **Merges** (`merge_scheduler.rs`, `merge_rate_limiter.rs`, and the registration
  in `concurrent_writer.rs`). A producer registers merges, claiming their
  segments, and a scheduler runs them on its own threads or on the caller's.
  `delete_all`, force merges and `close` abort merges and wait for the claims.
* **Files and commits** (`index_writer.rs`, `index_file_deleter.rs`,
  `segment_infos.rs`, `deletion_policy.rs`, `nrt.rs`, `try_modify.rs`). A commit
  is written as a pending file, synced, renamed. Files are counted by commits,
  by the live view, by readers, merges and held commits, and deleted at zero.
* **Searchers** (`reference_manager.rs`). Threads refresh one managed searcher; a
  reopen thread refreshes for callers that wait for a generation; live field
  values cover what no searcher shows yet.
* **Page cache** (`page_cache.rs`, `page_disk.rs`). Pages of remote files are
  fetched once for all who miss them and kept in slots on local disk.

The rest, with most of the lines, is codecs, analysis and query code: sequential
data transformation. `PROJECT.json` lists every part, with the reason where one
is not modelled.

## The modules

| Module | Models | State |
|---|---|---|
| `DeleteLog` | `DeleteLog` in `concurrent_writer.rs` | `log`, `base`, `handed`, `next_seq`, `slices` |
| `ControlPlane` | the wrapped `IndexWriter`: view, delete stream, commit | `stream`, `next_gen`, `segs`, `commit`, `prepared`, `failures` |
| `ConcurrentWriter` | `ConcurrentIndexWriter`, composing the two above | slots, tickets, policy marks, the threads, history |
| `MergeScheduler` | both schedulers, the rate limiter's sleep, the writer's registration of merges | `pending`, `merging`, the threads of the scheduler, paused and aborted merges, the view |
| `SegmentStore` | what merging promises: a merge is one step | the view |
| `CommitFiles` | the wrapped writer down to every directory operation, the file deleter, the segments file, snapshots, readers, merges' files | the directory and the images a power loss can leave, counts, commits, the work left of the call under way |
| `ReferenceManager` | `ReferenceManager`, `ControlledRealTimeReopenThread`, `LiveFieldValues` | the searcher, the refresh lock, generations, waiters, the two maps |
| `PageDisk` | `DiskTier`: each critical section as an operator on its `State` | `disk` |
| `PageCache` | `stored_pages` over `PageDisk`, with `pin` and `forget_prefix` | the in-flight table, each reader's call |
| `MC*` | the instances TLC checks | |
| `WriterFacts`, `WriterOrderProofs`, `WriterCutProofs`, `WriterProofs` | proofs about `ConcurrentWriter` | |
| `MergeTypeProofs`, `MergeStoreProofs`, `MergeProofs` | proofs about `MergeScheduler`, and that it implements `SegmentStore` | |
| `RefreshProofs` | proofs about `ReferenceManager` | |

One step is what a thread does between two points where another thread can see
or change what it works on. What a thread does under a lock only it holds is part
of the step next to it.

### The concurrent writer

`DeleteLog` and `ControlPlane` define what one hold of their lock does;
`ConcurrentWriter` puts these together. Each operation is a path through the
labels in `pc`:

| Code | Path |
|---|---|
| `add_documents`, `update_document` (`add_with`) | `PreUpdate`* → `AddDocuments`, or `Evict` → `AddAfterEviction` → `ApplySlice` → `SlotFull` or `SlotNotFull` → publish → `PostUpdate` → `ApplyAllDeletes` |
| an add whose documents are refused | `RefuseAdd` (from `pre` or `log`) |
| `buffer_delete` | `BufferDelete` → `ApplyAllDeletes` or `ApplyAllDeletesSkip` |
| `complete_flush`, `complete_cut` | `Publish`, `PublishApplyFails` or `Abandon`, in the ticket's turn |
| `flush_all`, `commit_with` | `StartFullFlush` → `LockNext` per slot → `TicketNext` per slot → `TakeCut` → publish → `Commit` → `EndFullFlush` |
| `delete_all`, `rollback` | `StartFullFlush` → `LockNext` → `AbortSlots` → `Drain` |
| `flush_next_buffer` | `FlushNextBuffer` → publish |

Its data is abstracted as follows:

* A document and a delete are named by the sequence number of their operation
  (the documents of one block share it). Which documents a term matches is left
  out: a segment records the pairs ⟨delete, document⟩ of the deletes *applied*
  to it, whatever they match.
* `log` keeps the entries dropped from the front, and no definition reads
  them, so a position means the same in the model and in the code.
* Any free slot may be the one an add acquires; the code's affinity and rotation
  pick one of these.
* Bytes are left out. Where the code compares sizes (the largest buffer, deletes
  past the RAM buffer, the hard limit of a slot), the model allows either answer.
  `check_pending_flush_on_update` is a flag any thread may change, so helping
  with a marked buffer is always optional.
* A failure of I/O may happen at every place the code can meet one, at most
  `MaxFailures` times: a build that fails, applying the stream failing for any
  subset of the segments, a commit failing before or at its rename.
* Locks are held in the order slot, control, log. `begin_flush` holds all three,
  so it is one step; the end of a commit lifts the barrier and then releases the
  full-flush lock, with nothing observable between the two, so that is one step
  too. So is the reset of the flag and the ticket in `maybe_apply_all_deletes`.
* `adds`, `dels` and `missed` are history variables: no guard reads them. They
  hold the documents and deletes acknowledged and not dropped since (by a
  `delete_all`, a `rollback` or a failed build).

### Merges

A thread's call runs through the labels of `pc[t]`, a merge through those of
`pc[m]`. The merge policy is any choice of unclaimed segments. `abort_merges`
pops the pending merges and marks the running ones in one hold of the control
lock, and is one step. A merge that is paused has no fairness, unless it is
aborted: nothing in the code wakes it but a change of the pauses or an abort. In
setup `Updates`, doc values may change under any merge, which is then
abandoned when it finishes (`index_writer.rs:11511`). A full flush that folds a new segment into the view is one step (`Publish`); the
files of merges are in `CommitFiles`.

`MergesAreAtomic` is the refinement: under the mapping of `INSTANCE
SegmentStore`, the view changes only by a flush, a drop, a `delete_all`, or by
one step in which a merge's sources, all of them still there, become their union.

### Commits and files

A call puts its directory operations into `work`, and each is a step that may
fail, or be followed by a crash. `dir.images` are the name spaces a power loss may
leave, as `crashing_directory.rs` defines them: what was not synced may be
there or not. `Open` recovers from one of them and drops the session's memory.
The live-docs files of one round are written in parallel by the code and are one
step here, in which any of them fail. A power loss inside the round is modelled
(its images have any part of the files); a kill inside it is not a step of its own.
`TryDelete` takes a document of a segment that some reader can name
(`ReaderSegments`): one of a commit in the directory, or of a view handed out in
this session. A segment in memory that no commit and no snapshot has shown is out
of its reach, as it is of `locate`.

### Searchers

The listeners of a refresh are called one at a time, and each call is a step.
`refresh_if_needed` is external: it returns a searcher of all the writer has,
or nothing, or fails. The generation of the last operation stands for what is
indexed. The waits of the reopen thread are steps it may take at any time.

### The page cache

`get` and `put` of the disk tier take the lock twice and do I/O between: these
are two steps each, with what was read before kept by the reader (`slot`,
`generation`). If a slot's bytes change during the unlocked read, the reader
gets `Torn`, bytes that are no page. Filling a slot of the in-flight table and
removing it is one step: a reader that joins between the two finds the result
there, like one that joined before. All runs of a fetch go out at once (the code
sends `concurrency` at a time, which only orders them). The download window is
fixed per setup, the tuner left out. Generations are counted modulo 2^16 as in
the code, and no instance is long enough for one to wrap.

## What the runs check

A run checks several *setups* at once where a module has a variable `setup`,
chosen in `Init` and never changed: the uses of a component that are worth
combining, each with its own bounds, which are named in the `MC` module.

| Run | Instance | Checks |
|---|---|---|
| `writer` | two threads, two slots, all eight calls, `MaxOps` 4, one failure; 597,000 states | deletes, tickets, documents and commits of the concurrent writer |
| `writer_liveness` | RAM buffer, two partitions, blocks of two, `MaxOps` 3, fairness | the type and the inductive invariant where marks, helping and evictions happen; every call returns |
| `merges` | setups `Aborts`, `Closes`, `Drops`, `Serial`, `Updates`; 1,050,000 states | claims, pauses, blocking, closing, the refinement |
| `merges_liveness` | setup `Waits`, fairness | waits for merges and stalls end |
| `commit_crash` | setups `Crashing`, `CrashingTwice`, `Failing`; 2,000,000 states | recovery, names, the newest commit, what is left behind |
| `commit_use` | setups `Snapshots`, `Reading`, `Merging`, `Policies`, `Trying`, `Preparing`; 2,000,000 states | files in use, snapshots, versions, deletes carried over |
| `refresh` | setups `Waits`, `Lives`, `Both`, fairness; 855,000 states | waiters, live values, the order of searchers |
| `page_cache` | setups `Sharing`, `Memory`, `Evicting`, `Failing`, fairness; 400,000 states | reads, claims, slots, pins, eviction |
| `writer_lost_delete`, `merges_panic`, `commit_try_files`, `refresh_close` | the smallest that show it | the four findings |

**The bounds.** Two threads and two slots are what every race of the writer
needs: one works on a slot while another appends, trims, flushes or commits. With
`MaxBufferedDocs = 2`, the smallest value the code accepts, buffers both fill up
and stay partly filled. Four calls are enough for two adds, a delete between
them and a commit. Merges have four segments, so that two merges of two run at
once and a third is formed of what they leave. Commits have up to three segments
and generations: one commit to keep, one to drop and one under way. Crashes and
failing operations are in separate setups: together the instance does not fit,
so what follows a failure *and then* a crash is not checked. The refreshes have
one thread beside the reopen thread, one waiter and one getter. The page cache
has two readers, two files, slots of two sizes and a budget of two or three
units, where a page of each size must evict the other, and three pages for
read-ahead and runs.

**Deadlock** is checked in `writer` and `commit_crash`. In the others a state
without a step is the end of the bounded calls, and a thread stuck is what the
liveness properties are about.

The properties, in words. The concurrent writer:

* `CommitIsCut`: the commit written holds exactly the documents of the
  operations numbered at or below the number the call returns, with exactly the
  deletes among these applied, and the number never goes back.
* `NoDeleteLost`: for every acknowledged document and every later delete, the
  delete is applied to the document or on its way to it.
* `DeletesOnlyEarlier`: no delete is applied to a document added after it.
* `DeleteOrder`: the inductive invariant below.
* `DocumentsConserved`: every acknowledged document not dropped since is in
  exactly one slot, ticket or segment (places are told apart by their index, not
  by what they hold), and nothing else is in any.
* `TicketNumbers`: the outstanding tickets are exactly the numbers between the
  next to publish and the next to hand out.
* `EveryTicketHasAPublisher`: exactly one thread, still in its call, holds each
  outstanding ticket.
* `EveryCallReturns`: a thread in a call eventually leaves it.

`NoDeleteLost` and `CommitIsCut` except the pairs of finding 1, recorded in the
history variable `missed`, and nothing else.

Merges:

* `EveryClaimHasAMerge`: a claimed segment belongs to exactly one merge that is
  registered or running. The first half is required only while no claimed segment
  was dropped, since finding 2 is about that case.
* `SleepersHaveAborted`, `NoMergeRegisteredWhileBlocked`, `CloseLeavesNoMerge`:
  an abort reaches a merge that sleeps; nothing is registered once merges are
  blocked; a close with no other call, failure or dropped segment leaves nothing.
* `OnlyMaxThreadCountProceed`: of the big merges, at most `max_thread_count` are
  not paused.
* `WaitersReturn`, `StalledReturn`: waits for merges and stalls end.

Commits and files:

* `EveryCrashOpens`: every image a crash can leave, at any step, holds a whole
  commit at least as new as the last one reported durable.
* `NamesAreFresh`: no name is written that the directory has had in this session
  or held when it was opened. Checked in `commit_crash` only: a merge during a
  prepared commit breaks it (below).
* `FilesInUseExist`: files of commits, of the view, of readers, merges and held
  commits are in the directory.
* `NewestCommitKept`, `SnapshottedCommitsKept`: through any failure, policy or
  thread, these commits stay whole.
* `OnlyEmptiedSegmentsLeak`: between calls, as long as nothing failed, the
  directory holds nothing unused but the live-docs files of segments that were
  emptied (below).
* `TypeOK` includes that, as long as nothing failed, the files counted are exactly
  those of the view, the commits, the readers and holds, and the merge.
* `AcceptedDeletesHeld`: a document once deleted stays so, or its delete is
  buffered, whatever write fails and whatever merge runs.
* `VersionsIdentifyViews`: two snapshots of one version are of one view. The
  setups of `commit_use` have no rollback, with which it fails (below).

Searchers:

* `WaitersSeeTheirGeneration`: a waiter let through finds its generation in the
  searcher, while nothing is closed and no refresh has failed.
* `LiveReadsAreCurrent`: a live read is at least as new as the last value added
  before it, as long as no refresh has failed. With a failed one neither of the
  two holds (below); `SearchersOnlyAdvance` does.
* `SearchersOnlyAdvance`: no refresh puts an older searcher in place, or one
  into a closed manager.
* `WaitersReturn`: a waiter returns, unless a refresh fails, which ends the
  reopen thread, or something is closed.

The page cache:

* `ReadsReturnTheAskedPages`: no call returns another page's bytes.
* `EachPageFetchedOnce`: each page in flight is claimed by exactly one reader.
* `SlotsAccountedFor`: every slot is free once, being written, or mapped by the
  one page it names, and the three counters are the sums over the slots.
* `PinnedPagesStay`, `EvictionIsWarranted`: pinned pages go only with their file
  or an unreadable slot; nothing is evicted in vain, and the budget is passed
  only when nothing could be evicted.
* `ReadersReturn`: every call returns, whatever fails.

**Fairness** is weak, and only of steps inside a call that was made: no thread
has to call anything. It stands for a scheduler that runs every thread able to
run, and for I/O that answers. Waits in the code are for conditions that stay
true once they hold for the waiter, or for locks, which are taken in one step
when free and, with the bounded calls, cannot be taken away for ever. The page
cache has one weak fairness condition over all readers together, which is less
than one for each and enough, as each call is finite.

## Findings

Each is a run in which TLC shows the code reaching a state that the repository's
own text says it does not reach. `PROJECT.json` quotes the text.

1. **A delete can miss an earlier document** (`writer_lost_delete`). An add into
   an *empty* slot reads the log's end under the log's lock and advertises the
   slot's position after releasing it (`concurrent_writer.rs:1132`). Until then
   it does not hold back `trim`. If meanwhile another thread logs a delete, a
   flush hands it over and a further operation trims the log, the delete is gone
   before the slot reads it.
2. **A dropped segment leaves claims behind** (`merges_panic`). A segment that
   loses its last document leaves the view while a merge over it is registered.
   `begin_merge` then panics (`index_writer.rs:11400`), and the merge's other
   segments stay claimed: `delete_all` waits for them for ever.
3. **A prepared commit loses a file** (`commit_try_files`). `try_delete_document`
   does not refuse between the two phases of a commit (`try_modify.rs:70`). One
   commit has published a segment, the next is prepared with a document of it
   deleted. A reader of the segment deletes its other document: the segment is
   dropped at once, and the checkpoint deletes the live-docs file that the
   prepared commit names. The segment's own files the first commit keeps.
4. **A closed reopen thread can leave a waiter** (`refresh_close`). A refresh that
   began before `close` takes back the release of all generations
   (`reference_manager.rs:709`, after `:827`). A waiter that slept through the
   close and looks only then finds its generation unmet and sleeps again, with no
   thread left to wake it.

### Further disagreements

Met while modelling; each has a configuration that shows it and is no run of
`PROJECT.json`, which keeps one finding for each component.
`tlc -config <cfg> <MC module>` reproduces it.

| Configuration | Property | What TLC shows |
|---|---|---|
| `MCWriterOrphan` | `EveryCallReturns` | an add that evicted a buffer and filled its own drops the second ticket when publishing the first fails (`concurrent_writer.rs:1688`); "still retires its ticket" (`:1974`) |
| `MCWriterStream` | `StreamDrained` | a failed apply leaves packets with the control lock free; "the stream is empty whenever the control lock is free" (`index_writer.rs:11711`) |
| `MCWriterRefused` | `RefusedDropsNothing` | a `delete_all` refused because of a prepared commit has already dropped the buffers (`concurrent_writer.rs:990`) |
| `MCMergesHang` | `WaitersReturn` | the serial scheduler leaves its loop at a failed merge with one still registered, and `delete_all` waits for ever (`merge_scheduler.rs:176`) |
| `MCMergesCount` | `AtMostMaxMergeCount` | two producers pass the stall check together; "At most `max_merge_count` merges run at once" (`merge_scheduler.rs:261`) |
| `MCMergesSync` | `SyncWaitsForLeavingThreads` | `sync` returns while a thread that left the list has its source (`merge_scheduler.rs:732`) |
| `MCCommitPrepared` | `PreparedCommitActivatable` | `delete_unused_files` deletes the pending file of a prepared commit (`index_file_deleter.rs:603`) |
| `MCCommitData` | `CommitDataPersists` | commit data set between the phases is in no commit (`index_writer.rs:9054`) |
| `MCCommitLeak` | `NothingLeaked` | the live-docs file of an emptied segment stays (`index_writer.rs:11768`) |
| `MCCommitNames` | `NamesAreFresh` | a name taken by a merge between the phases is handed out again (`index_writer.rs:9054`) |
| `MCCommitTryLost` | `AcceptedDeletesHeld` | a delete through a reader between the phases is reverted (`index_writer.rs:9054`) |
| `MCCommitVersions` | `VersionsIdentifyViews` | after a rollback a snapshot has the version of an older, different view (`nrt.rs:180`) |
| `MCCommitDelGen` | `GenerationsOnlyIncrease` | after a rollback a live-docs generation is used again (`index_writer.rs:12199`) |
| `MCRefreshFailedWait` | `TrueMeansSearchable` | a failed refresh lets waiters through (`reference_manager.rs:709`) |
| `MCRefreshFailedLive` | `DroppedMeansSearchable` | a failed refresh drops the values it was to make searchable (`reference_manager.rs:895`) |

## What is proved

Every theorem holds for any number of threads, any bounds and any setup, from
the named assumptions on the constants alone, which TLC evaluates in each run.
Each rests on an inductive invariant that was model-checked before it was proved.

### The concurrent writer

`WriterProofs` proves, from `LogAssumption` and `WriterAssumption`:

* `Order`: `Spec => []DeleteOrder`;
* `TypeCorrect`: `Spec => []TypeOK`, with the bound of the barrier;
* `NoLaterDocumentDeleted`: `Spec => []DeletesOnlyEarlier`;
* `TicketsGapless`: `Spec => []TicketNumbers`;
* `SlotsLocked`: `Spec => []SlotsOwned`;
* `TicketsPublished`: `Spec => [](NoOrphans => EveryTicketHasAPublisher)`;
* `NoDocumentLost`: `Spec => []DocumentsConserved`;
* `NoDeleteIsLost`: `Spec => []NoDeleteLost`;
* `CommitsAreCuts`: `Spec => CommitIsCut`;
* `CutsClean`: `Spec => []CleanCuts`, which the three before it rest on.

`DeletesOnlyEarlier` speaks of segments only and is not inductive: when a packet
is applied, nothing in it says that its deletes are later than the segment's
documents. `DeleteOrder` adds, for each place a delete or a document can be in
on its way, the order between the two:

* `SlotOrder`: each entry in a slot's own deletes is later than the documents it
  reaches, and so is every log entry past the slot's slice. While a thread has
  read the log and not yet applied it, the second fact holds of the position it
  has read instead (the case that makes the thread's label part of the
  invariant);
* `TicketOrder`: the same of the buffers taken; the packet of a ticket is later
  than the documents of every ticket before it and of every published segment;
* `SegmentOrder`: generations keep a packet from every segment published after
  it, and unhanded log entries are later than every published document;
* `TypeOK`, `TicketNumbers` and `SlotsOwned`, which these rest on: two tickets
  with one number, or two threads in one slot, would break each.

`EveryTicketHasAPublisher` fails after an I/O failure in a writer with two
partitions or more: an add that holds two batches drops the second when
publishing the first fails (`MCWriterOrphan.cfg`). The theorem therefore has
the hypothesis `NoOrphans`: nothing has failed yet, or there is one partition.
Neither half makes the rest trivial. With one partition failures are unlimited,
and what has to be shown is that no add ever holds two batches. `Publishers` is
the invariant:

* `HeldOnce`: the tickets a thread holds are outstanding, no two threads hold the
  same, and at the labels where a thread may return it holds none;
* `OneBatch`: with one partition every buffer is of that partition, so no thread
  evicts, and an add that stops at an error held at most one ticket;
* `AllHeld`: under `NoOrphans` every outstanding ticket is held.

`DocumentsConserved` needs no hypothesis. A ticket without a publisher still
holds its documents, and those that `delete_all` or a rollback drops leave the
acknowledged ones too. `Documents` is the invariant:

* `AllPlaced`: the documents acknowledged and not dropped are those in the slots,
  the tickets and the view;
* `Apart`: no document is in two of these places, nor in two segments of the last
  commit, which a rollback makes the view again;
* `Emptied`: between the steps of `delete_all` and `rollback` that drop the
  buffers and that drop the view, nobody fills a buffer. This is where the locked
  slots matter: `SlotsOwned` excludes every add meanwhile.

`NoDeleteLost` and `CommitIsCut` are proved together with it. `NoDeleteLost` says
of every document and every later delete that the delete has been carried out on
it or is owed to it where it is: by a slot's own deletes or the log past its
slice, by a ticket's deletes or a packet not yet published, by the stream. Each
step that moves a document must find the debt in the place it moves it to. Three
of these moves are not local, and give the invariant its other parts:

* `LogBounds`: positions lie within the log, and a slot that holds documents
  advertises no position past its slice, unless a thread is between reading the
  log and taking its slice. So what a trim drops, no such slot still needs; the
  exception is where the code does lose pairs (`missed`, `MCWriterLostDelete.cfg`);
* a rollback makes the last commit the view again, so the commit must hold the
  deletes up to its number already: `CommitHolds`. It is written from a view that
  owes nothing up to that number, which only the cut can tell;
* `Cut`: from `TakeCut` to the end of the commit, `CutBefore` bounds by the
  commit's number what the view, the stream and the tickets below the barrier
  hold, and `CutAfter` puts what is in the slots, in the log not yet taken and in
  the tickets from the barrier on past it. `CommitIsCut` is `CutBefore`,
  `CutAfter` and `Documents` read at the moment the barrier is reached.

`Cut` in turn rests on `FullFlushLock` (who runs a full flush has the lock, so one
cut is under way at a time), `Turn` (a commit waits for its own last ticket, and
nothing from the barrier on is published before it ends), `SlotsTicketed` (at the
cut every slot gone through is empty) and `Numbered` (nothing anywhere carries a
number not yet given out).

`WriterFacts` has what the helpers return and what the actions leave alone,
`WriterOrderProofs` that every step keeps ticket numbers, slot ownership,
publishers and the order, `WriterCutProofs` that it keeps `CleanCuts`, and
`WriterProofs` that it keeps the types, and the theorems. There is one lemma per
action, or per group of actions that share an effect (`BeginFlush`, `Buffer`,
`DeletesTicket`, publication).

### Merges

`MergeProofs` proves, from `SchedulerAssumption` and `ActorAssumption`, for both
schedulers:

* `ClaimsHaveMerges`: `Spec => []EveryClaimHasAMerge`;
* `BlockedRegistersNothing`: `Spec => []NoMergeRegisteredWhileBlocked`;
* `SleepersWaitForAborted`: `Spec => []SleepersHaveAborted`;
* `MaxThreadCountProceed`: `Spec => []OnlyMaxThreadCountProceed`;
* `CloseFinishes`: `Spec => CloseLeavesNoMerge`, an action property;
* `MergesImplementStore`: `Spec => MergesAreAtomic`, the refinement of
  `SegmentStore`;
* `MergeTypes`: `Spec => []TypeOK`.

One inductive invariant, `IInv` in `MergeTypeProofs`, carries all seven. Its parts
and why each is there:

* `QueueInv`, `ClaimInv`: a merge is queued once, before it is taken, and the
  claims of the merges queued or running are disjoint. What a step does to claims
  is put into one form, `Turns(R, N)`: the merges `R` give theirs up, the merges
  `N` take theirs from what is unclaimed. Each action is shown to be such a turn
  once, and the two facts are proved of turns (`TurnsQueue`, `TurnsClaims`). The
  panic of `begin_merge` over a dropped segment (finding 2) is no turn: it keeps
  claims without a merge, and is why the claimed segments are all accounted for
  only as long as no claimed segment was dropped.
* `RunningInv`, `ResultInv`, `SleepersHaveAborted`: the life of a merge. `Flow`
  says which labels follow which and what goes with them; every action is a flow.
* `PauseInv`: a force merge that waits has its pause recorded, without which
  `merges_blocked` would let a finishing merge register others.
* `MonitorInv`: who is inside the scheduler's critical section holds its lock.
  Two threads inside it would break `ListInv`.
* `ListInv`: the listed threads are the merges that have started and not left,
  each once, and `paused` is what `update_merge_threads` computes from that list.
  `OnlyMaxThreadCountProceed` then is a fact about a sort: the number of merges
  ahead of each is a bijection from the big ones to an initial segment of the
  naturals (`SlowedCount`), ties included.
* `SerialInv`: a merge run on its caller's thread has its caller waiting for it.
* `WorkInv`: as long as nothing failed or was dropped, a registered merge has
  somebody who will look at the queue again. It is the reason why `close_merges`
  leaves nothing behind, and needs all parts above.
* `AddedInv`: the view holds documents that were added, so that a flush is one of
  `SegmentStore`.

The refinement maps the view to the view. Initial states map to initial states;
of the steps, `Publish`, `FinishMerge`, a `FinishMergeFails` that fails at its
checkpoint, and the body of a force merge are steps of the store (a document
added, some segments replaced by their union) and so are `DropSegment` and
`delete_all`; all others leave the view alone (`StepsAreStoreSteps`). `FinishMerge` is one because it looks its sources up
under the control lock again, and does nothing unless they are all there.

`MergeTypeProofs` has the invariant, what each action does to the labels, what
registration adds, and the types; `MergeStoreProofs` the claims, the store, the
flow, the pauses and the lock; `MergeProofs` the list, the serial scheduler, the
work left, the induction and the theorems.

### Searchers

`RefreshProofs` proves, from `SetupAssumption`, `ThreadAssumption` and
`GenerationAssumption`:

* `RefreshLocked`: `Spec => []TypeOK`, in which one thread at most is inside
  `do_maybe_refresh`;
* `OnlyAdvance`: `Spec => SearchersOnlyAdvance`, an action property;
* `WaitersServed`: `Spec => []WaitersSeeTheirGeneration`;
* `LiveReads`: `Spec => []LiveReadsAreCurrent`.

A refresh takes four kinds of steps, with calls of listeners between them, and
the invariant says what is known at each:

* `HoldsInv`, `OpenedInv`: until it opens a searcher the refresh holds the current
  one, afterwards one that is no older: nobody else swaps meanwhile, but the
  manager may be closed;
* `IndexedInv`: nothing shows more than the writer has done;
* `ShownInv`: the generation that `before_refresh` took is in the searcher that
  will be swapped in (`Shown`), so `after_refresh` may announce it; the same of
  the values that `LiveFieldValues` set aside, which it then drops;
* `OnceInv`: the listener of `LiveFieldValues` is called once in a round; called
  twice, it would set aside a map over the one set aside before;
* `MapsInv`: the last value added is in the newer map that is not empty, or in
  the current searcher.

The last two theorems except failed refreshes, as the properties do: with one
neither holds (`MCRefreshFailedWait`, `MCRefreshFailedLive`).

### Only model-checked

All liveness, since the prover does not do liveness under fairness. Everything
about files: the reference counts are bags, and `Open` adds up those of all
commits by a fold, whose value takes an induction the prover cannot do. The page
cache: the CLOCK sweep goes round a ring of any length, and the used units
are a sum over slots, which need the same; its claims and pins do not, and are not
proved yet.

## What is not modelled, and why

The map covers a small part of the repository's lines, and cannot cover most of
it: the codecs, the analysis and query crates are sequential conversions of data,
which tests against the Java original reach and a model would only repeat.

* Concurrent writer: the stall wait, `into_writer`, try-deletes and their number,
  live search of buffers, the document limit's counters, byte sizes.
* Merges: merge-on-commit, merges of segments all deleted (`MergeOutcome::AllDeleted`:
  deletes are not in this module, and without them it would let any merge discard
  live documents), the I/O throttle's rates, tags of several indexes that share a scheduler.
* Commits: a rollback refused before it changes anything, doc-values updates, soft deletes, `add_indexes`, the snapshots file of
  the persistent policy, crashes after failures.
* Searchers: `SearcherLifetimeManager`, a map of searchers by version with an age
  rule.
* Page cache: the tuner, pages of encoded units, batches of requests, and the
  tables of `CachedBlobDirectory` and the page-fault handler above it.
* Replication, locks, the query cache, taxonomy and monitor: see `PROJECT.json`.

Known and covered by nothing here, beside the hazards with a note in
`PROJECT.json`: a rollback of the concurrent writer that the wrapped one refuses
(`RollbackFails`: the buffers are dropped, the view is kept) reports nothing
(`concurrent_writer.rs:2461`); a commit that is written returns the
error of scheduling merges afterwards (`:2201`); an older size of the unhanded
deletes can overwrite a newer one (`:1057`), and the stall flag is decided from
such sizes (`:797`); `publish_segment_with` returns before it has published when
pending try-changes cannot be written (`index_writer.rs:8942`); the reopen thread
ends at a failed refresh (`reference_manager.rs:869`); a name and length used
again while an old fetch is in flight would find its pages
(`cached_blob_directory.rs:128`).

Next: proofs of the page cache's claims and slots, and of `FilesInUseExist`. Models
of the byte accounting of `flush_policy.rs` with the stall, and of replication
over the counts of `CommitFiles`.

## Running it

Each run of `PROJECT.json` is `tlc -config <cfg> <module>`; the longest,
`page_cache`, takes about three minutes on two cores. `tlapm <module>` checks the
proofs of one of the eight proof modules, in up to a quarter of an hour. Leaves
that need no arithmetic name `Zenon`: the SMT translation gets slower with every
obligation of a module, so it is kept for arithmetic and typed functions. The
statement of every lemma in scope slows down every later obligation, which is why
`WriterOrderProofs` and `WriterCutProofs` extend `WriterFacts` side by side, and
why `Trim` states the least position as a bound of the others: with `Min` of the
library, its existence would bring the library's theorems on well-founded
relations into each of these modules.
