--------------------------- MODULE MergeScheduler ---------------------------
(***************************************************************************)
(* Merging beside indexing: the merges a ConcurrentIndexWriter registers   *)
(* (concurrent_writer.rs), the scheduler that runs them on threads of its  *)
(* own or on the caller's (merge_scheduler.rs), and the operations that    *)
(* need every merge out of the way: delete_all, rollback and force merges. *)
(*                                                                         *)
(* A segment is the set of its documents, a merge the set of segments it   *)
(* claims.  What is done under the writer's control lock is one step; the  *)
(* scheduler's monitor is a variable, since a scheduler keeps it while     *)
(* other threads register and drop merges under the control lock.          *)
(***************************************************************************)
EXTENDS Integers, Sequences, FiniteSets, Functions

CONSTANTS
    Threads,        \* the threads calling the writer
    None,           \* no thread
    Documents,      \* the documents ever added
    MaxThreadCount, \* big merges running before the largest are paused
    BigMerge,       \* a merge of more documents than this is big
    MaxMerges,      \* bound: merges registered
    Setups          \* the writers looked at (Setup)

\* A writer: its scheduler, the merges that may run before producers stall, the
\* documents of the index it is opened on; the operations its threads call, and
\* whether doc values are updated under merges; and bounds on operations, merges,
\* segments dropped as fully deleted, and merges and thread starts that fail.
Setup == [scheduler : {"concurrent", "serial"}, max_merge_count : Nat \ {0},
          committed : SUBSET Documents,
          jobs : SUBSET {"merge", "close", "delete_all", "force_merge", "stop"},
          updates : BOOLEAN,
          ops : Nat, merges : 0..MaxMerges, drops : Nat, failures : Nat]

ASSUME SchedulerAssumption ==
    /\ MaxThreadCount \in Nat \ {0} /\ BigMerge \in Nat /\ MaxMerges \in Nat
    /\ IsFiniteSet(Documents)
    /\ \A s \in Setups : s \in Setup /\ s.max_merge_count >= MaxThreadCount

MergeIds == 1..MaxMerges
Actors == Threads \union MergeIds

ASSUME ActorAssumption == Threads \intersect MergeIds = {} /\ None \notin Actors

VARIABLES
    setup,          \* the writer looked at, the same all along
    \* the writer, under the control lock
    segs,           \* the segments of the view
    merging,        \* Core.merging: the claimed segments
    pending,        \* PendingMerges: registered merges, oldest first
    running,        \* Core.running: the merges that have begun
    group,          \* the segments of each merge
    stopped,        \* merges_stopped
    paused_by,      \* merges_paused: the threads that hold merges back
    asleep,         \* the threads waiting on the `changed` condition
    \* the scheduler
    monitor,        \* the holder of the scheduler's lock
    list,           \* CmsState.merge_threads, in the order started
    handles,        \* the listed threads whose JoinHandle nobody took
    paused,         \* the merges at rate zero
    errors,         \* failures no sync has returned yet
    \* the merges
    aborted,        \* OneMergeProgress.aborted
    result,         \* how a merge's run ended
    \* the threads, merge threads included
    pc,
    job,            \* what a thread was called for
    target,         \* the merge a thread waits for
    \* bounds
    ops, added, drops, failures

writerVars == <<segs, merging, pending, running, group, stopped, paused_by, asleep>>
cmsVars == <<monitor, list, handles, paused, errors>>
boundVars == <<ops, added, drops, failures>>
vars == <<writerVars, cmsVars, aborted, result, pc, job, target, boundVars,
          setup>>

Scheduler == setup.scheduler
MaxMergeCount == setup.max_merge_count

Init ==
    /\ setup \in Setups
    /\ segs = {{d} : d \in setup.committed}
    /\ merging = {} /\ pending = <<>> /\ running = {}
    /\ group = [m \in MergeIds |-> {}]
    /\ stopped = FALSE /\ paused_by = {} /\ asleep = {}
    /\ monitor = None /\ list = <<>> /\ handles = {} /\ paused = {} /\ errors = 0
    /\ aborted = {}
    /\ result = [m \in MergeIds |-> "none"]
    /\ pc = [a \in Actors |-> IF a \in Threads THEN "idle" ELSE "none"]
    /\ job = [t \in Threads |-> "none"]
    /\ target = [t \in Threads |-> 0]
    /\ ops = 0 /\ added = setup.committed /\ drops = 0 /\ failures = 0

----------------------------------------------------------------------------
(* The parts actions are made of *)

Goto(a, label) == pc' = [pc EXCEPT ![a] = label]

Calls(t, j) ==
    /\ pc[t] = "idle" /\ j \in setup.jobs /\ ops < setup.ops
    /\ ops' = ops + 1
    /\ job' = [job EXCEPT ![t] = j]

Fails == failures < setup.failures /\ failures' = failures + 1

Claims(S) == UNION {group[m] : m \in S}

\* The merges registered so far have the identities below this one.
NextMerge == Cardinality({m \in MergeIds : group[m] # {}}) + 1

merges_blocked == stopped \/ paused_by # {}

\* find_scheduled_merges: the policy may propose any merges of free segments
\* that share none; here at most two at a time, each of two segments or more.
Proposals(S, claimed) ==
    LET groups == {g \in SUBSET (S \ claimed) : Cardinality(g) >= 2}
        all == {<<>>} \union {<<g>> : g \in groups}
                 \union {<<g, h>> : g \in groups, h \in groups}
    IN  {p \in all : /\ NextMerge + Len(p) <= setup.merges + 1
                     /\ Len(p) = 2 => p[1] \intersect p[2] = {}}

AddMerges(S, claimed) ==
    \E p \in Proposals(S, claimed) :
       LET new == NextMerge..(NextMerge + Len(p) - 1)
       IN  /\ merging' = claimed \union UNION Range(p)
           /\ pending' = pending \o [i \in 1..Len(p) |-> NextMerge + i - 1]
           /\ group' = [m \in MergeIds |-> IF m \in new THEN p[m - NextMerge + 1] ELSE group[m]]

\* Mutant: a merge registered although merges are held back.
RegisterAlways(S, claimed) == AddMerges(S, claimed)

\* register_merges over the view S, with `claimed` the segments in merges:
\* each proposed merge claims its segments and queues for the scheduler.
register_merges(S, claimed) ==
    IF merges_blocked THEN merging' = claimed /\ UNCHANGED <<pending, group>>
                      ELSE AddMerges(S, claimed)

----------------------------------------------------------------------------
(* The writer: segments come and go under the control lock *)

\* delete_all holds the full-flush lock and every slot until it returns.
DeletingAll == \E t \in Threads : pc[t] \in {"exclusive", "await"} /\ job[t] = "delete_all"

\* A full flush folds a new segment into the view, and wakes who waits.
Publish ==
    /\ ~DeletingAll
    /\ asleep' = {}
    /\ \E d \in Documents \ added :
         /\ added' = added \union {d}
         /\ segs' = segs \union {{d}}
    /\ UNCHANGED <<setup, merging, pending, running, group, stopped, paused_by, cmsVars, aborted,
                   result, pc, job, target, ops, drops, failures>>

\* drop_fully_deleted_segments: deletes that leave a segment without a live
\* document take it out of the view, whether or not a merge has claimed it.
DropSegment(s) ==
    /\ drops < setup.drops
    /\ drops' = drops + 1
    /\ segs' = segs \ {s}
    /\ asleep' = {}
    /\ UNCHANGED <<setup, merging, pending, running, group, stopped, paused_by, cmsVars, aborted,
                   result, pc, job, target, ops, added, failures>>

\* schedule_merges: register what the policy wants, then call the scheduler.
\* For "close" (close_merges) the scheduler is closed after.
ScheduleMerges(t, j) ==
    /\ Calls(t, j)
    /\ register_merges(segs, merging)
    /\ Goto(t, "enter")
    /\ UNCHANGED <<setup, segs, running, stopped, paused_by, asleep, cmsVars, aborted, result,
                   target, added, drops, failures>>

\* stop_merges: the flag first, then, under the lock, the registered merges.
StopMerges(t) ==
    /\ Calls(t, "stop")
    /\ stopped' = TRUE
    /\ Goto(t, "stopping")
    /\ UNCHANGED <<setup, segs, merging, pending, running, group, paused_by, asleep, cmsVars,
                   aborted, result, target, added, drops, failures>>

DropRegistered(t) ==
    /\ pc[t] = "stopping"
    /\ pending' = <<>>
    /\ merging' = merging \ Claims(Range(pending))
    /\ asleep' = {}
    /\ Goto(t, "idle")
    /\ UNCHANGED <<setup, segs, running, group, stopped, paused_by, cmsVars, aborted, result,
                   job, target, boundVars>>

\* delete_all takes its locks, with_writer_merges_aborted (a force merge)
\* holds merges back, before either takes the control lock.
CallExclusive(t, j) ==
    /\ Calls(t, j)
    /\ j = "delete_all" => ~DeletingAll
    /\ paused_by' = IF j = "force_merge" THEN paused_by \union {t} ELSE paused_by
    /\ Goto(t, "exclusive")
    /\ UNCHANGED <<setup, segs, merging, pending, running, group, stopped, asleep, cmsVars,
                   aborted, result, target, added, drops, failures>>

\* What a thread does with every merge gone: delete_all empties the view,
\* a force merge leaves one segment.
Body(t) ==
    /\ segs' = IF job[t] = "delete_all" \/ segs = {} THEN {} ELSE {UNION segs}
    /\ paused_by' = paused_by \ {t}
    /\ asleep' = {}
    /\ Goto(t, "idle")

\* The body once no segment is claimed, else wait for `changed`.
BodyOrWait(t) ==
    IF merging' = {} THEN Body(t)
                     ELSE /\ asleep' = asleep \union {t}
                          /\ Goto(t, "await")
                          /\ UNCHANGED <<segs, paused_by>>

\* abort_merges drops the registered merges and aborts the running ones.
AbortMerges(t) ==
    /\ pc[t] = "exclusive"
    /\ pending' = <<>>
    /\ merging' = merging \ Claims(Range(pending))
    /\ aborted' = aborted \union running
    /\ BodyOrWait(t)
    /\ UNCHANGED <<setup, running, group, stopped, cmsVars, result, job, target, boundVars>>

\* Mutant: a merge that begins while a thread waits is left alone.
AbortStartedNever == UNCHANGED aborted

AbortStarted == aborted' = aborted \union running

\* wait_for_merges: woken, a thread aborts what began meanwhile and looks again.
WaitForMerges(t) ==
    /\ pc[t] = "await" /\ t \notin asleep
    /\ AbortStarted
    /\ UNCHANGED <<setup, merging, pending>>
    /\ BodyOrWait(t)
    /\ UNCHANGED <<setup, running, group, stopped, cmsVars, result, job, target, boundVars>>

----------------------------------------------------------------------------
(* ConcurrentMergeScheduler *)

\* count_merge_threads: listed threads but the caller, their merge not aborted.
CountMergeThreads(a) == Cardinality((Range(list) \ {a}) \ aborted)

Size(m) == Cardinality(UNION group[m])

\* The listed threads that come before the j-th: largest first, the earlier
\* started first among equals.
Ahead(L, j) ==
    {i \in DOMAIN L : Size(L[i]) > Size(L[j]) \/ (Size(L[i]) = Size(L[j]) /\ i < j)}

\* update_merge_threads over the listed threads L: the big ones beyond
\* MaxThreadCount, largest first, are paused.
PausedOf(L) ==
    LET big == Cardinality({i \in DOMAIN L : Size(L[i]) > BigMerge})
    IN  {L[j] : j \in {k \in DOMAIN L : Cardinality(Ahead(L, k)) < big - MaxThreadCount}}

\* Where merge_locked leaves its caller.
Returned(a) ==
    IF a \in MergeIds THEN "leave" ELSE IF job[a] = "close" THEN "sync" ELSE "idle"

\* maybe_stall, entered from a producer, from a merge thread whose merge is
\* done, or again after each merge started.  A producer lets go of the monitor
\* and looks again a quarter of a second later; a merge thread goes home.
MaybeStall(a) ==
    /\ \/ pc[a] \in {"enter", "stalled", "done"} /\ monitor = None
       \/ pc[a] = "check" /\ monitor = a
    /\ IF pending # <<>> /\ CountMergeThreads(a) >= MaxMergeCount
         THEN IF a \in MergeIds THEN monitor' = a /\ Goto(a, "leave")
                                ELSE monitor' = None /\ Goto(a, "stalled")
         ELSE monitor' = a /\ Goto(a, "pop")
    /\ UNCHANGED <<setup, writerVars, list, handles, paused, errors, aborted, result, job,
                   target, boundVars>>

\* next_merge finds nothing: merge_locked returns.  A merge thread keeps the
\* monitor until it has left the list.
NextMergeNone(a) ==
    /\ pc[a] = "pop" /\ pending = <<>>
    /\ monitor' = IF a \in MergeIds THEN a ELSE None
    /\ Goto(a, Returned(a))
    /\ UNCHANGED <<setup, writerVars, list, handles, paused, errors, aborted, result, job,
                   target, boundVars>>

\* start_merge_thread: the new thread is listed before it can run.
StartMergeThread(a) ==
    /\ pc[a] = "pop" /\ pending # <<>>
    /\ LET m == Head(pending)
       IN  /\ list' = Append(list, m)
           /\ handles' = handles \union {m}
           /\ paused' = PausedOf(list')
           /\ pc' = [pc EXCEPT ![a] = "check", ![m] = "new"]
    /\ pending' = Tail(pending)
    /\ UNCHANGED <<setup, segs, merging, running, group, stopped, paused_by, asleep, monitor,
                   errors, aborted, result, job, target, boundVars>>

\* Mutant: a merge given back keeps its claims.
OnMergeFinishedKeeps(m) == UNCHANGED merging

on_merge_finished(m) == merging' = merging \ group[m]

\* The thread cannot be spawned: on_merge_finished gives the merge's segments
\* back and the call fails; a merge thread keeps the error for sync.
StartMergeThreadFails(a) ==
    /\ pc[a] = "pop" /\ pending # <<>>
    /\ Fails
    /\ pending' = Tail(pending)
    /\ on_merge_finished(Head(pending))
    /\ asleep' = {}
    /\ IF a \in MergeIds THEN /\ errors' = errors + 1
                              /\ UNCHANGED monitor
                              /\ Goto(a, "leave")
                         ELSE /\ monitor' = None
                              /\ UNCHANGED errors
                              /\ Goto(a, "idle")
    /\ UNCHANGED <<setup, segs, running, group, stopped, paused_by, list, handles, paused,
                   aborted, result, job, target, ops, added, drops>>

----------------------------------------------------------------------------
(* A merge, on a thread of its own or on the caller's (serial) *)

\* Mutant: a merge thread ends without asking for more merges.
OverLeaves(how) == IF Scheduler = "serial" THEN "ended" ELSE "failed"

\* Where a merge goes when it is over: the thread's, or back to its caller.
Over(how) ==
    IF Scheduler = "serial" THEN "ended" ELSE IF how = "failed" THEN "failed" ELSE "done"

\* run_scheduled_merge up to begin_merge.  A merge thread first waits for its
\* starter to let go of the monitor.
BeginMerge(m) ==
    /\ pc[m] = "new"
    /\ Scheduler = "concurrent" => monitor = None
    /\ group[m] \subseteq segs
    /\ running' = running \union {m}
    /\ asleep' = {}
    /\ Goto(m, "merging")
    /\ UNCHANGED <<setup, segs, merging, pending, group, stopped, paused_by, cmsVars, aborted,
                   result, job, target, boundVars>>

\* begin_merge fails: the claims are released.
BeginMergeFails(m) ==
    /\ pc[m] = "new"
    /\ Scheduler = "concurrent" => monitor = None
    /\ group[m] \subseteq segs
    /\ Fails
    /\ on_merge_finished(m)
    /\ asleep' = {}
    /\ result' = [result EXCEPT ![m] = "failed"]
    /\ Goto(m, Over("failed"))
    /\ UNCHANGED <<setup, segs, pending, running, group, stopped, paused_by, cmsVars, aborted,
                   job, target, ops, added, drops>>

\* begin_merge does not find a source in the view and panics, with nothing
\* released; the scheduler keeps the panic as a failure.
BeginMergePanics(m) ==
    /\ pc[m] = "new"
    /\ Scheduler = "concurrent" => monitor = None
    /\ ~(group[m] \subseteq segs)
    /\ result' = [result EXCEPT ![m] = "failed"]
    /\ Goto(m, Over("failed"))
    /\ UNCHANGED <<setup, writerVars, cmsVars, aborted, job, target, boundVars>>

\* run_merge_limited ends: an abort wins over what the run came to.
RunMerge(m) ==
    /\ pc[m] = "merging"
    /\ \/ /\ result' = [result EXCEPT ![m] = IF m \in aborted THEN "aborted" ELSE "ok"]
          /\ UNCHANGED failures
       \/ /\ m \notin aborted /\ Fails
          /\ result' = [result EXCEPT ![m] = "failed"]
    /\ Goto(m, "ran")
    /\ UNCHANGED <<setup, writerVars, cmsVars, aborted, job, target, ops, added, drops>>

\* Mutant: the sources are not looked up again.
SourcesPresentAssumed(m) == TRUE

SourcesPresent(m) == group[m] \subseteq segs

\* commit_merge: the view with the merged segment in place of its sources, or
\* as it is when one of them is gone.
Merged(m) ==
    IF SourcesPresent(m) THEN (segs \ group[m]) \union {UNION group[m]} ELSE segs

\* finish_merge publishes the merged segment if its sources are all there still
\* and no update changed their doc values meanwhile, else it abandons it; then
\* more merges are registered.  An unfinished merge is given up.
FinishMerge(m) ==
    /\ pc[m] = "ran"
    /\ running' = running \ {m}
    /\ asleep' = {}
    /\ IF result[m] = "ok"
         THEN /\ \/ segs' = Merged(m)
                 \/ setup.updates /\ segs' = segs
              /\ register_merges(segs', merging \ group[m])
         ELSE /\ on_merge_finished(m)
              /\ UNCHANGED <<segs, pending, group>>
    /\ Goto(m, Over(result[m]))
    /\ UNCHANGED <<setup, stopped, paused_by, cmsVars, aborted, result, job, target, boundVars>>

\* finish_merge fails, before commit_merge has changed the view or, at its
\* checkpoint, after: the claims are released and no merge is registered.
FinishMergeFails(m) ==
    /\ pc[m] = "ran" /\ result[m] = "ok"
    /\ Fails
    /\ running' = running \ {m}
    /\ asleep' = {}
    /\ segs' \in {segs, Merged(m)}
    /\ on_merge_finished(m)
    /\ result' = [result EXCEPT ![m] = "failed"]
    /\ Goto(m, Over("failed"))
    /\ UNCHANGED <<setup, pending, group, stopped, paused_by, cmsVars, aborted, job, target, ops,
                   added, drops>>

\* Mutant: the thread that leaves does not wake the paused merges.
UpdateOnLeaveSkipped(L) == paused

\* update_merge_threads, as the thread leaves.
UpdateOnLeave(L) == PausedOf(L)

Without(L, i) == SubSeq(L, 1, i - 1) \o SubSeq(L, i + 1, Len(L))

\* The end of run_merge_thread: a failure is kept, the thread leaves the list
\* and the others' rates are set again.
LeaveList(m) ==
    /\ \/ pc[m] = "leave" /\ monitor = m /\ UNCHANGED errors
       \/ pc[m] = "failed" /\ monitor = None /\ errors' = errors + 1
    /\ \E i \in DOMAIN list : list[i] = m /\ list' = Without(list, i)
    /\ handles' = handles \ {m}
    /\ paused' = UpdateOnLeave(list')
    /\ monitor' = None
    /\ Goto(m, "dropping")
    /\ UNCHANGED <<setup, writerVars, aborted, result, job, target, boundVars>>

\* Only then does it let go of its reference to the writer, and end.
DropSource(m) ==
    /\ pc[m] = "dropping"
    /\ Goto(m, "gone")
    /\ UNCHANGED <<setup, writerVars, cmsVars, aborted, result, job, target, boundVars>>

\* SerialMergeScheduler: the caller takes the next merge and runs it itself.
SerialNext(t) ==
    /\ \/ pc[t] = "enter" /\ monitor = None
       \/ pc[t] = "serial" /\ pc[target[t]] = "ended" /\ result[target[t]] = "ok"
    /\ IF pending = <<>>
         THEN /\ monitor' = None
              /\ Goto(t, Returned(t))
              /\ UNCHANGED <<pending, target>>
         ELSE /\ monitor' = t
              /\ pending' = Tail(pending)
              /\ target' = [target EXCEPT ![t] = Head(pending)]
              /\ pc' = [pc EXCEPT ![t] = "serial", ![Head(pending)] = "new"]
    /\ UNCHANGED <<setup, segs, merging, running, group, stopped, paused_by, asleep, list,
                   handles, paused, errors, aborted, result, job, boundVars>>

\* A merge that failed, or was aborted, ends the call with its error.
SerialFails(t) ==
    /\ pc[t] = "serial" /\ pc[target[t]] = "ended" /\ result[target[t]] # "ok"
    /\ monitor' = None
    /\ Goto(t, "idle")
    /\ UNCHANGED <<setup, writerVars, list, handles, paused, errors, aborted, result, job,
                   target, boundVars>>

----------------------------------------------------------------------------
(* close: sync joins the listed threads one at a time *)

TakeHandle(t) ==
    /\ pc[t] = "sync" /\ monitor = None
    /\ \E m \in handles :
         /\ handles' = handles \ {m}
         /\ target' = [target EXCEPT ![t] = m]
    /\ Goto(t, "join")
    /\ UNCHANGED <<setup, writerVars, monitor, list, paused, errors, aborted, result, job,
                   boundVars>>

Join(t) ==
    /\ pc[t] = "join" /\ pc[target[t]] = "gone"
    /\ Goto(t, "sync")
    /\ UNCHANGED <<setup, writerVars, cmsVars, aborted, result, job, target, boundVars>>

\* No thread is listed: sync returns the first failure kept, if any.
SyncReturns(t) ==
    /\ pc[t] = "sync" /\ monitor = None
    /\ list = <<>>
    /\ errors' = IF errors > 0 THEN errors - 1 ELSE 0
    /\ Goto(t, "idle")
    /\ UNCHANGED <<setup, writerVars, monitor, list, handles, paused, aborted, result, job,
                   target, boundVars>>

----------------------------------------------------------------------------
SchedulerStep(a) ==
    /\ Scheduler = "concurrent"
    /\ \/ MaybeStall(a)
       \/ NextMergeNone(a)
       \/ StartMergeThread(a)
       \/ StartMergeThreadFails(a)

MergeStep(m) ==
    \/ BeginMerge(m) \/ BeginMergeFails(m) \/ BeginMergePanics(m)
    \/ RunMerge(m)
    \/ FinishMerge(m) \/ FinishMergeFails(m)
    \/ LeaveList(m)
    \/ DropSource(m)

ThreadStep(t) ==
    \/ DropRegistered(t)
    \/ AbortMerges(t)
    \/ WaitForMerges(t)
    \/ Scheduler = "serial" /\ (SerialNext(t) \/ SerialFails(t))
    \/ TakeHandle(t) \/ Join(t) \/ SyncReturns(t)

Call(t) ==
    \/ \E j \in {"merge", "close"} : ScheduleMerges(t, j)
    \/ \E j \in {"delete_all", "force_merge"} : CallExclusive(t, j)
    \/ StopMerges(t)

\* Every thread back from its calls and every merge thread ended.
Quiet ==
    /\ \A t \in Threads : pc[t] = "idle"
    /\ \A m \in MergeIds : pc[m] \in {"none", "gone", "ended"}

Next ==
    \/ Publish
    \/ \E s \in segs : DropSegment(s)
    \/ \E t \in Threads : Call(t) \/ ThreadStep(t)
    \/ \E a \in Actors : SchedulerStep(a)
    \/ \E m \in MergeIds : MergeStep(m)
    \/ Quiet /\ UNCHANGED vars

\* A thread inside a call goes on; a merge goes on unless it is paused, and a
\* paused one does when it is aborted.
Fairness ==
    /\ \A t \in Threads : WF_vars(ThreadStep(t))
    /\ \A a \in Actors : WF_vars(SchedulerStep(a))
    /\ \A m \in MergeIds :
         /\ WF_vars(BeginMerge(m) \/ BeginMergeFails(m) \/ BeginMergePanics(m))
         /\ WF_vars(RunMerge(m) /\ m \notin paused \ aborted)
         /\ WF_vars(FinishMerge(m) \/ FinishMergeFails(m) \/ DropSource(m))
         /\ WF_vars(LeaveList(m))

Spec == Init /\ [][Next]_vars

FairSpec == Spec /\ Fairness

----------------------------------------------------------------------------
(* Properties *)

ThreadLabels == {"idle", "enter", "check", "pop", "stalled", "serial", "sync", "join",
                 "stopping", "exclusive", "await"}
MergeLabels == {"none", "new", "merging", "ran", "done", "check", "pop", "leave", "failed",
                "dropping", "gone", "ended"}

\* The merges that hold claims: registered, or taken and not finished.
Holding == Range(pending) \union {m \in MergeIds : pc[m] \in {"new", "merging", "ran"}}

\* The values of the variables of the writer and of its scheduler.
TypeOK ==
    /\ segs \subseteq SUBSET Documents /\ merging \subseteq SUBSET Documents
    /\ pending \in Seq(MergeIds) /\ running \subseteq MergeIds /\ aborted \subseteq MergeIds
    /\ group \in [MergeIds -> SUBSET SUBSET Documents]
    /\ stopped \in BOOLEAN /\ paused_by \subseteq Threads /\ asleep \subseteq Threads
    /\ monitor \in Actors \union {None}
    /\ list \in Seq(MergeIds) /\ handles \subseteq Range(list) /\ paused \subseteq Range(list)
    /\ errors \in Nat
    /\ result \in [MergeIds -> {"none", "ok", "aborted", "failed"}]
    /\ pc \in [Actors -> ThreadLabels \union MergeLabels]
    /\ \A t \in Threads : pc[t] \in ThreadLabels
    /\ \A m \in MergeIds : pc[m] \in MergeLabels
    /\ job \in [Threads -> {"none", "merge", "close", "delete_all", "force_merge", "stop"}]
    /\ target \in [Threads -> MergeIds \union {0}]
    /\ setup \in Setups /\ added \subseteq Documents
    /\ ops \in Nat /\ drops \in Nat /\ failures \in Nat

\* What merging promises (SegmentStore): seen from the view, a merge replaces
\* its sources by their union in one step and nothing else moves documents,
\* whatever deletes, aborts and failures happen while it runs (finish_merge).
Store == INSTANCE SegmentStore WITH segs <- segs, Documents <- Documents
MergesAreAtomic == Store!Spec

\* Every segment claimed in Core.merging is claimed by exactly one merge that
\* is registered or running: on every way out of a merge the claims are
\* released (register_merges, run_scheduled_merge, on_merge_finished,
\* abort_merges), so a wait for `merging` to empty waits for something.  That
\* is while no claimed segment was dropped: begin_merge panics over one.
EveryClaimHasAMerge ==
    /\ drops = 0 => merging = Claims(Holding)
    /\ \A m, n \in Holding : m # n => group[m] \intersect group[n] = {}

\* The comments of run_scheduled_merge and drop_fully_deleted_segments: the same
\* whatever becomes of the claimed segments.
ClaimsAreReleased == merging = Claims(Holding)

\* Once stop_merges has returned, or a force merge has aborted the merges and
\* waits for them, no merge is registered: merges_blocked is read under the
\* control lock, after the flag was set without it.
NoMergeRegisteredWhileBlocked ==
    \/ stopped /\ \A t \in Threads : pc[t] # "stopping"
    \/ \E t \in Threads : pc[t] = "await" /\ job[t] = "force_merge"
    => pending = <<>>

\* A thread that sleeps until the merges are gone sleeps on aborted ones only:
\* a merge taken from the queue before abort_merges ran and begun after it wakes
\* the sleeper (run_scheduled_merge), which aborts it before it sleeps again.
SleepersHaveAborted == asleep # {} => running \subseteq aborted

\* update_merge_threads: of the big merges on merge threads at most
\* MaxThreadCount are not paused, and no fewer when there are that many.
OnlyMaxThreadCountProceed ==
    LET big == {m \in Range(list) : Size(m) > BigMerge}
    IN  Cardinality(big \ paused)
          = IF Cardinality(big) <= MaxThreadCount THEN Cardinality(big) ELSE MaxThreadCount

\* close_merges with no other caller about and no failure: every merge wanted
\* has run, those registered by the merges themselves included, when the
\* scheduler's sync lets it return.
CloseLeavesNoMerge ==
    [][\A t \in Threads :
         /\ SyncReturns(t)
         /\ failures = 0 /\ drops = 0
         /\ \A u \in Threads \ {t} : pc[u] = "idle"
         => pending = <<>> /\ merging = {}]_vars

\* delete_all, rollback and force merges get their turn: the merges they wait
\* for are aborted, those that begin meanwhile too, and each release of a claim
\* wakes the waiting thread.
WaitersReturn == \A t \in Threads : pc[t] = "await" ~> pc[t] = "idle"

\* A producer that stalls in maybe_stall, and a thread that closes, get out
\* again; a merge thread that was started ends, paused or not.
StalledReturn ==
    /\ \A t \in Threads : pc[t] \in {"enter", "stalled", "sync", "join"} ~> pc[t] = "idle"
    /\ \A m \in MergeIds : pc[m] = "new" ~> pc[m] \in {"gone", "ended"}

\* The documentation of ConcurrentMergeScheduler: at most max_merge_count
\* merges run at once.
AtMostMaxMergeCount ==
    Cardinality({m \in MergeIds \ aborted : pc[m] \in {"new", "merging", "ran"}})
      <= MaxMergeCount

\* The comments of sync_where and run_merge_thread: when sync returns, no merge
\* thread is still finishing with a reference to the writer.
SyncWaitsForLeavingThreads ==
    [][\A t \in Threads : SyncReturns(t) => \A m \in MergeIds : pc[m] # "dropping"]_vars
=============================================================================
