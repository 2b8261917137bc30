-------------------------- MODULE MCMergeScheduler --------------------------
(* MergeScheduler for TLC: threads and documents are interchangeable. *)
EXTENDS MergeScheduler, TLC

Symmetry == Permutations(Threads) \union Permutations(Documents)

\* Four committed segments, three calls, no failure and no segment dropped.
Plain == [scheduler |-> "concurrent", max_merge_count |-> 1, committed |-> Documents,
          jobs |-> {"merge"}, updates |-> FALSE,
          ops |-> 3, merges |-> 3, drops |-> 0, failures |-> 0]

\* delete_all and stop_merges against merges that fail.
Aborts == [Plain EXCEPT !.jobs = {"merge", "delete_all", "stop"}, !.failures = 1]

\* A scheduler of two threads that is closed, force merges that hold merges back.
Closes == [Plain EXCEPT !.max_merge_count = 2, !.jobs = {"merge", "force_merge", "close"}]

\* Documents flushed while merges run, and segments that lose their last one.
Drops == [Plain EXCEPT !.max_merge_count = 2, !.committed = {}, !.jobs = {"merge", "delete_all"},
                       !.merges = 2, !.drops = 1, !.failures = 1]

\* Merges on the threads that call for them.
Serial == [Plain EXCEPT !.scheduler = "serial", !.failures = 1,
                        !.jobs = {"merge", "force_merge", "stop", "close"}]

\* Merges abandoned because doc values changed, and formed again.
Updates == [Plain EXCEPT !.max_merge_count = 2, !.jobs = {"merge", "delete_all"},
                         !.updates = TRUE, !.ops = 2, !.merges = 2]

AllSetups == {Aborts, Closes, Drops, Serial, Updates}

\* Waits: for delete_all, for a stalled producer, for close.
Waits == [Plain EXCEPT !.jobs = {"merge", "delete_all", "close"}, !.ops = 2, !.merges = 2]
WaitSetups == {Waits}

\* delete_all after a merge failed on the serial scheduler.
SerialWaits == [Plain EXCEPT !.scheduler = "serial", !.jobs = {"merge", "delete_all"}]
SerialWaitSetups == {SerialWaits}

\* A segment dropped under a registered merge.
PanicSetups == {[Plain EXCEPT !.max_merge_count = 2, !.ops = 2, !.merges = 2, !.drops = 1]}

\* Two producers at once, and a close while a merge thread ends.
CountSetups == {[Plain EXCEPT !.ops = 2, !.merges = 2]}
SyncSetups == {[Plain EXCEPT !.jobs = {"merge", "close"}, !.ops = 2, !.merges = 1]}
=============================================================================
