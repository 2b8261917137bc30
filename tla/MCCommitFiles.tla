--------------------------- MODULE MCCommitFiles ---------------------------
(* CommitFiles for TLC, on indexes of a few segments.  Readers, and the      *)
(* documents of a flush, are interchangeable.                                *)
EXTENDS CommitFiles, TLC

CONSTANTS r1, r2, d1, d2

Symmetry == Permutations({r1, r2}) \union Permutations({d1, d2})

Plain == [policy |-> "last", ops |-> {"flush"}, docs |-> {d1}, readers |-> {}, data |-> {},
          segments |-> 2, gens |-> 2, del_gens |-> 1, crashes |-> 0, failures |-> 0]

\* Crashes anywhere in flushes, two-phase commits, rollbacks and delete_all, and
\* twice in the life of an index.
Crashing == [Plain EXCEPT !.ops = {"flush", "prepare", "rollback", "delete_all"}, !.crashes = 1]
CrashingTwice == [Plain EXCEPT !.ops = {"prepare", "rollback"}, !.crashes = 2]
\* Directory operations that fail, up to the three of a commit that cannot be
\* taken back.
Failing == [Plain EXCEPT !.ops = {"flush", "prepare", "rollback", "delete_all"},
                         !.del_gens = 2, !.failures = 3]
CrashSetups == {Crashing, CrashingTwice, Failing}

\* Snapshots of a SnapshotDeletionPolicy, and commit holds, around commits.
Snapshots == [Plain EXCEPT !.policy = "snapshot", !.readers = {r1, r2}, !.segments = 3, !.gens = 3,
                           !.ops = {"commit", "snapshot", "delete_unused", "hold"}]
\* Near-real-time readers and a merge.
Reading == [Plain EXCEPT !.docs = {d1, d2}, !.readers = {r1}, !.del_gens = 2,
                         !.ops = {"commit", "nrt", "merge"}]
\* A merge of two segments, and what fails around it.
Merging == [Plain EXCEPT !.docs = {d1, d2}, !.segments = 3, !.failures = 1,
                         !.ops = {"flush", "commit", "merge"}]
\* Changes of the deletion policy, commits deleted by choice, commit data.
Policies == [Plain EXCEPT !.policy = "all", !.readers = {r1}, !.data = {1}, !.segments = 3,
                          !.gens = 3, !.failures = 1, !.ops = {"commit", "policy", "hold", "data"}]
\* Deletes through a reader.
Trying == [Plain EXCEPT !.docs = {d1, d2}, !.readers = {r1}, !.del_gens = 2, !.failures = 1,
                        !.ops = {"flush", "nrt", "try"}]
\* Near-real-time readers around two-phase commits.
Preparing == [Plain EXCEPT !.readers = {r1}, !.ops = {"prepare", "nrt"}]
UseSetups == {Snapshots, Reading, Merging, Policies, Trying, Preparing}

\* Indexes of one segment on which the code does not do what its text says.
Small == [Plain EXCEPT !.segments = 1, !.gens = 1, !.ops = {"prepare"}]
PreparedSetups == {[Small EXCEPT !.ops = @ \union {"delete_unused"}]}
DataSetups == {[Small EXCEPT !.ops = @ \union {"data"}, !.data = {1}]}
LeakSetups == {[Small EXCEPT !.ops = {"flush"}]}
NameSetups == {[Small EXCEPT !.ops = @ \union {"merge"}, !.segments = 3, !.gens = 2]}
\* A first commit, then a second one that deletes a document.
TrySetups == {[Small EXCEPT !.ops = @ \union {"try"}, !.docs = {d1, d2}, !.gens = 2,
                            !.del_gens = 2]}
RollbackSetups == {[Small EXCEPT !.ops = {"nrt", "commit", "rollback"}, !.docs = {d1, d2},
                                 !.readers = {r1}, !.del_gens = 2]}
=============================================================================
