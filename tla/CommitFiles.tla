---------------------------- MODULE CommitFiles ----------------------------
(***************************************************************************)
(* The files of an index and who keeps them: the IndexWriter's two-phase   *)
(* commit (index_writer.rs), the IndexFileDeleter's reference counts and   *)
(* deletion policies (index_file_deleter.rs, deletion_policy.rs), the pins *)
(* of near-real-time readers (nrt.rs), commit holds and running merges, on *)
(* a directory that may fail an operation, lose its process or lose power  *)
(* between any two of them.                                                *)
(*                                                                         *)
(* A call of the writer is a program: a sequence of steps, each of which   *)
(* performs at most one directory operation.  The steps of a running call  *)
(* are in `work`; a failing step unwinds them up to the next "catch" (an   *)
(* error the code ignores), as `?` does.  The writer is exclusive (&mut    *)
(* self, or the concurrent writer's control lock), so a call starts only   *)
(* when `work` is empty.  Readers being dropped, the merge itself, and the *)
(* snapshots of a SnapshotDeletionPolicy are other threads' steps, and     *)
(* happen at any time.                                                     *)
(***************************************************************************)
EXTENDS Integers, Sequences, FiniteSets, FiniteSetsExt, SequencesExt, Bags

CONSTANTS
    None,
    Setups    \* the indexes looked at

(* An index and its use: the deletion policy it is opened with, the calls     *)
(* made, the documents of one flush, the near-real-time readers and commit    *)
(* holds, the values of the commit's user data; and bounds on segments,       *)
(* commit generations, .liv generations, crashes and failing operations.      *)
Fields == {"policy", "ops", "docs", "readers", "data", "segments", "gens", "del_gens",
           "crashes", "failures"}

ASSUME SetupAssumption ==
    \A s \in Setups : DOMAIN s = Fields /\ s.policy \in {"last", "all", "snapshot"}

VARIABLES
    setup,    \* the index looked at, the same all along
    dir,      \* the directory: names, the namespaces a power loss may leave, unsynced files
    commit,   \* generation -> what its (pending_)segments_N names
    up,       \* an open writer exists
    w,        \* the IndexWriter
    del,      \* its IndexFileDeleter
    nrt,      \* its NrtState, and the pins readers hold
    snaps,    \* SnapshotDeletionPolicy: references per generation, last commit
    merge,    \* the running merge, or None
    work,     \* the steps left of the running call
    crashes, failures,
    published, wanted, deleted, handed, used    \* history, see the properties

vars == <<dir, commit, up, w, del, nrt, snaps, merge, work, crashes, failures,
          published, wanted, deleted, handed, used, setup>>

Docs == setup.docs
Readers == setup.readers

-----------------------------------------------------------------------------
(* Files.  A segment's own files are written together and stand as one.    *)

Seg(n) == <<"seg", n, 0>>
Liv(n, g) == <<"liv", n, g>>
Segments(g) == <<"segments", g, 0>>
Pending(g) == <<"pending_segments", g, 0>>

IsSegments(f) == f[1] = "segments"

(* A segment list: name -> its documents, its deletion generation (0: none), *)
(* the generation the next .liv gets, and the documents that .liv deletes.   *)
FilesOf(view) ==
    UNION {{Seg(n)} \union (IF view[n].gen > 0 THEN {Liv(n, view[n].gen)} ELSE {}) :
             n \in DOMAIN view}

CommitFilesOf(g) == FilesOf(commit[g].view) \union {Segments(g)}

Join(a, b) == [n \in DOMAIN a \union DOMAIN b |-> IF n \in DOMAIN b THEN b[n] ELSE a[n]]
Without(view, S) == [n \in DOMAIN view \ S |-> view[n]]

live_infos == Join(w.infos, w.flushed)

(* What a commit persists of a segment list, and an NRT key tells apart. *)
Persisted(view) == [n \in DOMAIN view |-> <<view[n].gen, Cardinality(view[n].dels)>>]

(* The namespaces a power loss may leave are those the directory has had   *)
(* since its metadata was last synced (crashing_directory.rs); instances   *)
(* without crashes do not keep them.                                       *)
Seen(names) == IF setup.crashes = 0 THEN {} ELSE names

Changed(names, between) ==
    [dir EXCEPT !.names = names, !.images = @ \union Seen(between \union {names})]

MetaSynced ==
    [dir EXCEPT !.images = Seen({dir.names}), !.unsynced = @ \intersect dir.names]

-----------------------------------------------------------------------------
(* Programs *)

Step(op) == work # <<>> /\ Head(work)[1] = op
Continue(steps) == work' = steps \o Tail(work)

Unwound(s) ==
    LET catches == {i \in DOMAIN s : s[i][1] = "catch"}
    IN IF catches = {} THEN <<>> ELSE SubSeq(s, Min(catches) + 1, Len(s))

Fail == work' = Unwound(Tail(work))

MayFail(n) == failures + n <= setup.failures /\ failures' = failures + n

Catch ==
    /\ Step("catch")
    /\ Continue(<<>>)
    /\ UNCHANGED <<setup, dir, commit, up, w, del, nrt, snaps, merge, crashes, failures,
                   published, wanted, deleted, handed, used>>

Error ==
    /\ Step("error")
    /\ Fail
    /\ UNCHANGED <<setup, dir, commit, up, w, del, nrt, snaps, merge, crashes, failures,
                   published, wanted, deleted, handed, used>>

-----------------------------------------------------------------------------
(* IndexFileDeleter *)

inc_ref_all(refs, files) == refs (+) SetToBag(files)
dec_ref_all(refs, files) == refs (-) SetToBag(files)

(* Mutant: a released file is deleted whatever else counts it. *)
DeadUncounted(refs, files) == files

Dead(refs, files) == {f \in files : ~BagIn(f, refs)}

DeleteSteps(files) == IF files = {} THEN <<>> ELSE <<<<"delete", files>>>>

(* Mutant: the passes of delete_files swapped. *)
SegmentsLast(files) ==
    IF \A f \in files : IsSegments(f) THEN files ELSE {f \in files : ~IsSegments(f)}

(* The files the next pass of delete_files tries: every segments_N first. *)
Pass(files) ==
    LET commitFiles == {f \in files : IsSegments(f)}
    IN IF commitFiles # {} THEN commitFiles ELSE files

(* One pass of delete_files.  Every file of a pass is tried; a failure ends *)
(* the call after the pass, so the other files go only once every           *)
(* segments_N is gone.  A name that is not there fails.                     *)
delete_files ==
    /\ Step("delete")
    /\ LET files == Head(work)[2]
           pass == Pass(files)
       IN \E bad \in SUBSET (pass \intersect dir.names) :
            /\ MayFail(Cardinality(bad))
            /\ dir' = Changed(dir.names \ (pass \ bad),
                              {dir.names \ gone : gone \in SUBSET (pass \ bad)})
            /\ del' = [del EXCEPT !.synced = @ \ pass]
            /\ IF bad \union (pass \ dir.names) = {}
                 THEN Continue(DeleteSteps(files \ pass))
                 ELSE Fail
    /\ UNCHANGED <<setup, commit, up, w, nrt, snaps, merge, crashes, published, wanted, deleted,
                   handed, used>>

DecRef ==
    /\ Step("dec")
    /\ LET files == Head(work)[2]
           refs == dec_ref_all(del.refs, files)
       IN /\ del' = [del EXCEPT !.refs = refs]
          /\ Continue(DeleteSteps(Dead(refs, files)))
    /\ UNCHANGED <<setup, dir, commit, up, w, nrt, snaps, merge, crashes, failures, published,
                   wanted, deleted, handed, used>>

CheckpointedFiles == FilesOf(live_infos)

(* checkpoint(live_infos, false): the live view's files are counted, the    *)
(* last view's released.  `last_files` is only set once they are deleted:   *)
(* it is empty while they are, and stays empty when a delete fails.         *)
Checkpoint ==
    /\ Step("checkpoint")
    /\ LET files == CheckpointedFiles
           refs == dec_ref_all(inc_ref_all(del.refs, files), del.last)
           dead == Dead(refs, del.last)
       IN /\ del' = [del EXCEPT !.refs = refs, !.last = IF dead = {} THEN files ELSE {}]
          /\ Continue(IF dead = {} THEN <<>> ELSE <<<<"delete", dead>>, <<"last", files>>>>)
    /\ UNCHANGED <<setup, dir, commit, up, w, nrt, snaps, merge, crashes, failures, published,
                   wanted, deleted, handed, used>>

SetLastFiles ==
    /\ Step("last")
    /\ del' = [del EXCEPT !.last = Head(work)[2]]
    /\ Continue(<<>>)
    /\ UNCHANGED <<setup, dir, commit, up, w, nrt, snaps, merge, crashes, failures, published,
                   wanted, deleted, handed, used>>

(* checkpoint(published, true), up to the policy it then applies. *)
CheckpointCommit ==
    /\ Step("commit_point")
    /\ del' = [del EXCEPT !.refs = inc_ref_all(@, CommitFilesOf(w.gen)),
                          !.commits = @ \union {w.gen}]
    /\ Continue(<<<<"policy">>>>)
    /\ UNCHANGED <<setup, dir, commit, up, w, nrt, snaps, merge, crashes, failures, published,
                   wanted, deleted, handed, used>>

(* Mutant: the files of a deleted commit point are not released. *)
ReleasesNothing(gens) == <<>>

Releases(gens) ==
    [i \in 1..Cardinality(gens) |->
        <<"dec", CommitFilesOf(SetToSortSeq(gens, LAMBDA a, b : a < b)[i])>>]

(* Mutant: the snapshot policy lets its primary policy decide. *)
DoomedSnapshots ==
    IF del.policy = "all" \/ del.commits = {} THEN {} ELSE del.commits \ {Max(del.commits)}

(* Mutant: the policy keeps the oldest commit. *)
DoomedNewest == IF del.policy = "all" \/ del.commits = {} THEN {} ELSE del.commits \ {Min(del.commits)}

(* The commits the policy deletes: all but the newest, none, or all but the *)
(* newest and the snapshotted ones.                                         *)
Doomed ==
    CASE del.policy = "all" \/ del.commits = {} -> {}
      [] del.policy = "last" -> del.commits \ {Max(del.commits)}
      [] del.policy = "snapshot" -> del.commits \ ({Max(del.commits)} \union BagToSet(snaps.refs))

apply_policy ==
    /\ Step("policy")
    /\ del' = [del EXCEPT !.commits = @ \ Doomed]
    /\ snaps' = IF del.policy = "snapshot" /\ del.commits # {}
                  THEN [snaps EXCEPT !.last = Max(del.commits)] ELSE snaps
    /\ Continue(Releases(Doomed))
    /\ UNCHANGED <<setup, dir, commit, up, w, nrt, merge, crashes, failures, published, wanted,
                   deleted, handed, used>>

refresh ==
    /\ Step("refresh")
    /\ Continue(DeleteSteps({f \in dir.names : ~BagIn(f, del.refs)}))
    /\ UNCHANGED <<setup, dir, commit, up, w, del, nrt, snaps, merge, crashes, failures,
                   published, wanted, deleted, handed, used>>

(* release_nrt_holds: every pin handed back is released even when one fails; *)
(* no pin names a segments_N, so the deletions are one pass.                 *)
release_nrt_holds ==
    /\ Step("release")
    /\ LET refs == del.refs (-) nrt.returned
       IN /\ del' = [del EXCEPT !.refs = refs]
          /\ Continue(DeleteSteps(Dead(refs, BagToSet(nrt.returned))))
    /\ nrt' = [nrt EXCEPT !.returned = EmptyBag]
    /\ UNCHANGED <<setup, dir, commit, up, w, snaps, merge, crashes, failures, published, wanted,
                   deleted, handed, used>>

-----------------------------------------------------------------------------
(* Writing files.  A name that exists is refused (create_output); a write   *)
(* that fails later deletes what it created, and that delete may fail too.  *)

(* begin_segment, build_and_write_segment and the publish of the segment. *)
Build ==
    /\ Step("build")
    /\ LET f == Seg(w.counter)
           new == [n \in {w.counter} |->
                     [docs |-> {<<n, d>> : d \in Docs}, gen |-> 0, next |-> 1, dels |-> {}]]
       IN \/ /\ f \notin dir.names
             /\ dir' = [Changed(dir.names \union {f}, {}) EXCEPT !.unsynced = @ \union {f}]
             /\ w' = [w EXCEPT !.counter = @ + 1, !.buffered = FALSE,
                               !.flushed = Join(@, new)]
             /\ used' = used \union {f}
             /\ Continue(<<>>)
             /\ UNCHANGED failures
          \/ /\ w' = [w EXCEPT !.counter = @ + 1]
             /\ Fail
             /\ \/ f \in dir.names /\ UNCHANGED <<dir, failures, used>>
                \/ /\ f \notin dir.names
                   /\ \E left \in SUBSET {f} :
                        /\ MayFail(1 + Cardinality(left))
                        /\ dir' = [Changed(dir.names \union left, {dir.names \union {f}})
                                     EXCEPT !.unsynced = @ \union left]
                   /\ used' = used \union {f}
    /\ UNCHANGED <<setup, commit, up, del, nrt, snaps, merge, crashes, published, wanted,
                   deleted, handed>>

(* Mutant: a failed apply drops the packets it took. *)
OwedDropped(failed) == IF Step("apply") THEN {} ELSE w.owed

(* restore_pending: a failed apply puts its packets back. *)
OwedAfter(failed) == IF Step("apply") /\ failed = {} THEN {} ELSE w.owed

TriesAfter(failed, left) == IF Step("apply") \/ failed # {} THEN w.tries ELSE left

(* apply_deletes: a new .liv generation for each of `targets`, deleting    *)
(* `gone`.  The writes of `bad` fail, leaving the files of `left`; a failed *)
(* write burns its generation (advanceNextWriteDelGen).  The segments are   *)
(* written in parallel and each is tried.                                   *)
WriteLiv(targets, gone, bad, left) ==
    LET live == live_infos
        liv(n) == Liv(n, live[n].next)
        refused == {n \in targets : liv(n) \in dir.names}
        failed == bad \union refused
        tried == {liv(n) : n \in targets \ refused}
        files == {liv(n) : n \in (targets \ failed) \union left}
        new(n) == CASE n \in failed -> [live[n] EXCEPT !.next = @ + 1]
                    [] n \in targets \ failed ->
                         [live[n] EXCEPT !.gen = live[n].next, !.next = @ + 1,
                                         !.dels = @ \union (gone \intersect live[n].docs)]
                    [] OTHER -> live[n]
        full == IF failed # {} THEN {}
                ELSE {n \in DOMAIN live : /\ gone \intersect live[n].docs # {}
                                          /\ live[n].docs \subseteq live[n].dels \union gone}
    IN /\ bad \subseteq targets \ refused /\ left \subseteq bad
       /\ MayFail(Cardinality(bad) + Cardinality(left))
       /\ dir' = [Changed(dir.names \union files, {dir.names \union F : F \in SUBSET tried})
                    EXCEPT !.unsynced = @ \union files]
       /\ used' = used \union tried
       /\ w' = [w EXCEPT !.infos = [n \in DOMAIN @ \ full |-> new(n)],
                         !.flushed = [n \in DOMAIN @ \ full |-> new(n)],
                         !.owed = OwedAfter(failed),
                         !.tries = TriesAfter(failed, {t \in w.tries :
                                                         t[1] \in DOMAIN live \ targets})]
       /\ CASE failed = {} -> Continue(IF Step("try") THEN <<<<"try">>>> ELSE <<>>)
            [] failed # {} /\ Step("try") -> Continue(<<<<"checkpoint">>, <<"error">>>>)
            [] OTHER -> Fail

(* apply_stream_packets: the buffered deletes against every segment they   *)
(* reach, dropping the segments they leave fully deleted.                  *)
apply_stream_packets ==
    /\ Step("apply")
    /\ LET targets == {n \in DOMAIN live_infos :
                          w.owed \intersect (live_infos[n].docs \ live_infos[n].dels) # {}}
       IN \E bad \in SUBSET targets : \E left \in SUBSET bad :
            WriteLiv(targets, w.owed, bad, left)
    /\ UNCHANGED <<setup, commit, up, del, nrt, snaps, merge, crashes, published, wanted,
                   deleted, handed>>

(* write_pending_try_changes: one .liv for each segment with buffered       *)
(* try_delete_documents, then a checkpoint; the first failure keeps the     *)
(* rest buffered and is returned after the checkpoint.                      *)
write_pending_try_changes ==
    /\ Step("try")
    /\ IF w.tries = {}
         THEN /\ Continue(<<<<"checkpoint">>>>)
              /\ UNCHANGED <<dir, w, failures, used>>
         ELSE \E t \in w.tries : \E bad \in SUBSET ({t[1]} \intersect DOMAIN live_infos) :
                \E left \in SUBSET bad :
                  WriteLiv({t[1]} \intersect DOMAIN live_infos,
                           {u[2] : u \in {v \in w.tries : v[1] = t[1]}}, bad, left)
    /\ UNCHANGED <<setup, commit, up, del, nrt, snaps, merge, crashes, published, wanted,
                   deleted, handed>>

(* try_delete_document leaving its segment without a live document: written *)
(* at once.                                                                 *)
write_try_deletes ==
    /\ Step("try_now")
    /\ LET n == Head(work)[2]
       IN \E bad \in SUBSET {n} : \E left \in SUBSET bad :
            WriteLiv({n}, {u[2] : u \in {v \in w.tries : v[1] = n}}, bad, left)
    /\ UNCHANGED <<setup, commit, up, del, nrt, snaps, merge, crashes, published, wanted,
                   deleted, handed>>

-----------------------------------------------------------------------------
(* The two phases of a commit *)

ToSync(view) == FilesOf(view) \ del.synced

(* prepare_commit_excluding after its flush: nothing to commit, or the new *)
(* SegmentInfos, whose files are synced before its pending file is written. *)
Stage ==
    /\ Step("stage")
    /\ LET view == live_infos
           infos == [view |-> view, gen |-> w.gen + 1, counter |-> w.counter, user |-> w.user,
                     version |-> Max({w.version + 1, nrt.max_version + 1})]
           unchanged == ~w.dirty /\ Persisted(view) = Persisted(w.rollback_segments)
       IN Continue(IF unchanged THEN <<>>
                   ELSE <<<<"sync", ToSync(view)>>, <<"meta", infos>>,
                          <<"write_pending", infos>>>>)
    /\ UNCHANGED <<setup, dir, commit, up, w, del, nrt, snaps, merge, crashes, failures,
                   published, wanted, deleted, handed, used>>

sync_commit_files ==
    /\ Step("sync")
    /\ \/ /\ dir' = [dir EXCEPT !.unsynced = @ \ Head(work)[2]]
          /\ del' = [del EXCEPT !.synced = @ \union Head(work)[2]]
          /\ Continue(<<>>)
          /\ UNCHANGED failures
       \/ MayFail(1) /\ Fail /\ UNCHANGED <<dir, del>>
    /\ UNCHANGED <<setup, commit, up, w, nrt, snaps, merge, crashes, published, wanted, deleted,
                   handed, used>>

(* The sync_meta_data that opens write_pending.  Once write_pending is      *)
(* called the generation is taken, whatever comes of it.                    *)
SyncMeta ==
    /\ Step("meta")
    /\ \/ /\ dir' = MetaSynced
          /\ Continue(<<>>)
          /\ UNCHANGED <<w, failures>>
       \/ /\ MayFail(1)
          /\ w' = [w EXCEPT !.gen = Head(work)[2].gen]
          /\ Fail
          /\ UNCHANGED dir
    /\ UNCHANGED <<setup, commit, up, del, nrt, snaps, merge, crashes, published, wanted,
                   deleted, handed, used>>

(* The writer's generation follows the commit's, whether it is written or not. *)
GenerationAfter(infos) == infos.gen

write_pending ==
    /\ Step("write_pending")
    /\ LET infos == Head(work)[2]
           f == Pending(infos.gen)
       IN \/ /\ f \notin dir.names
             /\ dir' = Changed(dir.names \union {f}, {})
             /\ commit' = [commit EXCEPT ![infos.gen] = infos]
             /\ w' = [w EXCEPT !.gen = GenerationAfter(infos), !.prepared = infos,
                               !.redirty = FALSE]
             /\ used' = used \union {f}
             /\ Continue(<<>>)
             /\ UNCHANGED failures
          \/ /\ w' = [w EXCEPT !.gen = GenerationAfter(infos)]
             /\ Fail
             /\ \/ f \in dir.names /\ UNCHANGED <<dir, failures, used>>
                \/ /\ f \notin dir.names
                   /\ \E left \in SUBSET {f} :
                        /\ MayFail(1 + Cardinality(left))
                        /\ dir' = Changed(dir.names \union left, {dir.names \union {f}})
                   /\ used' = used \union {f}
             /\ UNCHANGED commit
    /\ UNCHANGED <<setup, up, del, nrt, snaps, merge, crashes, published, wanted, deleted,
                   handed>>

(* finish_commit: nothing to publish, or the rename and what follows it. *)
finish_commit ==
    /\ Step("finish")
    /\ Continue(IF w.prepared = None THEN <<>> ELSE <<<<"rename">>, <<"publish">>>>)
    /\ UNCHANGED <<setup, dir, commit, up, w, del, nrt, snaps, merge, crashes, failures,
                   published, wanted, deleted, handed, used>>

(* finish_pending's rename.  On any failure the prepared commit stays. *)
Rename ==
    /\ Step("rename")
    /\ LET g == w.prepared.gen
       IN \/ /\ Pending(g) \in dir.names
             /\ dir' = Changed((dir.names \ {Pending(g)}) \union {Segments(g)}, {})
             /\ Continue(<<>>)
             /\ UNCHANGED failures
          \/ /\ Pending(g) \in dir.names /\ MayFail(1)
             /\ Fail /\ UNCHANGED dir
          \/ /\ Pending(g) \notin dir.names
             /\ Fail /\ UNCHANGED <<dir, failures>>
    /\ UNCHANGED <<setup, commit, up, w, del, nrt, snaps, merge, crashes, published, wanted,
                   deleted, handed, used>>

Contents(view) == [n \in DOMAIN view |-> view[n].dels]

(* finish_pending's sync_meta_data, and what finish_commit installs.  When  *)
(* the sync fails the file is renamed back, or deleted when that fails too. *)
Publish ==
    /\ Step("publish")
    /\ LET infos == w.prepared
           back == (dir.names \ {Segments(infos.gen)}) \union {Pending(infos.gen)}
       IN \/ /\ dir' = MetaSynced
             /\ w' = [w EXCEPT !.infos = infos.view, !.flushed = <<>>, !.gen = infos.gen,
                               !.counter = infos.counter, !.version = infos.version,
                               !.user = infos.user, !.dirty = w.redirty,
                               !.rollback_segments = infos.view, !.prepared = None]
             /\ published' = infos.gen
             /\ handed' = handed \union {<<infos.version, Contents(infos.view)>>}
             /\ Continue(<<<<"checkpoint">>, <<"commit_point">>>>)
             /\ UNCHANGED failures
          \/ /\ \/ MayFail(1) /\ dir' = Changed(back, {})
                \/ MayFail(2) /\ dir' = Changed(dir.names \ {Segments(infos.gen)}, {})
                \/ MayFail(3) /\ UNCHANGED dir
             /\ Fail
             /\ UNCHANGED <<w, published, handed>>
    /\ UNCHANGED <<setup, commit, up, del, nrt, snaps, merge, crashes, wanted, used, deleted>>

-----------------------------------------------------------------------------
(* Near-real-time snapshots and running merges *)

(* Mutant: a view the last commit wrote gets the commit's version even when *)
(* a later snapshot was given one above it.                                 *)
VersionOfCommit(keys) ==
    CASE nrt.last # None /\ nrt.last[1] = keys -> nrt.last[2]
      [] OTHER -> w.version

(* The version nrt_snapshot_of_live_view gives a view. *)
SnapshotVersion(keys) ==
    CASE nrt.last # None /\ nrt.last[1] = keys -> nrt.last[2]
      [] /\ nrt.last = None \/ nrt.last[1] # keys
         /\ keys = Persisted(w.rollback_segments) /\ nrt.max_version <= w.version -> w.version
      [] OTHER -> Max({nrt.max_version, w.version}) + 1

nrt_snapshot_of_live_view ==
    /\ Step("snap")
    /\ LET keys == Persisted(live_infos)
           version == SnapshotVersion(keys)
       IN /\ nrt' = [nrt EXCEPT !.max_version = Max({@, version}), !.last = <<keys, version>>,
                                !.holds[Head(work)[2]] = [kind |-> "nrt",
                                                          files |-> FilesOf(live_infos)]]
          /\ handed' = handed \union {<<version, Contents(live_infos)>>}
    /\ del' = [del EXCEPT !.refs = inc_ref_all(@, FilesOf(live_infos))]
    /\ Continue(<<>>)
    /\ UNCHANGED <<setup, dir, commit, up, w, snaps, merge, crashes, failures, published, wanted,
                   used, deleted>>

(* hold_commit: pins the segment files of a commit, not its segments_N. *)
hold_commit ==
    /\ Step("hold")
    /\ LET files == FilesOf(commit[Head(work)[3]].view)
       IN /\ nrt' = [nrt EXCEPT !.holds[Head(work)[2]] = [kind |-> "commit", files |-> files]]
          /\ del' = [del EXCEPT !.refs = inc_ref_all(@, files)]
    /\ Continue(<<>>)
    /\ UNCHANGED <<setup, dir, commit, up, w, snaps, merge, crashes, failures, published, wanted,
                   deleted, handed, used>>

(* Mutant: a merge takes no reference on its sources' files. *)
MergeHoldsNothing(view) == {}

MergeHolds(view) == FilesOf(view)

begin_merge ==
    /\ Step("begin_merge")
    /\ LET src == [n \in Head(work)[2] |-> w.infos[n]]
       IN /\ merge' = [src |-> src, out |-> w.counter, done |-> FALSE, held |-> MergeHolds(src)]
          /\ del' = [del EXCEPT !.refs = inc_ref_all(@, MergeHolds(src))]
    /\ w' = [w EXCEPT !.counter = @ + 1]
    /\ Continue(<<>>)
    /\ UNCHANGED <<setup, dir, commit, up, nrt, snaps, crashes, failures, published, wanted,
                   deleted, handed, used>>

(* run_merge, without the lock: reads the sources and writes the merged     *)
(* segment.  One that fails, or finds its name taken, deletes what it wrote *)
(* and is aborted (AbortMerge).                                             *)
run_merge ==
    /\ merge # None /\ ~merge.done /\ Seg(merge.out) \notin dir.names
    /\ dir' = [Changed(dir.names \union {Seg(merge.out)}, {})
                 EXCEPT !.unsynced = @ \union {Seg(merge.out)}]
    /\ merge' = [merge EXCEPT !.done = TRUE]
    /\ used' = used \union {Seg(merge.out)}
    /\ UNCHANGED <<setup, commit, up, w, del, nrt, snaps, work, crashes, failures, published,
                   wanted, deleted, handed>>

MergedDocs == UNION {merge.src[n].docs \ merge.src[n].dels : n \in DOMAIN merge.src}

(* Mutant: deletes made while the merge ran are not carried over. *)
CarriedNone == {}

(* The documents deleted from the sources while the merge ran. *)
Carried == MergedDocs \intersect UNION {w.infos[n].dels : n \in DOMAIN merge.src}

(* finish_merge_holding and commit_merge: abandoned when a source is gone;   *)
(* deletes made meanwhile are carried over in a .liv of the merged segment,  *)
(* whose write may fail; refused while a commit is prepared.                 *)
finish_merge ==
    /\ Step("finish_merge")
    /\ LET out == merge.out
           gone == DOMAIN merge.src \ DOMAIN w.infos
           carried == IF gone # {} THEN {} ELSE Carried
           liv == IF carried = {} THEN {} ELSE {Liv(out, 1)}
           merged == [n \in {out} |-> [docs |-> MergedDocs, gen |-> Cardinality(liv),
                                       next |-> Cardinality(liv) + 1, dels |-> carried]]
       IN \/ /\ dir' = [Changed(dir.names \union liv, {}) EXCEPT !.unsynced = @ \union liv]
             /\ CASE gone # {} -> Continue(DeleteSteps({Seg(out)})) /\ UNCHANGED w
                  [] gone = {} /\ w.prepared # None -> Fail /\ UNCHANGED w
                  [] OTHER -> /\ w' = [w EXCEPT !.infos = Join(Without(@, DOMAIN merge.src),
                                                                merged)]
                              /\ Continue(<<<<"checkpoint">>>>)
             /\ used' = used \union liv
             /\ UNCHANGED failures
          \/ /\ liv # {}
             /\ \E left \in SUBSET liv :
                  /\ MayFail(1 + Cardinality(left))
                  /\ dir' = [Changed(dir.names \union left, {dir.names \union liv})
                               EXCEPT !.unsynced = @ \union left]
             /\ Fail
             /\ used' = used \union liv
             /\ UNCHANGED w
    /\ merge' = None
    /\ UNCHANGED <<setup, commit, up, del, nrt, snaps, crashes, published, wanted, deleted,
                   handed>>

-----------------------------------------------------------------------------
(* The calls of the writer *)

Idle == up /\ work = <<>>

Call(op, steps) ==
    /\ Idle /\ op \in setup.ops
    /\ work' = (IF w.tries = {} THEN <<>> ELSE <<<<"try">>>>) \o steps

(* flush: the dropped readers' pins, the buffered documents, the deletes. *)
FlushSteps(buffered) ==
    <<<<"release">>>> \o (IF buffered THEN <<<<"build">>, <<"checkpoint">>>> ELSE <<>>)
    \o <<<<"apply">>, <<"checkpoint">>>>

LiveDocs == UNION {live_infos[n].docs \ live_infos[n].dels :
                     n \in {m \in DOMAIN live_infos : live_infos[m].next <= setup.del_gens}}

(* The documents and deletes buffered since the last call. *)
Buffer(add, gone) ==
    /\ add => w.counter < setup.segments
    /\ gone \subseteq LiveDocs \ w.owed
    /\ w' = [w EXCEPT !.buffered = @ \/ add, !.owed = @ \union gone]
    /\ deleted' = deleted \union gone

Flush(add, gone) ==
    /\ w.prepared = None /\ (add \/ gone # {})
    /\ Buffer(add, gone)
    /\ Call("flush", FlushSteps(w'.buffered))
    /\ UNCHANGED <<setup, dir, commit, up, del, nrt, snaps, merge, crashes, failures, published,
                   wanted, handed, used>>

PrepareCommit(add, gone) ==
    /\ w.prepared = None /\ w.gen < setup.gens
    /\ Buffer(add, gone)
    /\ Call("prepare", FlushSteps(w'.buffered) \o <<<<"stage">>>>)
    /\ UNCHANGED <<setup, dir, commit, up, del, nrt, snaps, merge, crashes, failures, published,
                   wanted, handed, used>>

FinishCommit ==
    /\ w.prepared # None
    /\ \E op \in {"prepare", "commit"} : Call(op, <<<<"finish">>>>)
    /\ UNCHANGED <<setup, dir, commit, up, w, del, nrt, snaps, merge, crashes, failures,
                   published, wanted, deleted, handed, used>>

Commit(add, gone) ==
    /\ w.prepared = None /\ w.gen < setup.gens
    /\ Buffer(add, gone)
    /\ Call("commit", FlushSteps(w'.buffered) \o <<<<"stage">>, <<"finish">>>>)
    /\ UNCHANGED <<setup, dir, commit, up, del, nrt, snaps, merge, crashes, failures, published,
                   wanted, handed, used>>

(* rollback: the state, the pending file (its failure ignored), then a       *)
(* checkpoint and a sweep whose failures are ignored too.                    *)
Rollback ==
    /\ Idle /\ "rollback" \in setup.ops /\ merge = None
    /\ w' = [w EXCEPT !.infos = w.rollback_segments, !.flushed = <<>>, !.owed = {},
                      !.tries = {}, !.buffered = FALSE, !.prepared = None]
    /\ deleted' = {}
    /\ \E left \in SUBSET {Pending(w.prepared.gen) : i \in IF w.prepared = None THEN {} ELSE {1}} :
         /\ MayFail(Cardinality(left))
         /\ dir' = IF w.prepared = None THEN dir
                   ELSE Changed((dir.names \ {Pending(w.prepared.gen)})
                                  \union (left \intersect dir.names), {})
    /\ work' = <<<<"checkpoint">>, <<"catch">>, <<"refresh">>, <<"catch">>>>
    /\ UNCHANGED <<setup, commit, up, del, nrt, snaps, merge, crashes, published, wanted, handed,
                   used>>

DeleteAll ==
    /\ Idle /\ "delete_all" \in setup.ops /\ w.prepared = None /\ merge = None
    /\ w' = [w EXCEPT !.infos = <<>>, !.flushed = <<>>, !.owed = {}, !.tries = {},
                      !.buffered = FALSE, !.dirty = TRUE, !.redirty = TRUE]
    /\ deleted' = {}
    /\ work' = <<<<"checkpoint">>>>
    /\ UNCHANGED <<setup, dir, commit, up, del, nrt, snaps, merge, crashes, failures, published,
                   wanted, handed, used>>

DeleteUnusedFiles ==
    /\ Call("delete_unused",
            <<<<"release">>, <<"policy">>, <<"checkpoint">>, <<"refresh">>>>)
    /\ UNCHANGED <<setup, dir, commit, up, w, del, nrt, snaps, merge, crashes, failures,
                   published, wanted, deleted, handed, used>>

SetDeletionPolicy(p) ==
    /\ Idle /\ "policy" \in setup.ops /\ del.policy # p
    /\ del' = [del EXCEPT !.policy = p]
    /\ work' = <<<<"policy">>>>
    /\ UNCHANGED <<setup, dir, commit, up, w, nrt, snaps, merge, crashes, failures, published,
                   wanted, deleted, handed, used>>

(* drop_commits: the newest commit always stays. *)
DeleteCommits(gens) ==
    /\ gens # {} /\ gens \subseteq del.commits \ {Max(del.commits)}
    /\ Call("policy", <<<<"drop", gens>>>>)
    /\ UNCHANGED <<setup, dir, commit, up, w, del, nrt, snaps, merge, crashes, failures,
                   published, wanted, deleted, handed, used>>

drop_commits ==
    /\ Step("drop")
    /\ del' = [del EXCEPT !.commits = @ \ Head(work)[2]]
    /\ Continue(Releases(Head(work)[2]))
    /\ UNCHANGED <<setup, dir, commit, up, w, nrt, snaps, merge, crashes, failures, published,
                   wanted, deleted, handed, used>>

HoldCommit(r, g) ==
    /\ nrt.holds[r] = None /\ Segments(g) \in dir.names
    /\ Call("hold", <<<<"hold", r, g>>>>)
    /\ UNCHANGED <<setup, dir, commit, up, w, del, nrt, snaps, merge, crashes, failures,
                   published, wanted, deleted, handed, used>>

ReleaseFiles(r) ==
    /\ nrt.holds[r] # None /\ nrt.holds[r].kind = "commit"
    /\ Call("hold", <<<<"dec", nrt.holds[r].files>>>>)
    /\ nrt' = [nrt EXCEPT !.holds[r] = None]
    /\ UNCHANGED <<setup, dir, commit, up, w, del, snaps, merge, crashes, failures, published,
                   wanted, deleted, handed, used>>

NrtSnapshot(r, add, gone) ==
    /\ nrt.holds[r] = None /\ w.prepared = None
    /\ Buffer(add, gone)
    /\ Call("nrt", <<<<"release">>>> \o FlushSteps(w'.buffered)
                   \o <<<<"release">>, <<"snap", r>>>>)
    /\ UNCHANGED <<setup, dir, commit, up, del, nrt, snaps, merge, crashes, failures, published,
                   wanted, handed, used>>

(* nrt_snapshot while a commit is prepared: the pins handed back are released *)
(* before its flush is refused.                                               *)
NrtSnapshotRefused ==
    /\ w.prepared # None
    /\ Call("nrt", <<<<"release">>>>)
    /\ UNCHANGED <<setup, dir, commit, up, w, del, nrt, snaps, merge, crashes, failures,
                   published, wanted, deleted, handed, used>>

(* NrtFileHold::drop, on the reader's thread. *)
DropReader(r) ==
    /\ up /\ nrt.holds[r] # None /\ nrt.holds[r].kind = "nrt"
    /\ nrt' = [nrt EXCEPT !.holds[r] = None,
                          !.returned = @ (+) SetToBag(nrt.holds[r].files)]
    /\ UNCHANGED <<setup, dir, commit, up, w, del, snaps, merge, work, crashes, failures,
                   published, wanted, deleted, handed, used>>

StartMerge(S) ==
    /\ merge = None /\ S # {} /\ S \subseteq DOMAIN w.infos /\ w.counter < setup.segments
    /\ Call("merge", <<<<"begin_merge", S>>>>)
    /\ UNCHANGED <<setup, dir, commit, up, w, del, nrt, snaps, merge, crashes, failures,
                   published, wanted, deleted, handed, used>>

FinishMerge ==
    /\ merge # None /\ merge.done
    /\ Call("merge", <<<<"finish_merge">>, <<"catch">>, <<"dec", merge.held>>>>)
    /\ UNCHANGED <<setup, dir, commit, up, w, del, nrt, snaps, merge, crashes, failures,
                   published, wanted, deleted, handed, used>>

AbortMerge ==
    /\ merge # None /\ ~merge.done
    /\ Call("merge", <<<<"dec", merge.held>>>>)
    /\ IF Seg(merge.out) \in dir.names THEN UNCHANGED failures ELSE MayFail(1)
    /\ merge' = None
    /\ UNCHANGED <<setup, dir, commit, up, w, del, nrt, snaps, crashes, published, wanted,
                   deleted, handed, used>>

(* SnapshotDeletionPolicy::snapshot and release, on any thread. *)
TakeSnapshot ==
    /\ up /\ "snapshot" \in setup.ops /\ snaps.last > 0 /\ CopiesIn(snaps.last, snaps.refs) < 2
    /\ snaps' = [snaps EXCEPT !.refs = @ (+) SetToBag({snaps.last})]
    /\ UNCHANGED <<setup, dir, commit, up, w, del, nrt, merge, work, crashes, failures,
                   published, wanted, deleted, handed, used>>

ReleaseSnapshot(g) ==
    /\ up /\ BagIn(g, snaps.refs)
    /\ snaps' = [snaps EXCEPT !.refs = @ (-) SetToBag({g})]
    /\ UNCHANGED <<setup, dir, commit, up, w, del, nrt, merge, work, crashes, failures,
                   published, wanted, deleted, handed, used>>

SetLiveCommitData(d) ==
    /\ Idle /\ "data" \in setup.ops /\ d # w.user
    /\ w' = [w EXCEPT !.user = d, !.dirty = TRUE, !.redirty = TRUE]
    /\ wanted' = d
    /\ UNCHANGED <<setup, dir, commit, up, del, nrt, snaps, merge, work, crashes, failures,
                   published, deleted, handed, used>>

Generations(names) == {f[2] : f \in {n \in names : IsSegments(n)}}

(* The segments a caller can name in the SegmentInfos locate is given: those *)
(* of the commits in the directory, and of the views handed to readers.      *)
ReaderSegments ==
    UNION {DOMAIN commit[g].view : g \in Generations(dir.names)}
      \union UNION {DOMAIN h[2] : h \in handed}

(* try_delete_document: buffered, unless it leaves no live document. *)
TryDelete(n, doc) ==
    /\ Idle /\ "try" \in setup.ops /\ n \in ReaderSegments
    /\ doc \in live_infos[n].docs \ live_infos[n].dels /\ <<n, doc>> \notin w.tries
    /\ live_infos[n].next <= setup.del_gens
    /\ w' = [w EXCEPT !.tries = @ \union {<<n, doc>>}]
    /\ deleted' = deleted \union {doc}
    /\ work' = IF live_infos[n].docs
                     \subseteq live_infos[n].dels \union {t[2] : t \in w'.tries}
                  THEN <<<<"try_now", n>>, <<"checkpoint">>>> ELSE <<>>
    /\ UNCHANGED <<setup, dir, commit, up, del, nrt, snaps, merge, crashes, failures, published,
                   wanted, handed, used>>

-----------------------------------------------------------------------------
(* Opening, and the ways a session ends *)

(* Mutant: inflate_gens overlooks pending_segments_N. *)
InflatedBySegments(names, g) == Max({g} \union Generations(names))

InflatedGeneration(names, g) ==
    Max({g} \union {f[2] : f \in {n \in names : n[1] \in {"segments", "pending_segments"}}})

InflatedCounter(names, c) ==
    Max({c} \union {f[2] + 1 : f \in {n \in names : n[1] \in {"seg", "liv"}}})

InflatedDelGen(names, n, next) ==
    Max({next} \union {f[3] + 1 : f \in {m \in names : m[1] = "liv" /\ m[2] = n}})

NoCommit == [view |-> <<>>, gen |-> 0, counter |-> 0, version |-> 0, user |-> None]

(* IndexWriter::open: the newest commit with its counters pushed past every *)
(* name in the directory, and the deleter counting what every commit names, *)
(* then deleting what none does.  It fails on a commit that cannot be read. *)
Open ==
    /\ ~up /\ work = <<>>
    /\ LET names == dir.names
           gens == Generations(names)
           last == IF gens = {} THEN NoCommit ELSE commit[Max(gens)]
           view == [n \in DOMAIN last.view |->
                      [last.view[n] EXCEPT !.next = InflatedDelGen(names, n, last.view[n].gen + 1)]]
           refs == FoldSet(LAMBDA g, b : b (+) SetToBag(CommitFilesOf(g)), EmptyBag, gens)
       IN /\ \A g \in gens : CommitFilesOf(g) \subseteq names
          /\ w' = [infos |-> view, flushed |-> <<>>, owed |-> {}, tries |-> {},
                   buffered |-> FALSE, counter |-> InflatedCounter(names, last.counter),
                   gen |-> InflatedGeneration(names, last.gen), version |-> last.version,
                   user |-> last.user, dirty |-> gens = {}, redirty |-> gens = {},
                   rollback_segments |-> view, prepared |-> None]
          /\ del' = [refs |-> refs, commits |-> gens, last |-> {}, policy |-> setup.policy,
                     synced |-> BagToSet(refs)]
          /\ nrt' = [holds |-> [r \in Readers |-> None], returned |-> EmptyBag,
                     max_version |-> -1, last |-> None]
          /\ snaps' = [refs |-> EmptyBag, last |-> 0]
          /\ work' = DeleteSteps(names \ BagToSet(refs))
                     \o <<<<"checkpoint">>, <<"policy">>, <<"opened">>>>
          /\ wanted' = last.user
    /\ used' = dir.names
    /\ UNCHANGED <<setup, dir, commit, up, merge, crashes, failures, published, deleted, handed>>

Opened ==
    /\ Step("opened")
    /\ up' = TRUE
    /\ Continue(<<>>)
    /\ UNCHANGED <<setup, dir, commit, w, del, nrt, snaps, merge, crashes, failures, published,
                   wanted, deleted, handed, used>>

Ended ==
    /\ crashes < setup.crashes /\ (up \/ work # <<>>)
    /\ crashes' = crashes + 1
    /\ up' = FALSE /\ work' = <<>> /\ merge' = None
    /\ w' = None /\ del' = None /\ nrt' = None /\ snaps' = None
    /\ deleted' = {} /\ handed' = {} /\ used' = {}
    /\ UNCHANGED <<setup, commit, failures, published, wanted>>

(* The process dies, between two deletions of a pass included. *)
Kill ==
    /\ Ended
    /\ \E gone \in SUBSET (IF Step("delete") THEN Pass(Head(work)[2]) ELSE {}) :
         dir' = Changed(dir.names \ gone, {dir.names \ some : some \in SUBSET gone})

(* Power fails: a prefix of the directory's operations since its last      *)
(* metadata sync survives, and any unsynced file may be lost.              *)
PowerLoss ==
    /\ Ended
    /\ \E image \in dir.images : \E lost \in SUBSET (image \intersect dir.unsynced) :
         dir' = [names |-> image \ lost, images |-> {image \ lost}, unsynced |-> {}]

-----------------------------------------------------------------------------
Init ==
    /\ setup \in Setups
    /\ dir = [names |-> {}, images |-> Seen({{}}), unsynced |-> {}]
    /\ commit = [g \in 1..setup.gens |-> None]
    /\ up = FALSE /\ w = None /\ del = None /\ nrt = None /\ snaps = None
    /\ merge = None /\ work = <<>>
    /\ crashes = 0 /\ failures = 0
    /\ published = 0 /\ wanted = None /\ deleted = {} /\ handed = {} /\ used = {}

DeleterStep ==
    delete_files \/ DecRef \/ Checkpoint \/ SetLastFiles \/ CheckpointCommit \/ apply_policy
    \/ refresh \/ release_nrt_holds \/ drop_commits

WriterStep ==
    Catch \/ Error \/ Build \/ apply_stream_packets \/ write_pending_try_changes
    \/ write_try_deletes \/ Stage \/ sync_commit_files \/ SyncMeta \/ write_pending
    \/ finish_commit \/ Rename \/ Publish \/ nrt_snapshot_of_live_view \/ hold_commit \/ begin_merge
    \/ finish_merge \/ Opened

Calls ==
    /\ Idle
    /\ \/ \E add \in BOOLEAN, gone \in SUBSET LiveDocs :
            Flush(add, gone) \/ PrepareCommit(add, gone) \/ Commit(add, gone)
            \/ \E r \in Readers : NrtSnapshot(r, add, gone)
       \/ FinishCommit \/ NrtSnapshotRefused \/ Rollback \/ DeleteAll \/ DeleteUnusedFiles
       \/ \E p \in {"last", "all"} : SetDeletionPolicy(p)
       \/ \E gens \in SUBSET del.commits : DeleteCommits(gens)
       \/ \E r \in Readers : ReleaseFiles(r) \/ \E g \in del.commits : HoldCommit(r, g)
       \/ \E S \in SUBSET DOMAIN w.infos : StartMerge(S)
       \/ FinishMerge \/ AbortMerge
       \/ \E d \in setup.data : SetLiveCommitData(d)
       \/ \E n \in DOMAIN live_infos : \E doc \in live_infos[n].docs : TryDelete(n, doc)

OtherThreads ==
    \/ up /\ \E r \in Readers : DropReader(r)
    \/ run_merge
    \/ TakeSnapshot
    \/ up /\ \E g \in BagToSet(snaps.refs) : ReleaseSnapshot(g)

Next == Open \/ DeleterStep \/ WriterStep \/ Calls \/ OtherThreads \/ Kill \/ PowerLoss

Spec == Init /\ [][Next]_vars

-----------------------------------------------------------------------------
(* Properties *)

View(v) ==
    \A n \in DOMAIN v : /\ n \in Nat /\ v[n].gen \in Nat /\ v[n].gen < v[n].next
                        /\ v[n].dels \subseteq v[n].docs

(* Type invariant: segment lists whose next .liv generation is above the   *)
(* current one, and reference counts that cover exactly what the deleter    *)
(* was asked to keep: the last checkpoint's files, every commit point,      *)
(* every pin of a reader, a hold or a merge, while nothing has failed       *)
(* (ref_counts of index_file_deleter.rs).                                   *)
TypeOK ==
    /\ up \in BOOLEAN /\ (setup.crashes > 0 => dir.names \in dir.images)
    /\ up => View(w.infos) /\ View(w.flushed) /\ View(w.rollback_segments)
    /\ Idle /\ failures = 0 =>
         BagToSet(del.refs) =
           del.last \union UNION {CommitFilesOf(g) : g \in del.commits}
           \union UNION {nrt.holds[r].files : r \in {q \in Readers : nrt.holds[q] # None}}
           \union BagToSet(nrt.returned) \union (IF merge = None THEN {} ELSE merge.held)

(* Every file a segment list that is in use names is in the directory: the  *)
(* writer's live view, each commit point the deleter still has, the prepared *)
(* commit, each reader's and hold's pin, and the sources of a merge that has *)
(* not read them yet (the deleter's counts decide every deletion).           *)
FilesInUseExist ==
    up => /\ FilesOf(live_infos) \subseteq dir.names
          /\ \A g \in del.commits : CommitFilesOf(g) \subseteq dir.names
          /\ w.prepared # None => FilesOf(w.prepared.view) \subseteq dir.names
          /\ \A r \in Readers : nrt.holds[r] # None => nrt.holds[r].files \subseteq dir.names
          /\ merge # None /\ ~merge.done => FilesOf(merge.src) \subseteq dir.names

(* Every file something uses: the live view, a commit point, a pin, and the *)
(* pending file of a prepared commit.                                       *)
InUse ==
    FilesOf(live_infos) \union UNION {CommitFilesOf(g) : g \in del.commits}
    \union UNION {nrt.holds[r].files : r \in {q \in Readers : nrt.holds[q] # None}}
    \union BagToSet(nrt.returned)
    \union (IF w.prepared = None THEN {} ELSE {Pending(w.prepared.gen)})

(* Between calls, as long as no directory operation failed, the directory   *)
(* holds no index file that nothing uses (checkpoint's counting).           *)
NothingLeaked == Idle /\ failures = 0 /\ merge = None => dir.names \subseteq InUse

(* NothingLeaked but for the .liv of a segment that its last delete dropped  *)
(* (drop_fully_deleted_segments): whatever is left behind is of a segment    *)
(* the writer no longer has.                                                 *)
OnlyEmptiedSegmentsLeak ==
    Idle /\ failures = 0 /\ merge = None =>
      \A f \in dir.names \ InUse : f[1] = "liv" /\ f[2] \notin DOMAIN live_infos

(* Whatever namespace a crash leaves, at any step of any call, it can be     *)
(* opened: every segments_N in it names only files that are in it and were   *)
(* synced, and the newest is at least the last commit that finish_commit     *)
(* made durable (prepare_commit's on-disk protocol, delete_files' order).    *)
EveryCrashOpens ==
    \A image \in dir.images :
      LET gens == Generations(image)
      IN /\ published > 0 => \E g \in gens : g >= published
         /\ \A g \in gens : CommitFilesOf(g) \subseteq image \ dir.unsynced

(* No call asks for a name the directory has had in this session or held    *)
(* when it was opened: segment names and pending generations only ever move *)
(* forward, past a crash (inflate_gens) and past a failed write.             *)
NamesAreFresh ==
    /\ Step("build") => Seg(w.counter) \notin used
    /\ merge # None /\ ~merge.done => Seg(merge.out) \notin used
    /\ Step("write_pending") => Pending(Head(work)[2].gen) \notin used

(* A commit a SnapshotDeletionPolicy snapshot holds keeps its segments_N and *)
(* every file it names until it is released, whichever thread took the       *)
(* snapshot and at whatever step of a commit.                                *)
SnapshottedCommitsKept ==
    up => \A g \in BagToSet(snaps.refs) : CommitFilesOf(g) \subseteq dir.names

(* Two snapshots or commits with the same version are of the same segments   *)
(* with the same documents deleted: getVersion identifies a view             *)
(* (nrt_snapshot_of_live_view).                                              *)
VersionsIdentifyViews ==
    \A a, b \in handed : a[1] = b[1] => a[2] = b[2]

(* The newest commit finish_commit made durable is still there: no later     *)
(* call deletes its segments_N while no newer one exists, failures to        *)
(* reclaim files included (checkpoint_committed).                            *)
NewestCommitKept ==
    Idle /\ published > 0 => \E g \in Generations(dir.names) : g >= published

(* A prepared commit can be activated: until finish_commit or rollback, its  *)
(* pending_segments_N is in the directory.                                   *)
PreparedCommitActivatable ==
    Idle /\ w.prepared # None => Pending(w.prepared.gen) \in dir.names

(* The commit data set last is the data the next commit writes               *)
(* (set_live_commit_data).                                                   *)
CommitDataPersists == Idle => w.user = wanted

(* A deletion generation is written at most once: no .liv is asked for under *)
(* a name this session used before (generation_advanced).                    *)
GenerationsOnlyIncrease ==
    Step("apply") =>
      \A n \in DOMAIN live_infos :
        w.owed \intersect (live_infos[n].docs \ live_infos[n].dels) # {} =>
          Liv(n, live_infos[n].next) \notin used

(* No accepted delete is lost: a document that a delete named stays deleted, *)
(* buffered in the writer or buffered for its segment, for as long as the    *)
(* segment lives, whatever write fails on the way, until a rollback or       *)
(* delete_all (restore_pending, write_pending_try_changes).                  *)
AcceptedDeletesHeld ==
    Idle => \A n \in DOMAIN live_infos :
              deleted \intersect live_infos[n].docs
                \subseteq live_infos[n].dels \union w.owed \union {t[2] : t \in w.tries}
=============================================================================
