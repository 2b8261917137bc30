---------------------------- MODULE ControlPlane ----------------------------
(***************************************************************************)
(* The single-threaded IndexWriter the concurrent writer wraps, as far as  *)
(* flushing, deletes and commits go (index_writer.rs, buffered_updates.rs):*)
(* the segments of its view, the stream of frozen delete packets, and the  *)
(* last commit.  Everything here happens under the control lock.           *)
(*                                                                         *)
(* A document is named by the sequence number of the operation that added  *)
(* it (the documents of one block share it).  A segment records the pairs  *)
(* <<delete, document>> of the deletes applied to it.                      *)
(***************************************************************************)
EXTENDS Integers, Sequences

CONSTANT
    MaxFailures     \* bound: how many I/O failures may happen

VARIABLES
    stream,         \* packets pushed and not yet applied
    next_gen,       \* BufferedUpdatesStream.next_gen
    segs,           \* the writer's view: committed and flushed segments
    commit,         \* the last commit: its last sequence number, its segments
    prepared,       \* whether a commit is written and not yet renamed into place
    failures        \* I/O failures so far (bounded)

coreVars == <<stream, next_gen, segs, commit, prepared, failures>>

ControlInit ==
    /\ stream = {}
    /\ next_gen = 1
    /\ segs = {}
    /\ commit = [seq |-> 0, segs |-> {}]
    /\ prepared = FALSE
    /\ failures = 0

\* The documents of a set of segments.
DocsOf(S) == UNION {s.docs : s \in S}

MayFail == failures < MaxFailures

Fails == MayFail /\ failures' = failures + 1

\* BufferedUpdatesStream.push: a frozen packet takes the next generation.
\* An empty buffer freezes to no packet and takes none.
Pushed(packet) ==
    IF packet = {} THEN stream
                   ELSE stream \union {[gen |-> next_gen, nodes |-> packet]}

GenAfter(packet) == IF packet = {} THEN next_gen ELSE next_gen + 1

\* A packet applies to the segments whose generation is not above its own.
AppliesTo(packet, seg) == seg.gen <= packet.gen

\* A segment once every packet of P that applies to it is resolved.
Resolved(seg, P) ==
    LET reaching == UNION {p.nodes : p \in {q \in P : AppliesTo(q, seg)}}
    IN  [seg EXCEPT !.dels = @ \union (reaching \X seg.docs)]

\* apply_stream_packets over the segments S and packets P: all of them are
\* resolved and the stream is empty after; or, some segment failing, any of
\* the others keep what they resolved and the packets go back to be applied
\* again.
ApplyAll(S, P) ==
    /\ segs' = {Resolved(s, P) : s \in S}
    /\ stream' = {}

ApplySome(S, P) ==
    /\ P # {}
    /\ stream' = P
    /\ \E done \in SUBSET S :
         segs' = (S \ done) \union {Resolved(s, P) : s \in done}

ApplyPackets(S, P) == ApplyAll(S, P) /\ UNCHANGED failures

\* Applying fails, or the deleter's checkpoint of the view after it.
ApplyPacketsFails(S, P) == Fails /\ (ApplyAll(S, P) \/ ApplySome(S, P))

\* prepare_commit and finish_commit in one hold of the control lock, after the
\* cut of a commit whose last operation is numbered `last`: the view's segments
\* with every packet applied become the commit.
CommitSegments(last) ==
    /\ ~prepared
    /\ ApplyPackets(segs, stream)
    /\ commit' = [seq |-> last, segs |-> segs']
    /\ UNCHANGED <<next_gen, prepared>>

\* The flush inside prepare_commit fails to apply the packets, or a file fails
\* to sync, or the pending segments file to be written: nothing is prepared.
PrepareFails ==
    /\ ~prepared
    /\ ApplyPacketsFails(segs, stream)
    /\ UNCHANGED <<next_gen, commit, prepared>>

\* The rename fails: the prepared commit is kept.
FinishFails ==
    /\ ~prepared
    /\ Fails
    /\ ApplyAll(segs, stream)
    /\ prepared' = TRUE
    /\ UNCHANGED <<next_gen, commit>>

\* A commit is still prepared: the next one is refused.
PrepareRefused ==
    /\ prepared
    /\ UNCHANGED coreVars

\* delete_all empties the view; it is refused while a commit is prepared.
DropAllSegments ==
    /\ ~prepared
    /\ segs' = {}
    /\ stream' = {}
    /\ UNCHANGED <<next_gen, commit, prepared, failures>>

DropAllRefused ==
    /\ prepared
    /\ UNCHANGED coreVars

\* rollback goes back to the last commit and forgets a prepared one.
RollbackView ==
    /\ segs' = commit.segs
    /\ stream' = {}
    /\ prepared' = FALSE
    /\ UNCHANGED <<next_gen, commit, failures>>

\* The fields of the commit's segments cannot be read, or conflict with those
\* configured since: rollback returns before it changes anything.
RollbackFails ==
    /\ Fails
    /\ UNCHANGED <<stream, next_gen, segs, commit, prepared>>

SegmentType == [docs : SUBSET Nat, dels : SUBSET (Nat \X Nat), gen : Nat]

ControlTypeOK ==
    /\ stream \subseteq [gen : Nat, nodes : SUBSET Nat]
    /\ next_gen \in Nat
    /\ segs \subseteq SegmentType
    /\ commit \in [seq : Nat, segs : SUBSET SegmentType]
    /\ prepared \in BOOLEAN
    /\ failures \in Nat
=============================================================================
