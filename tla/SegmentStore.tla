---------------------------- MODULE SegmentStore ----------------------------
(***************************************************************************)
(* What merging promises its writer: the segments of the view partition    *)
(* the documents, and only a whole merge changes the partition.  A segment *)
(* is the set of its documents.  MergeScheduler implements this.           *)
(***************************************************************************)
EXTENDS Integers, FiniteSets

CONSTANT Documents  \* the documents ever added

VARIABLE segs

\* An index is opened on the segments it was committed with.
Init == \E C \in SUBSET Documents : segs = {{d} : d \in C}

\* A flush publishes a segment of one new document.
Publish(d) ==
    /\ d \notin UNION segs
    /\ segs' = segs \union {{d}}

\* A merge replaces segments of the view by their union, all at once.
Merge(G) == segs' = (segs \ G) \union {UNION G}

\* A segment whose documents are all deleted leaves the view.
Drop(s) == segs' = segs \ {s}

Clear == segs' = {}

Next ==
    \/ \E d \in Documents : Publish(d)
    \/ \E G \in SUBSET segs : G # {} /\ Merge(G)
    \/ \E s \in segs : Drop(s)
    \/ Clear

Spec == Init /\ [][Next]_segs
=============================================================================
