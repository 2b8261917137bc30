-------------------------- MODULE WriterCutProofs ---------------------------
(***************************************************************************)
(* What the steps of ConcurrentWriter keep besides the order of deletes    *)
(* and documents: each document in one place, each delete carried out or   *)
(* owed, and the cut of every full flush.  Together they are CleanCuts.    *)
(***************************************************************************)
EXTENDS WriterFacts

USE LogAssumption, WriterAssumption

----------------------------------------------------------------------------
(* Where the documents are *)

\* No two segments of S share a document.
SegmentsApart(S) == \A s, r \in S : s # r => \A d \in s.docs : d \notin r.docs

\* The documents acknowledged are those in the slots, the flushes and the view.
AllPlaced ==
    /\ \A d \in adds : \/ \E i \in Slots : d \in DocSet(docs[i])
                       \/ \E k \in tickets : d \in DocSet(k.docs)
                       \/ \E s \in segs : d \in s.docs
    /\ \A i \in Slots : DocSet(docs[i]) \subseteq adds
    /\ \A k \in tickets : DocSet(k.docs) \subseteq adds
    /\ \A s \in segs : s.docs \subseteq adds

\* No document is in two places, nor in two segments a rollback would go back to.
Apart ==
    /\ \A i \in Slots : \A j \in Slots \ {i} : \A d \in DocSet(docs[i]) : d \notin DocSet(docs[j])
    /\ \A k \in tickets : \A m \in tickets \ {k} : \A d \in DocSet(k.docs) : d \notin DocSet(m.docs)
    /\ SegmentsApart(segs) /\ SegmentsApart(commit.segs)
    /\ \A i \in Slots : \A k \in tickets : \A d \in DocSet(docs[i]) : d \notin DocSet(k.docs)
    /\ \A i \in Slots : \A s \in segs : \A d \in DocSet(docs[i]) : d \notin s.docs
    /\ \A k \in tickets : \A s \in segs : \A d \in DocSet(k.docs) : d \notin s.docs

\* Once a delete_all or a rollback has dropped the buffers, nobody fills them
\* before the view is dropped or taken back too.
Emptied == \A t \in Threads : pc[t] = "drain" => \A i \in Slots : docs[i] = <<>>

\* The invariant behind DocumentsConserved, beside DeleteOrder.
Documents == AllPlaced /\ Apart /\ Emptied

\* Applying packets moves no document between segments.
LEMMA ApplyDocs ==
  ASSUME NEW S \in SUBSET SegmentType, NEW P \in Packets,
         ApplyAll(S, P) \/ ApplySome(S, P)
  PROVE  /\ \A r \in segs' : \E s \in S : r.docs = s.docs
         /\ \A s \in S : \E r \in segs' : r.docs = s.docs
         /\ SegmentsApart(S) => SegmentsApart(segs')
<1>1. PICK done \in SUBSET S : segs' = (S \ done) \union {Resolved(s, P) : s \in done}
  <2>1. CASE ApplyAll(S, P)
    <3>1. segs' = (S \ S) \union {Resolved(s, P) : s \in S}
      BY <2>1, Zenon DEF ApplyAll
    <3> QED BY <3>1, Zenon
  <2>2. CASE ApplySome(S, P)
    BY <2>2, Zenon DEF ApplySome
  <2> QED BY <2>1, <2>2, Zenon
<1>2. \A s \in S : Resolved(s, P).docs = s.docs
  BY ResolvedType, Zenon
<1>3. \A r \in segs' : \E s \in S : r.docs = s.docs /\ r = IF s \in done THEN Resolved(s, P) ELSE s
  BY <1>1, <1>2, Zenon
<1>4. \A s \in S : \E r \in segs' : r.docs = s.docs
  <2> SUFFICES ASSUME NEW s \in S PROVE \E r \in segs' : r.docs = s.docs
    BY Zenon
  <2>1. CASE s \in done
    BY <1>1, <1>2, <2>1, Zenon
  <2>2. CASE s \notin done
    BY <1>1, <2>2, Zenon
  <2> QED BY <2>1, <2>2, Zenon
<1>5. ASSUME SegmentsApart(S), NEW q \in segs', NEW r \in segs', q # r, NEW d \in q.docs, d \in r.docs
      PROVE  FALSE
  <2>1. PICK s \in S : q.docs = s.docs /\ q = IF s \in done THEN Resolved(s, P) ELSE s
    BY <1>3, Zenon
  <2>2. PICK w \in S : r.docs = w.docs /\ r = IF w \in done THEN Resolved(w, P) ELSE w
    BY <1>3, Zenon
  <2>3. s # w
    BY <1>5, <2>1, <2>2, Zenon
  <2> QED BY <1>5, <2>1, <2>2, <2>3, Zenon DEF SegmentsApart
<1> QED BY <1>3, <1>4, <1>5, Zenon DEF SegmentsApart

----------------------------------------------------------------------------
(* Steps that move documents *)

\* A step that moves no document.  Nobody comes to drop the view.
LEMMA DocumentsStay ==
  ASSUME Documents, UNCHANGED <<docs, tickets, segs, adds, commit>>,
         \A u \in Threads : pc'[u] = "drain" => pc[u] = "drain"
  PROVE  Documents'
<1>1. AllPlaced' /\ Apart'
  BY Zenon DEF Documents, AllPlaced, Apart, SegmentsApart
<1>2. Emptied'
  BY Zenon DEF Documents, Emptied
<1> QED BY <1>1, <1>2, Zenon DEF Documents

\* A ticket without a segment moves none either.
LEMMA DocumentsDeletesTicket ==
  ASSUME Documents, DeletesTicket, UNCHANGED <<docs, segs, adds, commit>>,
         \A u \in Threads : pc'[u] = "drain" => pc[u] = "drain"
  PROVE  Documents'
<1> DEFINE k == [no |-> next_ticket, docs |-> <<>>, packet |-> Unhanded, private |-> {}]
<1>1. tickets' = tickets \union {k} /\ DocSet(k.docs) = {}
  BY EmptyDocSet, Zenon DEF DeletesTicket
<1> HIDE DEF k
<1>2. \A m \in tickets' : m \in tickets \/ DocSet(m.docs) = {}
  BY <1>1, Zenon
<1>3. tickets \subseteq tickets'
  BY <1>1, Zenon
<1>4. AllPlaced'
  <2>1. ASSUME NEW d \in adds
        PROVE  \/ \E i \in Slots : d \in DocSet(docs[i])
               \/ \E m \in tickets' : d \in DocSet(m.docs)
               \/ \E s \in segs : d \in s.docs
    BY <1>3, Zenon DEF Documents, AllPlaced
  <2>2. \A m \in tickets' : DocSet(m.docs) \subseteq adds
    BY <1>2, Zenon DEF Documents, AllPlaced
  <2> QED BY <2>1, <2>2, Zenon DEF Documents, AllPlaced
<1>5. Apart'
  <2>1. ASSUME NEW m \in tickets', NEW w \in tickets' \ {m}, NEW d \in DocSet(m.docs),
               d \in DocSet(w.docs)
        PROVE  FALSE
    <3>1. m \in tickets /\ w \in tickets
      BY <1>2, <2>1, Zenon
    <3> QED BY <2>1, <3>1, Zenon DEF Documents, Apart
  <2>2. \A m \in tickets' : \A i \in Slots : \A d \in DocSet(docs[i]) : d \notin DocSet(m.docs)
    BY <1>2, Zenon DEF Documents, Apart
  <2>3. \A m \in tickets' : \A s \in segs : \A d \in DocSet(m.docs) : d \notin s.docs
    BY <1>2, Zenon DEF Documents, Apart
  <2> QED BY <2>1, <2>2, <2>3, Zenon DEF Documents, Apart, SegmentsApart
<1>6. Emptied'
  BY Zenon DEF Documents, Emptied
<1> QED BY <1>4, <1>5, <1>6, Zenon DEF Documents

\* begin_flush moves the documents of one slot to a ticket.
LEMMA DocumentsFlush ==
  ASSUME DeleteOrder, Documents, NEW i \in Slots, NEW p, NEW m, BeginFlush(i, p, m),
         UNCHANGED <<segs, adds, commit>>,
         \A u \in Threads : pc'[u] = "drain" => pc[u] = "drain"
  PROVE  Documents'
<1> DEFINE k == [no |-> next_ticket, docs |-> docs[i], private |-> ClosedPrivate(i),
                 packet |-> Unhanded]
<1>1. tickets' = tickets \union {k} /\ k.docs = docs[i] /\ docs' = [docs EXCEPT ![i] = <<>>]
  BY Zenon DEF BeginFlush
<1> HIDE DEF k
<1>2. docs \in [Slots -> Seq(Nat)]
  BY Types, Zenon DEF SlotTypeOK
<1>3. /\ docs'[i] = <<>> /\ DocSet(docs'[i]) = {}
      /\ \A j \in Slots \ {i} : docs'[j] = docs[j]
  BY <1>1, <1>2, EmptyDocSet, Zenon
<1>4. \A j \in Slots : \A d \in DocSet(docs'[j]) : j # i /\ d \in DocSet(docs[j])
  BY <1>3, Zenon
<1>5. \A w \in tickets' : w \in tickets \/ DocSet(w.docs) = DocSet(docs[i])
  BY <1>1, Zenon
<1>6. AllPlaced'
  <2>1. ASSUME NEW d \in adds
        PROVE  \/ \E j \in Slots : d \in DocSet(docs'[j])
               \/ \E w \in tickets' : d \in DocSet(w.docs)
               \/ \E s \in segs : d \in s.docs
    <3>1. CASE d \in DocSet(docs[i])
      BY <1>1, <3>1, Zenon
    <3>2. CASE d \notin DocSet(docs[i])
      <4>1. CASE \E j \in Slots : d \in DocSet(docs[j])
        BY <1>3, <3>2, <4>1, Zenon
      <4> QED BY <1>1, <4>1, Zenon DEF Documents, AllPlaced
    <3> QED BY <3>1, <3>2, Zenon
  <2>2. \A w \in tickets' : DocSet(w.docs) \subseteq adds
    BY <1>5, Zenon DEF Documents, AllPlaced
  <2>3. \A j \in Slots : DocSet(docs'[j]) \subseteq adds
    BY <1>4, Zenon DEF Documents, AllPlaced
  <2> QED BY <2>1, <2>2, <2>3, Zenon DEF Documents, AllPlaced
<1>7. Apart'
  <2>1. \A j \in Slots : \A l \in Slots \ {j} : \A d \in DocSet(docs'[j]) : d \notin DocSet(docs'[l])
    BY <1>4, Zenon DEF Documents, Apart
  <2>2. ASSUME NEW v \in tickets', NEW w \in tickets' \ {v}, NEW d \in DocSet(v.docs),
               d \in DocSet(w.docs)
        PROVE  FALSE
    <3>1. CASE v \in tickets /\ w \in tickets
      BY <2>2, <3>1, Zenon DEF Documents, Apart
    <3>2. CASE v \in tickets /\ w = k
      BY <1>1, <2>2, <3>2, Zenon DEF Documents, Apart
    <3>3. CASE v = k /\ w \in tickets
      BY <1>1, <2>2, <3>3, Zenon DEF Documents, Apart
    <3> QED BY <1>1, <2>2, <3>1, <3>2, <3>3, Zenon
  <2>3. ASSUME NEW j \in Slots, NEW w \in tickets', NEW d \in DocSet(docs'[j]), d \in DocSet(w.docs)
        PROVE  FALSE
    <3>1. j # i /\ d \in DocSet(docs[j])
      BY <1>4, Zenon
    <3> QED BY <1>5, <2>3, <3>1, Zenon DEF Documents, Apart
  <2>4. \A j \in Slots : \A s \in segs : \A d \in DocSet(docs'[j]) : d \notin s.docs
    BY <1>4, Zenon DEF Documents, Apart
  <2>5. \A w \in tickets' : \A s \in segs : \A d \in DocSet(w.docs) : d \notin s.docs
    BY <1>5, Zenon DEF Documents, Apart
  <2> QED BY <2>1, <2>2, <2>3, <2>4, <2>5, Zenon DEF Documents, Apart, SegmentsApart
<1>8. Emptied'
  <2> SUFFICES ASSUME NEW u \in Threads, pc'[u] = "drain", NEW j \in Slots PROVE docs'[j] = <<>>
    BY Zenon DEF Emptied
  <2> QED BY <1>3, Zenon DEF Documents, Emptied
<1> QED BY <1>6, <1>7, <1>8, Zenon DEF Documents

\* An add puts a new document into a slot nobody is dropping.
LEMMA DocumentsBuffer ==
  ASSUME DeleteOrder, Documents, NEW t \in Threads, NEW i \in Slots, NEW p,
         NEW c \in 1..MaxBlock, NEW isDelete, Buffer(t, i, p, c, isDelete),
         pc[t] # "drain", owner[i] \in {None, t}
  PROVE  Documents'
<1>1. /\ docs' = [docs EXCEPT ![i] = docs[i] \o [j \in 1..c |-> next_seq]]
      /\ adds' = adds \union {next_seq} /\ pc' = [pc EXCEPT ![t] = "apply"]
      /\ UNCHANGED <<tickets, segs, commit>>
  BY Zenon DEF Buffer, Goto, ticketVars, coreVars
<1>2. /\ docs \in [Slots -> Seq(Nat)] /\ pc \in [Threads -> Labels] /\ next_seq \in Nat
  BY Types, OrderTypes, Zenon DEF SlotTypeOK, ThreadTypeOK
<1>3. DocSet(docs'[i]) = DocSet(docs[i]) \union {next_seq}
  <2>1. c \in Nat \ {0}
    OBVIOUS
  <2>2. docs'[i] = docs[i] \o [j \in 1..c |-> next_seq]
    BY <1>1, <1>2, Zenon
  <2>3. docs[i] \in Seq(Nat)
    BY <1>2, Zenon
  <2>4. DocSet(docs[i] \o [j \in 1..c |-> next_seq]) = DocSet(docs[i]) \union {next_seq}
    BY <1>2, <2>1, <2>3, BlockDocSet, Zenon
  <2> QED BY <2>2, <2>4, Zenon
<1>4. \A j \in Slots \ {i} : docs'[j] = docs[j]
  BY <1>1, <1>2, Zenon
\* the document is new
<1>5. /\ \A j \in Slots : next_seq \notin DocSet(docs[j])
      /\ \A k \in tickets : next_seq \notin DocSet(k.docs)
      /\ \A s \in segs : next_seq \notin s.docs
  <2>1. \A j \in Slots : \A l \in DOMAIN docs[j] : docs[j][l] < next_seq
    BY Zenon DEF DeleteOrder, SlotOrder
  <2>2. \A k \in tickets : \A l \in DOMAIN k.docs : k.docs[l] < next_seq
    BY Zenon DEF DeleteOrder, TicketOrder
  <2>3. \A s \in segs : \A d \in s.docs : d < next_seq
    BY Zenon DEF DeleteOrder, SegmentOrder
  <2>4. ~ (next_seq < next_seq)
    BY <1>2
  <2>5. \A j \in Slots : next_seq \notin DocSet(docs[j])
    BY <2>1, <2>4, Zenon DEF DocSet
  <2>6. \A k \in tickets : next_seq \notin DocSet(k.docs)
    BY <2>2, <2>4, Zenon DEF DocSet
  <2> QED BY <2>3, <2>4, <2>5, <2>6, Zenon
<1>6. \A j \in Slots : \A d \in DocSet(docs'[j]) : d \in DocSet(docs[j]) \/ (d = next_seq /\ j = i)
  BY <1>3, <1>4, Zenon
<1>7. \A j \in Slots : DocSet(docs[j]) \subseteq DocSet(docs'[j])
  BY <1>3, <1>4, Zenon
<1>8. AllPlaced'
  <2>1. ASSUME NEW d \in adds'
        PROVE  \/ \E j \in Slots : d \in DocSet(docs'[j])
               \/ \E k \in tickets : d \in DocSet(k.docs)
               \/ \E s \in segs : d \in s.docs
    <3>1. CASE d = next_seq
      BY <1>3, <3>1, Zenon
    <3>2. CASE d \in adds
      BY <1>7, <3>2, Zenon DEF Documents, AllPlaced
    <3> QED BY <1>1, <3>1, <3>2, Zenon
  <2>2. \A j \in Slots : DocSet(docs'[j]) \subseteq adds'
    BY <1>1, <1>6, Zenon DEF Documents, AllPlaced
  <2>3. /\ \A k \in tickets : DocSet(k.docs) \subseteq adds'
        /\ \A s \in segs : s.docs \subseteq adds'
    BY <1>1, Zenon DEF Documents, AllPlaced
  <2> QED BY <1>1, <2>1, <2>2, <2>3, Zenon DEF AllPlaced
<1>9. Apart'
  <2>1. ASSUME NEW j \in Slots, NEW l \in Slots \ {j}, NEW d \in DocSet(docs'[j]),
               d \in DocSet(docs'[l])
        PROVE  FALSE
    <3>1. CASE d = next_seq
      BY <1>4, <1>5, <2>1, <3>1, Zenon
    <3>2. CASE d # next_seq
      BY <1>6, <2>1, <3>2, Zenon DEF Documents, Apart
    <3> QED BY <3>1, <3>2, Zenon
  <2>2. ASSUME NEW j \in Slots, NEW k \in tickets, NEW d \in DocSet(docs'[j])
        PROVE  d \notin DocSet(k.docs)
    <3>1. d \in DocSet(docs[j]) \/ d = next_seq
      BY <1>6, Zenon
    <3> QED BY <1>5, <3>1, Zenon DEF Documents, Apart
  <2>3. ASSUME NEW j \in Slots, NEW s \in segs, NEW d \in DocSet(docs'[j]) PROVE d \notin s.docs
    <3>1. d \in DocSet(docs[j]) \/ d = next_seq
      BY <1>6, Zenon
    <3> QED BY <1>5, <3>1, Zenon DEF Documents, Apart
  <2> QED BY <1>1, <2>1, <2>2, <2>3, Zenon DEF Documents, Apart, SegmentsApart
<1>10. Emptied'
  <2> SUFFICES ASSUME NEW u \in Threads, pc'[u] = "drain" PROVE FALSE
    BY Zenon DEF Emptied
  <2>1. u # t /\ pc[u] = "drain"
    BY <1>1, <1>2, Zenon
  <2>2. owner[i] = u
    BY <2>1, Types, Zenon DEF SlotsOwned
  <2> QED BY <2>1, <2>2, Zenon
<1> QED BY <1>8, <1>9, <1>10, Zenon DEF Documents

\* Publishing a ticket makes its documents a segment, or, abandoned, drops them.
LEMMA DocumentsPublish ==
  ASSUME DeleteOrder, Documents, NEW t \in Threads, NEW k \in tickets, Publishes(t, k)
  PROVE  Documents'
<1>1. /\ tickets' = tickets \ {k} /\ UNCHANGED <<docs, commit>>
      /\ \E l \in Returns \union {"publish"} : pc' = [pc EXCEPT ![t] = l]
  BY PublishControl, Types, LabelFacts, Zenon DEF Publishes, Retire, Goto, slotVars, ThreadTypeOK
<1>2. Emptied'
  <2>1. \A u \in Threads : pc'[u] = "drain" => pc[u] = "drain"
    BY <1>1, Types, Zenon DEF ThreadTypeOK, Returns
  <2> QED BY <1>1, <2>1, Zenon DEF Documents, Emptied
\* the segments the stream is applied to
<1>3. PICK S \in SUBSET SegmentType :
        /\ ApplyAll(S, Pushed(k.packet)) \/ ApplySome(S, Pushed(k.packet))
        /\ segs \subseteq S
        /\ \A s \in S : s \in segs \/ s.docs = DocSet(k.docs)
        /\ \A s \in S, r \in S : s \in segs \/ r \in segs \/ s = r
        /\ \/ adds' = adds /\ \A d \in DocSet(k.docs) : \E s \in S : d \in s.docs
           \/ S = segs /\ adds' = adds \ DocSet(k.docs)
  <2>1. segs \in SUBSET SegmentType /\ View(k) \in SUBSET SegmentType
    BY OrderTypes, SegmentFields, Zenon
  <2>2. CASE Publish(t, k) \/ PublishApplyFails(t, k)
    <3>1. /\ ApplyAll(View(k), Pushed(k.packet)) \/ ApplySome(View(k), Pushed(k.packet))
          /\ adds' = adds
      BY <2>2, Zenon DEF Publish, PublishApplyFails, ApplyPackets, ApplyPacketsFails
    <3>2. /\ segs \subseteq View(k)
          /\ \A s \in View(k) : s \in segs \/ s.docs = DocSet(k.docs)
          /\ \A s \in View(k), r \in View(k) : s \in segs \/ r \in segs \/ s = r
          /\ \A d \in DocSet(k.docs) : \E s \in View(k) : d \in s.docs
      <4>1. CASE k.docs = <<>>
        BY <4>1, EmptyDocSet, Zenon DEF View
      <4>2. CASE k.docs # <<>>
        BY <4>2, SegmentFields, Zenon DEF View
      <4> QED BY <4>1, <4>2, Zenon
    <3> QED BY <2>1, <3>1, <3>2, Zenon
  <2>3. CASE Abandon(t, k)
    <3>1. /\ ApplyAll(segs, Pushed(k.packet)) \/ ApplySome(segs, Pushed(k.packet))
          /\ adds' = adds \ DocSet(k.docs)
      BY <2>3, Zenon DEF Abandon, AbandonedPacket
    <3> QED BY <2>1, <3>1, Zenon
  <2> QED BY <2>2, <2>3, Zenon DEF Publishes
<1>4. SegmentsApart(S)
  <2> SUFFICES ASSUME NEW s \in S, NEW r \in S, s # r, NEW d \in s.docs, d \in r.docs PROVE FALSE
    BY Zenon DEF SegmentsApart
  <2>1. CASE s \in segs /\ r \in segs
    BY <2>1, Zenon DEF Documents, Apart, SegmentsApart
  <2>2. CASE s \in segs /\ r.docs = DocSet(k.docs)
    BY <2>2, Zenon DEF Documents, Apart
  <2>3. CASE r \in segs /\ s.docs = DocSet(k.docs)
    BY <2>3, Zenon DEF Documents, Apart
  <2> QED BY <1>3, <2>1, <2>2, <2>3, Zenon
<1>5. /\ \A r \in segs' : \E s \in S : r.docs = s.docs
      /\ \A s \in S : \E r \in segs' : r.docs = s.docs
      /\ SegmentsApart(segs')
  <2>1. Pushed(k.packet) \in Packets
    BY PushedType, TicketFields, Types, Zenon
  <2> QED BY <1>3, <1>4, <2>1, ApplyDocs, Zenon
<1>6. \A m \in tickets' : m \in tickets /\ \A d \in DocSet(m.docs) : d \notin DocSet(k.docs)
  BY <1>1, Zenon DEF Documents, Apart
<1>7. AllPlaced'
  <2>1. ASSUME NEW d \in adds'
        PROVE  \/ \E i \in Slots : d \in DocSet(docs[i])
               \/ \E m \in tickets' : d \in DocSet(m.docs)
               \/ \E r \in segs' : d \in r.docs
    <3>1. d \in adds
      BY <1>3, Zenon
    <3>2. ASSUME \E s \in S : d \in s.docs PROVE \E r \in segs' : d \in r.docs
      BY <1>5, <3>2, Zenon
    <3>3. CASE d \in DocSet(k.docs)
      BY <1>3, <3>2, <3>3, Zenon
    <3>4. CASE d \notin DocSet(k.docs)
      <4>1. CASE \E s \in segs : d \in s.docs
        BY <1>3, <3>2, <4>1, Zenon
      <4>2. CASE \E m \in tickets : d \in DocSet(m.docs)
        BY <1>1, <3>4, <4>2, Zenon
      <4> QED BY <3>1, <4>1, <4>2, Zenon DEF Documents, AllPlaced
    <3> QED BY <3>3, <3>4, Zenon
  <2>2. ASSUME NEW i \in Slots, NEW d \in DocSet(docs[i]) PROVE d \in adds'
    BY <1>3, Zenon DEF Documents, AllPlaced, Apart
  <2>3. ASSUME NEW m \in tickets', NEW d \in DocSet(m.docs) PROVE d \in adds'
    BY <1>3, <1>6, Zenon DEF Documents, AllPlaced
  <2>4. ASSUME NEW r \in segs', NEW d \in r.docs PROVE d \in adds'
    <3>1. PICK s \in S : r.docs = s.docs
      BY <1>5, Zenon
    <3>2. CASE s \in segs
      BY <1>3, <3>1, <3>2, Zenon DEF Documents, AllPlaced, Apart
    <3>3. CASE s \notin segs
      <4>1. s.docs = DocSet(k.docs) /\ adds' = adds
        BY <1>3, <3>3, Zenon
      <4> QED BY <3>1, <4>1, Zenon DEF Documents, AllPlaced
    <3> QED BY <3>2, <3>3, Zenon
  <2> QED BY <1>1, <2>1, <2>2, <2>3, <2>4, Zenon DEF AllPlaced
<1>8. Apart'
  <2>1. ASSUME NEW r \in segs', NEW d \in r.docs
        PROVE  d \in DocSet(k.docs) \/ \E s \in segs : d \in s.docs
    <3>1. PICK s \in S : r.docs = s.docs
      BY <1>5, Zenon
    <3>2. s \in segs \/ s.docs = DocSet(k.docs)
      BY <1>3, Zenon
    <3> QED BY <3>1, <3>2, Zenon
  <2>2. ASSUME NEW i \in Slots, NEW r \in segs', NEW d \in DocSet(docs[i]), d \in r.docs PROVE FALSE
    BY <2>1, <2>2, Zenon DEF Documents, Apart
  <2>3. ASSUME NEW m \in tickets', NEW r \in segs', NEW d \in DocSet(m.docs), d \in r.docs
        PROVE  FALSE
    BY <1>6, <2>1, <2>3, Zenon DEF Documents, Apart
  <2>4. \A m \in tickets' : \A w \in tickets' \ {m} : \A d \in DocSet(m.docs) : d \notin DocSet(w.docs)
    BY <1>6, Zenon DEF Documents, Apart
  <2>5. \A i \in Slots : \A m \in tickets' : \A d \in DocSet(docs[i]) : d \notin DocSet(m.docs)
    BY <1>6, Zenon DEF Documents, Apart
  <2>6. SegmentsApart(commit.segs)
    BY Zenon DEF Documents, Apart
  <2> QED BY <1>1, <1>5, <2>2, <2>3, <2>4, <2>5, <2>6, Zenon DEF Documents, Apart, SegmentsApart
<1> QED BY <1>2, <1>7, <1>8, Zenon DEF Documents

\* A commit, in any outcome, moves no document; what it writes is the view.
LEMMA DocumentsCommit ==
  ASSUME DeleteOrder, Documents, NEW t \in Threads, Commit(t)
  PROVE  Documents'
<1>1. /\ UNCHANGED <<docs, tickets, adds>> /\ pc' = [pc EXCEPT ![t] = "unlock"]
  BY Zenon DEF Commit, slotVars, ticketVars, historyVars, Goto
<1>2. \A u \in Threads : pc'[u] = "drain" => pc[u] = "drain"
  BY <1>1, Types, Zenon DEF ThreadTypeOK
<1>3. CASE UNCHANGED coreVars
  BY <1>1, <1>2, <1>3, DocumentsStay, Zenon DEF coreVars
<1>4. CASE CommitSegments(last_seq[t]) \/ PrepareFails \/ FinishFails
  <2>1. /\ ApplyAll(segs, stream) \/ ApplySome(segs, stream)
        /\ commit' = commit \/ commit' = [seq |-> last_seq[t], segs |-> segs']
    BY <1>4, Zenon DEF CommitSegments, PrepareFails, FinishFails, ApplyPackets, ApplyPacketsFails
  <2>2. /\ \A r \in segs' : \E s \in segs : r.docs = s.docs
        /\ \A s \in segs : \E r \in segs' : r.docs = s.docs
        /\ SegmentsApart(segs')
    <3>1. segs \in SUBSET SegmentType /\ stream \in Packets
      BY OrderTypes, Zenon
    <3>2. SegmentsApart(segs)
      BY Zenon DEF Documents, Apart
    <3> QED BY <2>1, <3>1, <3>2, ApplyDocs, Zenon
  <2>3. SegmentsApart(commit'.segs)
    <3>1. commit'.segs = commit.segs \/ commit'.segs = segs'
      BY <2>1
    <3> QED BY <2>2, <3>1, Zenon DEF Documents, Apart
  <2>4. AllPlaced'
    <3>1. ASSUME NEW d \in adds
          PROVE  \/ \E i \in Slots : d \in DocSet(docs[i])
                 \/ \E k \in tickets : d \in DocSet(k.docs)
                 \/ \E r \in segs' : d \in r.docs
      <4>1. CASE \E s \in segs : d \in s.docs
        BY <2>2, <4>1, Zenon
      <4> QED BY <4>1, Zenon DEF Documents, AllPlaced
    <3>2. \A r \in segs' : r.docs \subseteq adds
      BY <2>2, Zenon DEF Documents, AllPlaced
    <3> QED BY <1>1, <3>1, <3>2, Zenon DEF Documents, AllPlaced
  <2>5. Apart'
    <3>1. \A i \in Slots : \A r \in segs' : \A d \in DocSet(docs[i]) : d \notin r.docs
      BY <2>2, Zenon DEF Documents, Apart
    <3>2. \A k \in tickets : \A r \in segs' : \A d \in DocSet(k.docs) : d \notin r.docs
      BY <2>2, Zenon DEF Documents, Apart
    <3> QED BY <1>1, <2>2, <2>3, <3>1, <3>2, Zenon DEF Documents, Apart, SegmentsApart
  <2>6. Emptied'
    BY <1>1, <1>2, Zenon DEF Documents, Emptied
  <2> QED BY <2>4, <2>5, <2>6, Zenon DEF Documents
<1> QED BY <1>3, <1>4, Zenon DEF Commit, PrepareRefused

\* Dropping the buffers drops their documents.
LEMMA DocumentsAbort ==
  ASSUME DeleteOrder, Documents, NEW t \in Threads, AbortSlots(t)
  PROVE  Documents'
<1>1. /\ \A i \in Slots : docs'[i] = <<>> /\ DocSet(docs'[i]) = {}
      /\ adds' = adds \ UNION {DocSet(docs[i]) : i \in Slots}
      /\ UNCHANGED <<tickets, segs, commit>>
  BY EmptyDocSet, Zenon DEF AbortSlots, ticketVars, coreVars
<1>2. Emptied'
  BY <1>1, Zenon DEF Emptied
<1>3. \A d : d \in adds' <=> d \in adds /\ \A i \in Slots : d \notin DocSet(docs[i])
  BY <1>1, Zenon
<1>4. AllPlaced'
  <2>1. ASSUME NEW d \in adds'
        PROVE  \/ \E k \in tickets : d \in DocSet(k.docs)
               \/ \E s \in segs : d \in s.docs
    <3>1. d \in adds /\ \A i \in Slots : d \notin DocSet(docs[i])
      BY <1>3, Zenon
    <3> QED BY <3>1, Zenon DEF Documents, AllPlaced
  <2>2. \A k \in tickets : DocSet(k.docs) \subseteq adds'
    BY <1>3, Zenon DEF Documents, AllPlaced, Apart
  <2>3. \A s \in segs : s.docs \subseteq adds'
    BY <1>3, Zenon DEF Documents, AllPlaced, Apart
  <2> QED BY <1>1, <2>1, <2>2, <2>3, Zenon DEF AllPlaced
<1>5. Apart'
  BY <1>1, Zenon DEF Documents, Apart, SegmentsApart
<1> QED BY <1>2, <1>4, <1>5, Zenon DEF Documents

\* Once the flushes are drained, dropping the view, or going back to the last
\* commit, leaves no document elsewhere.
LEMMA DocumentsDrain ==
  ASSUME DeleteOrder, Documents, NEW t \in Threads, Drain(t)
  PROVE  Documents'
<1>1. /\ pc[t] = "drain" /\ pc' = [pc EXCEPT ![t] = "idle"] /\ next_publish = next_ticket
      /\ UNCHANGED <<docs, tickets>>
      /\ commit' = commit
      /\ \/ segs' = {} /\ adds' = {}
         \/ segs' = segs /\ adds' = adds
         \/ segs' = commit.segs /\ adds' = DocsOf(commit.segs)
  BY Zenon DEF Drain, Drained, DropAll, Rollback, DropAllSegments, DropAllRefused,
     RollbackView, RollbackFails,
     Goto, ticketVars, coreVars
<1>2. \A i \in Slots : docs[i] = <<>> /\ DocSet(docs[i]) = {}
  BY <1>1, EmptyDocSet, Zenon DEF Documents, Emptied
<1>3. tickets = {}
  BY <1>1, NoneOutstanding, Zenon
<1>4. Emptied'
  BY <1>1, <1>2, Zenon DEF Emptied
<1>5. SegmentsApart(segs')
  BY <1>1, Zenon DEF Documents, Apart, SegmentsApart
<1>6. /\ \A d \in adds' : \E s \in segs' : d \in s.docs
      /\ \A s \in segs' : s.docs \subseteq adds'
  <2>1. CASE segs' = {} /\ adds' = {}
    BY <2>1, Zenon
  <2>2. CASE segs' = segs /\ adds' = adds
    BY <1>2, <1>3, <2>2, Zenon DEF Documents, AllPlaced
  <2>3. CASE segs' = commit.segs /\ adds' = DocsOf(commit.segs)
    BY <2>3, Zenon DEF DocsOf
  <2> QED BY <1>1, <2>1, <2>2, <2>3, Zenon
<1>7. AllPlaced'
  BY <1>1, <1>2, <1>3, <1>6, Zenon DEF AllPlaced
<1>8. Apart'
  BY <1>1, <1>2, <1>3, <1>5, Zenon DEF Documents, Apart
<1> QED BY <1>4, <1>7, <1>8, Zenon DEF Documents

----------------------------------------------------------------------------
(* Every step keeps the documents in place *)

\* There are no documents at first.
LEMMA DocumentsInit == Init => Documents
<1> SUFFICES ASSUME Init PROVE Documents
  BY Zenon
<1>1. /\ tickets = {} /\ segs = {} /\ commit.segs = {} /\ adds = {}
      /\ \A i \in Slots : docs[i] = <<>> /\ DocSet(docs[i]) = {}
  BY EmptyDocSet DEF Init, ControlInit
<1>2. AllPlaced
  BY <1>1, Zenon DEF AllPlaced
<1>3. Apart
  BY <1>1, Zenon DEF Apart, SegmentsApart
<1>4. Emptied
  BY <1>1, Zenon DEF Emptied
<1> QED BY <1>2, <1>3, <1>4, Zenon DEF Documents

\* The steps of a thread in its call keep every document in one place.
LEMMA DocumentsStep ==
  ASSUME DeleteOrder, Documents, NEW t \in Threads, Step(t)
  PROVE  Documents'
<1>0. pc \in [Threads -> Labels] /\ pending \subseteq Slots
  BY Types, Zenon DEF ThreadTypeOK, SlotTypeOK
<1>1. ASSUME NEW l \in Labels \ {"drain"}, pc' = [pc EXCEPT ![t] = l]
      PROVE  \A u \in Threads : pc'[u] = "drain" => pc[u] = "drain"
  BY <1>0, <1>1, Zenon
<1>2. CASE RefuseAdd(t) \/ ApplySlice(t) \/ SlotNotFull(t) \/ PostUpdateNone(t)
           \/ ApplyAllDeletesSkip(t) \/ EndFullFlush(t)
  <2>1. UNCHANGED <<docs, tickets, segs, adds, commit>>
    BY <1>2, Zenon DEF RefuseAdd, ApplySlice, SlotNotFull, ReleaseSlot, PostUpdateNone,
       ApplyAllDeletesSkip, EndFullFlush, slotVars, ticketVars, coreVars, historyVars
  <2>2. \E l \in {"idle", "publish", "full", "post", "deletes"} : pc' = [pc EXCEPT ![t] = l]
    BY <1>2, Zenon DEF RefuseAdd, ApplySlice, SlotNotFull, PostUpdateNone, ApplyAllDeletesSkip,
       EndFullFlush, AfterAdd, Goto
  <2>3. \A u \in Threads : pc'[u] = "drain" => pc[u] = "drain"
    BY <1>1, <2>2, Zenon DEF Labels
  <2> QED BY <2>1, <2>3, DocumentsStay, Zenon
<1>3. CASE SlotFull(t) \/ PostUpdate(t)
  <2>1. PICK i \in Slots, m \in SUBSET Slots : BeginFlush(i, 0, m)
    <3>1. CASE SlotFull(t)
      <4>1. at[t] \in Slots
        BY <3>1, Types, Zenon DEF SlotsOwned, SlotFull
      <4> QED BY <3>1, <4>1, Zenon DEF SlotFull
    <3>2. CASE PostUpdate(t)
      BY <1>0, <3>2, Zenon DEF PostUpdate, TakePending
    <3> QED BY <1>3, <3>1, <3>2, Zenon
  <2>2. /\ UNCHANGED <<segs, adds, commit>> /\ pc' = [pc EXCEPT ![t] = "publish"]
    BY <1>3, Zenon DEF SlotFull, ReleaseSlot, PostUpdate, TakePending, coreVars, historyVars, Goto
  <2>3. \A u \in Threads : pc'[u] = "drain" => pc[u] = "drain"
    BY <1>1, <2>2, Zenon DEF Labels
  <2> QED BY <2>1, <2>2, <2>3, DocumentsFlush, Zenon
<1>4. CASE ApplyAllDeletes(t) \/ TakeCut(t)
  <2>1. /\ DeletesTicket /\ UNCHANGED <<docs, segs, adds, commit>>
        /\ pc' = [pc EXCEPT ![t] = "publish"]
    BY <1>4, Zenon DEF ApplyAllDeletes, TakeCut, slotVars, coreVars, historyVars, Goto
  <2>2. \A u \in Threads : pc'[u] = "drain" => pc[u] = "drain"
    BY <1>1, <2>1, Zenon DEF Labels
  <2> QED BY <2>1, <2>2, DocumentsDeletesTicket, Zenon
<1>5. CASE LockNext(t)
  <2>1. /\ UNCHANGED <<docs, tickets, segs, adds, commit>>
        /\ UNCHANGED pc \/ \E l \in {"ticket", "abort"} : pc' = [pc EXCEPT ![t] = l]
    BY <1>5, Zenon DEF LockNext, Goto, ticketVars, coreVars, historyVars
  <2>2. \A u \in Threads : pc'[u] = "drain" => pc[u] = "drain"
    BY <1>1, <2>1, Zenon DEF Labels
  <2> QED BY <2>1, <2>2, DocumentsStay, Zenon
<1>6. CASE TicketNext(t)
  <2>1. UNCHANGED <<pc, segs, adds, commit>>
    BY <1>6, Zenon DEF TicketNext, coreVars, historyVars
  <2>2. at[t] + 1 \in Slots
    BY <1>6, Types DEF TicketNext, ThreadTypeOK, Slots
  <2>3. CASE BeginFlush(at[t] + 1, 0, pending)
    BY <2>1, <2>2, <2>3, DocumentsFlush, Zenon
  <2>4. CASE UNCHANGED <<docs, ticketVars>>
    BY <2>1, <2>4, DocumentsStay, Zenon DEF ticketVars
  <2> QED BY <1>6, <2>3, <2>4, Zenon DEF TicketNext
<1>7. ASSUME NEW c \in 1..MaxBlock, NEW d \in BOOLEAN, AddAfterEviction(t, c, d)
      PROVE  Documents'
  <2>1. pc[t] = "log" /\ Buffer(t, at[t], partition[at[t]], c, d)
    BY <1>7, Zenon DEF AddAfterEviction
  <2>2. at[t] \in Slots /\ owner[at[t]] = t
    BY <2>1, Types, Zenon DEF SlotsOwned
  <2> QED BY <2>1, <2>2, DocumentsBuffer, Zenon
<1>8. CASE Commit(t) \/ AbortSlots(t) \/ Drain(t) \/ \E k \in tickets : Publishes(t, k)
  BY <1>8, DocumentsCommit, DocumentsAbort, DocumentsDrain, DocumentsPublish, Zenon
<1> QED BY <1>2, <1>3, <1>4, <1>5, <1>6, <1>7, <1>8, Zenon DEF Step, Publishes

\* So do the calls.
LEMMA DocumentsCall ==
  ASSUME DeleteOrder, Documents, NEW t \in Threads, Call(t)
  PROVE  Documents'
<1>0. pc \in [Threads -> Labels] /\ pending \subseteq Slots
  BY Types, Zenon DEF ThreadTypeOK, SlotTypeOK
<1>1. ASSUME NEW l \in Labels \ {"drain"}, pc' = [pc EXCEPT ![t] = l]
      PROVE  \A u \in Threads : pc'[u] = "drain" => pc[u] = "drain"
  BY <1>0, <1>1, Zenon
<1>2. CASE BufferDelete(t) \/ \E j \in FullFlushJobs : StartFullFlush(t, j)
  <2>1. /\ UNCHANGED <<docs, tickets, segs, adds, commit>>
        /\ \E l \in {"deletes", "idle", "lock"} : pc' = [pc EXCEPT ![t] = l]
    BY <1>2, Zenon DEF BufferDelete, StartFullFlush, AfterFlush, Goto, slotVars, ticketVars,
       coreVars, historyVars
  <2>2. \A u \in Threads : pc'[u] = "drain" => pc[u] = "drain"
    BY <1>1, <2>1, Zenon DEF Labels
  <2> QED BY <2>1, <2>2, DocumentsStay, Zenon
<1>3. CASE PreUpdate(t) \/ \E i \in Slots : FlushNextBuffer(t, i) \/ \E p \in 1..Partitions : Evict(t, i, p)
  <2>1. \E i \in Slots : \E p : BeginFlush(i, p, pending)
    BY <1>0, <1>3, Zenon DEF PreUpdate, TakePending, FlushNextBuffer, Evict
  <2>2. /\ UNCHANGED <<segs, adds, commit>>
        /\ \E l \in {"publish", "log"} : pc' = [pc EXCEPT ![t] = l]
    BY <1>3, Zenon DEF PreUpdate, TakePending, FlushNextBuffer, Evict, coreVars, historyVars, Goto
  <2>3. \A u \in Threads : pc'[u] = "drain" => pc[u] = "drain"
    BY <1>1, <2>2, Zenon DEF Labels
  <2> QED BY <2>1, <2>2, <2>3, DocumentsFlush, Zenon
<1>4. ASSUME NEW i \in Slots, NEW p \in 1..Partitions, NEW c \in 1..MaxBlock,
             NEW d \in BOOLEAN, AddDocuments(t, i, p, c, d)
      PROVE  Documents'
  <2>1. pc[t] # "drain" /\ owner[i] = None /\ Buffer(t, i, p, c, d)
    BY <1>4, Zenon DEF AddDocuments, CallsAdd, Calls
  <2> QED BY <2>1, DocumentsBuffer, Zenon
<1> QED BY <1>2, <1>3, <1>4, Zenon DEF Call

\* A document two places hold would be in two that Apart keeps apart.
LEMMA OnePlace ==
  ASSUME Apart, NEW d, NEW p \in PlacesOf(d), NEW q \in PlacesOf(d)
  PROVE  q = p
<1>1. ASSUME NEW r \in PlacesOf(d)
      PROVE  \/ \E i \in Slots : r = <<"slot", i>> /\ d \in DocSet(docs[i])
             \/ \E k \in tickets : r = <<"ticket", k>> /\ d \in DocSet(k.docs)
             \/ \E s \in segs : r = <<"segment", s>> /\ d \in s.docs
  BY <1>1, Zenon DEF PlacesOf
<1>2. /\ \/ \E i \in Slots : q = <<"slot", i>> /\ d \in DocSet(docs[i])
         \/ \E k \in tickets : q = <<"ticket", k>> /\ d \in DocSet(k.docs)
         \/ \E s \in segs : q = <<"segment", s>> /\ d \in s.docs
      /\ \/ \E i \in Slots : p = <<"slot", i>> /\ d \in DocSet(docs[i])
         \/ \E k \in tickets : p = <<"ticket", k>> /\ d \in DocSet(k.docs)
         \/ \E s \in segs : p = <<"segment", s>> /\ d \in s.docs
  BY <1>1, Zenon
<1>3. ASSUME NEW i \in Slots, p = <<"slot", i>>, d \in DocSet(docs[i]) PROVE q = p
  <2>1. /\ \A j \in Slots \ {i} : d \notin DocSet(docs[j])
        /\ \A k \in tickets : d \notin DocSet(k.docs)
        /\ \A s \in segs : d \notin s.docs
    BY <1>3, Zenon DEF Apart
  <2> QED BY <1>2, <1>3, <2>1, Zenon
<1>4. ASSUME NEW k \in tickets, p = <<"ticket", k>>, d \in DocSet(k.docs) PROVE q = p
  <2>1. /\ \A i \in Slots : d \notin DocSet(docs[i])
        /\ \A m \in tickets \ {k} : d \notin DocSet(m.docs)
        /\ \A s \in segs : d \notin s.docs
    BY <1>4, Zenon DEF Apart
  <2> QED BY <1>2, <1>4, <2>1, Zenon
<1>5. ASSUME NEW s \in segs, p = <<"segment", s>>, d \in s.docs PROVE q = p
  <2>1. /\ \A i \in Slots : d \notin DocSet(docs[i])
        /\ \A k \in tickets : d \notin DocSet(k.docs)
        /\ \A r \in segs \ {s} : d \notin r.docs
    BY <1>5, Zenon DEF Apart, SegmentsApart
  <2> QED BY <1>2, <1>5, <2>1, Zenon
<1> QED BY <1>2, <1>3, <1>4, <1>5, Zenon

\* The invariant says what DocumentsConserved does.
LEMMA DocumentsSuffice == Documents => DocumentsConserved
<1> SUFFICES ASSUME Documents PROVE DocumentsConserved
  BY Zenon
<1>1. ASSUME NEW d \in adds PROVE \E p \in PlacesOf(d) : PlacesOf(d) = {p}
  <2>1. \/ \E i \in Slots : d \in DocSet(docs[i])
        \/ \E k \in tickets : d \in DocSet(k.docs)
        \/ \E s \in segs : d \in s.docs
    BY <1>1, Zenon DEF Documents, AllPlaced
  <2>2. PICK p : p \in PlacesOf(d)
    <3>1. ASSUME NEW i \in Slots, d \in DocSet(docs[i]) PROVE <<"slot", i>> \in PlacesOf(d)
      BY <3>1, Zenon DEF PlacesOf
    <3>2. ASSUME NEW k \in tickets, d \in DocSet(k.docs) PROVE <<"ticket", k>> \in PlacesOf(d)
      BY <3>2, Zenon DEF PlacesOf
    <3>3. ASSUME NEW s \in segs, d \in s.docs PROVE <<"segment", s>> \in PlacesOf(d)
      BY <3>3, Zenon DEF PlacesOf
    <3> QED BY <2>1, <3>1, <3>2, <3>3, Zenon
  <2>3. \A q \in PlacesOf(d) : q = p
    BY <2>2, OnePlace, Zenon DEF Documents
  <2> QED BY <2>2, <2>3, Zenon
<1> QED BY <1>1, Zenon DEF Documents, AllPlaced, DocumentsConserved

----------------------------------------------------------------------------
(* The full-flush lock *)

\* The labels of a thread that runs a full flush.
FullFlushing == {"lock", "ticket", "publish", "commit", "unlock", "abort", "drain"}

\* Where a full flush of thread t can be, and that it has the full-flush lock.
FlushState(t) ==
    /\ pc[t] \in {"lock", "ticket", "commit", "abort", "drain"} => job[t] # "none"
    /\ pc[t] = "commit" => job[t] = "commit"
    /\ job[t] # "none" => pc[t] \in FullFlushing
    /\ pc[t] = "publish" /\ job[t] = "commit" => ret[t] = "commit"
    /\ pc[t] = "publish" /\ job[t] \notin {"none", "commit"} => ret[t] = "unlock"
    /\ ret[t] = "commit" => job[t] = "commit"
    /\ ret[t] \in {"commit", "unlock"} => pc[t] = "publish"
    /\ job[t] # "none" \/ ret[t] = "unlock" \/ pc[t] = "unlock" => full_flush = t

FullFlushLock == \A t \in Threads : FlushState(t)

\* A step of t disturbs no other thread's full flush, when the lock only moves
\* to t or away from it.
LEMMA LockOthers ==
  ASSUME FullFlushLock, NEW t \in Threads,
         \A u \in Threads \ {t} : pc'[u] = pc[u] /\ job'[u] = job[u] /\ ret'[u] = ret[u],
         full_flush' = full_flush \/ full_flush \in {t, None},
         FlushState(t)'
  PROVE  FullFlushLock'
<1> SUFFICES ASSUME NEW u \in Threads \ {t} PROVE FlushState(u)'
  BY Zenon DEF FullFlushLock
<1>1. FlushState(u) /\ pc'[u] = pc[u] /\ job'[u] = job[u] /\ ret'[u] = ret[u] /\ u # t /\ u # None
  BY Zenon DEF FullFlushLock, WriterAssumption
<1>2. full_flush = u => full_flush' = u
  BY <1>1, Zenon
<1> QED BY <1>1, <1>2, Zenon DEF FlushState

\* A thread outside a full flush that stays outside.
LEMMA LockOutside ==
  ASSUME DeleteOrder, FullFlushLock, NEW t \in Threads, pc[t] \notin FullFlushing,
         NEW l, l \notin FullFlushing \ {"publish"}, pc' = [pc EXCEPT ![t] = l],
         UNCHANGED <<job, full_flush>>,
         UNCHANGED ret \/ \E r \in Returns \ {"commit", "unlock"} : ret' = [ret EXCEPT ![t] = r]
  PROVE  FullFlushLock'
<1>1. pc \in [Threads -> Labels] /\ ret \in [Threads -> Returns]
  BY Types, Zenon DEF ThreadTypeOK
<1>2. /\ pc'[t] = l /\ \A u \in Threads \ {t} : pc'[u] = pc[u] /\ ret'[u] = ret[u]
  BY <1>1, Zenon
<1>3. FlushState(t)
  BY Zenon DEF FullFlushLock
<1>4. job'[t] = "none" /\ ret[t] \notin {"commit", "unlock"}
  BY <1>3, Zenon DEF FlushState, FullFlushing
<1>5. ret'[t] \notin {"commit", "unlock"}
  BY <1>1, <1>4, Zenon
<1>6. FlushState(t)'
  BY <1>2, <1>4, <1>5, Zenon DEF FlushState, FullFlushing
<1> QED BY <1>2, <1>6, LockOthers, Zenon

\* What the steps outside a full flush do to its state.
LEMMA LockQuiet ==
  ASSUME DeleteOrder, FullFlushLock, NEW t \in Threads,
         \/ RefuseAdd(t) \/ ApplySlice(t) \/ SlotFull(t) \/ SlotNotFull(t)
         \/ PostUpdate(t) \/ PostUpdateNone(t) \/ ApplyAllDeletesSkip(t)
         \/ PreUpdate(t) \/ BufferDelete(t)
         \/ \E i \in Slots : FlushNextBuffer(t, i) \/ \E p : Evict(t, i, p)
         \/ \E i, p, c, d : AddDocuments(t, i, p, c, d)
         \/ \E c, d : AddAfterEviction(t, c, d)
  PROVE  /\ pc[t] \notin FullFlushing
         /\ \E l : l \notin FullFlushing \ {"publish"} /\ pc' = [pc EXCEPT ![t] = l]
         /\ UNCHANGED <<job, full_flush, last_seq, barrier, next_publish>>
         /\ UNCHANGED held \/ \E h : held' = [held EXCEPT ![t] = h]
         /\ UNCHANGED ret \/ \E r \in Returns \ {"commit", "unlock"} : ret' = [ret EXCEPT ![t] = r]
<1>0. /\ AfterFlush \in Returns \ {"commit", "unlock"} /\ AfterAdd \in Returns \ {"commit", "unlock"}
      /\ AfterFlush \notin FullFlushing /\ AfterAdd \notin FullFlushing
  BY Zenon DEF AfterFlush, AfterAdd, Returns, FullFlushing
<1>1. CASE RefuseAdd(t) \/ ApplySlice(t) \/ PostUpdateNone(t) \/ ApplyAllDeletesSkip(t)
  BY <1>1, Zenon DEF RefuseAdd, ApplySlice, PostUpdateNone, ApplyAllDeletesSkip, Goto, FullFlushing,
     Returns, ticketVars
<1>2. CASE SlotFull(t)
  BY <1>0, <1>2, Zenon DEF SlotFull, BeginFlush, ReleaseSlot, Goto, FullFlushing
<1>3. CASE SlotNotFull(t)
  BY <1>0, <1>3, Zenon DEF SlotNotFull, ReleaseSlot, Goto, FullFlushing, ticketVars
<1>4. CASE PostUpdate(t) \/ PreUpdate(t)
  BY <1>4, Zenon DEF PostUpdate, PreUpdate, TakePending, BeginFlush, Goto, FullFlushing, Returns
<1>5. CASE BufferDelete(t)
  BY <1>0, <1>5, Zenon DEF BufferDelete, Calls, Goto, FullFlushing, ticketVars
<1>6. CASE \E i \in Slots : FlushNextBuffer(t, i) \/ \E p : Evict(t, i, p)
  BY <1>6, Zenon DEF FlushNextBuffer, Evict, CallsAdd, Calls, BeginFlush, Goto, FullFlushing, Returns
<1>7. CASE \E i, p, c, d : AddDocuments(t, i, p, c, d)
  BY <1>7, Zenon DEF AddDocuments, CallsAdd, Calls, Buffer, Goto, FullFlushing, ticketVars
<1>8. CASE \E c, d : AddAfterEviction(t, c, d)
  BY <1>8, Zenon DEF AddAfterEviction, Buffer, Goto, FullFlushing, ticketVars
<1> QED BY <1>1, <1>2, <1>3, <1>4, <1>5, <1>6, <1>7, <1>8, Zenon

\* The steps that take part in a full flush, and publishing.
LEMMA LockSteps ==
  ASSUME DeleteOrder, FullFlushLock, NEW t \in Threads,
         \/ ApplyAllDeletes(t) \/ LockNext(t) \/ TicketNext(t) \/ TakeCut(t) \/ Commit(t)
         \/ EndFullFlush(t) \/ AbortSlots(t) \/ Drain(t)
         \/ \E j \in FullFlushJobs : StartFullFlush(t, j)
         \/ \E k \in tickets : Publishes(t, k)
  PROVE  FullFlushLock'
<1>1. /\ pc \in [Threads -> Labels] /\ ret \in [Threads -> Returns]
      /\ job \in [Threads -> FullFlushJobs \union {"none"}]
  BY Types, Zenon DEF ThreadTypeOK
<1>2. FlushState(t)
  BY Zenon DEF FullFlushLock
<1>3. CASE ApplyAllDeletes(t)
  <2>1. /\ pc[t] = "deletes" /\ full_flush = None /\ full_flush' = t /\ UNCHANGED job
        /\ pc' = [pc EXCEPT ![t] = "publish"] /\ ret' = [ret EXCEPT ![t] = "unlock"]
    BY <1>3, Zenon DEF ApplyAllDeletes, Goto
  <2>2. /\ pc'[t] = "publish" /\ ret'[t] = "unlock"
        /\ \A u \in Threads \ {t} : pc'[u] = pc[u] /\ job'[u] = job[u] /\ ret'[u] = ret[u]
    BY <1>1, <2>1, Zenon
  <2>3. job'[t] = "none"
    BY <1>2, <2>1, Zenon DEF FlushState, FullFlushing
  <2>4. FlushState(t)'
    BY <2>1, <2>2, <2>3, Zenon DEF FlushState
  <2> QED BY <2>1, <2>2, <2>4, LockOthers, Zenon
<1>4. ASSUME NEW j \in FullFlushJobs, StartFullFlush(t, j) PROVE FullFlushLock'
  <2>1. /\ pc[t] = "idle" /\ full_flush = None /\ full_flush' = t /\ UNCHANGED ret
        /\ pc' = [pc EXCEPT ![t] = "lock"] /\ job' = [job EXCEPT ![t] = j]
    BY <1>4, Zenon DEF StartFullFlush, Goto, Calls
  <2>2. /\ pc'[t] = "lock" /\ job'[t] = j
        /\ \A u \in Threads \ {t} : pc'[u] = pc[u] /\ job'[u] = job[u] /\ ret'[u] = ret[u]
    BY <1>1, <2>1, Zenon
  <2>3. ret'[t] \notin {"commit", "unlock"}
    BY <1>2, <2>1, Zenon DEF FlushState
  <2>4. FlushState(t)'
    BY <2>1, <2>2, <2>3, Zenon DEF FlushState, FullFlushing, FullFlushJobs
  <2> QED BY <2>1, <2>2, <2>4, LockOthers, Zenon
<1>5. CASE LockNext(t) \/ TicketNext(t) \/ Commit(t) \/ AbortSlots(t)
  <2>1. /\ pc[t] \in {"lock", "ticket", "commit", "abort"} /\ UNCHANGED <<job, ret, full_flush>>
        /\ UNCHANGED pc \/ \E l \in {"ticket", "abort", "unlock", "drain"} : pc' = [pc EXCEPT ![t] = l]
    BY <1>5, Zenon DEF LockNext, TicketNext, Commit, AbortSlots, Goto
  <2>2. /\ pc'[t] = pc[t] \/ pc'[t] \in {"ticket", "abort", "unlock", "drain"}
        /\ \A u \in Threads \ {t} : pc'[u] = pc[u] /\ job'[u] = job[u] /\ ret'[u] = ret[u]
    BY <1>1, <2>1, Zenon
  <2>3. ret'[t] \notin {"commit", "unlock"} /\ job'[t] # "none" /\ full_flush' = t
    BY <1>2, <2>1, Zenon DEF FlushState
  <2>4. FlushState(t)'
    <3>1. CASE pc'[t] = pc[t]
      BY <1>2, <2>1, <2>3, <3>1, Zenon DEF FlushState, FullFlushing
    <3>2. CASE pc'[t] \in {"ticket", "abort", "unlock", "drain"}
      BY <2>1, <2>3, <3>2, Zenon DEF FlushState, FullFlushing
    <3> QED BY <2>2, <3>1, <3>2, Zenon
  <2> QED BY <2>1, <2>2, <2>4, LockOthers, Zenon
<1>6. CASE TakeCut(t)
  <2>1. /\ pc[t] = "ticket" /\ UNCHANGED <<job, full_flush>>
        /\ pc' = [pc EXCEPT ![t] = "publish"]
        /\ ret' = [ret EXCEPT ![t] = IF job[t] = "commit" THEN "commit" ELSE "unlock"]
    BY <1>6, Zenon DEF TakeCut, Goto
  <2>2. /\ pc'[t] = "publish" /\ ret'[t] = IF job[t] = "commit" THEN "commit" ELSE "unlock"
        /\ \A u \in Threads \ {t} : pc'[u] = pc[u] /\ job'[u] = job[u] /\ ret'[u] = ret[u]
    BY <1>1, <2>1, Zenon
  <2>3. job'[t] # "none" /\ job[t] = job'[t] /\ full_flush' = t
    BY <1>2, <2>1, Zenon DEF FlushState
  <2>4. /\ job'[t] = "commit" => ret'[t] = "commit"
        /\ job'[t] # "commit" => ret'[t] = "unlock"
    BY <2>2, <2>3, Zenon
  <2>5. FlushState(t)'
    BY <2>2, <2>3, <2>4, Zenon DEF FlushState, FullFlushing
  <2> QED BY <2>1, <2>2, <2>5, LockOthers, Zenon
<1>7. CASE EndFullFlush(t) \/ Drain(t)
  <2>1. /\ pc[t] \in {"unlock", "drain"} /\ full_flush' = None /\ UNCHANGED ret
        /\ pc' = [pc EXCEPT ![t] = "idle"] /\ job' = [job EXCEPT ![t] = "none"]
    BY <1>7, Zenon DEF EndFullFlush, Drain, Goto
  <2>2. /\ pc'[t] = "idle" /\ job'[t] = "none"
        /\ \A u \in Threads \ {t} : pc'[u] = pc[u] /\ job'[u] = job[u] /\ ret'[u] = ret[u]
    BY <1>1, <2>1, Zenon
  <2>3. ret'[t] \notin {"commit", "unlock"} /\ full_flush = t
    BY <1>2, <2>1, Zenon DEF FlushState
  <2>4. FlushState(t)'
    BY <2>2, <2>3, Zenon DEF FlushState
  <2> QED BY <2>2, <2>3, <2>4, LockOthers, Zenon
<1>8. ASSUME NEW k \in tickets, Publishes(t, k) PROVE FullFlushLock'
  <2>1. PICK error \in BOOLEAN : pc[t] = "publish" /\ Retire(t, k, error)
    BY <1>8, PublishRetires, Zenon
  <2>2. /\ UNCHANGED <<job, full_flush>>
        /\ \/ StopsAt(t) /\ pc' = [pc EXCEPT ![t] = "idle"] /\ ret' = [ret EXCEPT ![t] = "idle"]
           \/ pc' = [pc EXCEPT ![t] = ret[t]] /\ ret' = [ret EXCEPT ![t] = "idle"]
           \/ pc' = [pc EXCEPT ![t] = "publish"] /\ ret' = ret
    <3>1. CASE error /\ StopsAt(t)
      BY <2>1, <3>1, Zenon DEF Retire, Goto
    <3>2. CASE ~(error /\ StopsAt(t)) /\ held[t] \ {k.no} = {}
      BY <2>1, <3>2, Zenon DEF Retire, Goto
    <3>3. CASE ~(error /\ StopsAt(t)) /\ held[t] \ {k.no} # {}
      BY <2>1, <3>3, Zenon DEF Retire, Goto
    <3> QED BY <3>1, <3>2, <3>3, Zenon
  <2>3. /\ \A u \in Threads \ {t} : pc'[u] = pc[u] /\ job'[u] = job[u] /\ ret'[u] = ret[u]
        /\ job'[t] = job[t]
        /\ \/ job[t] = "none" /\ ret[t] # "unlock" /\ pc'[t] = "idle" /\ ret'[t] = "idle"
           \/ pc'[t] = ret[t] /\ ret'[t] = "idle"
           \/ pc'[t] = "publish" /\ ret'[t] = ret[t]
    BY <1>1, <2>2, Zenon DEF StopsAt
  <2>4. FlushState(t)'
    <3>1. CASE job[t] = "none" /\ ret[t] # "unlock" /\ pc'[t] = "idle" /\ ret'[t] = "idle"
      BY <2>3, <3>1, Zenon DEF FlushState
    <3>2. CASE pc'[t] = "publish" /\ ret'[t] = ret[t]
      BY <1>2, <2>1, <2>2, <2>3, <3>2, Zenon DEF FlushState, FullFlushing
    <3>3. CASE pc'[t] = ret[t] /\ ret'[t] = "idle" /\ job[t] = "none"
      <4>1. pc'[t] \in Returns /\ pc'[t] # "commit" /\ (pc'[t] = "unlock" => full_flush = t)
        BY <1>1, <1>2, <3>3, Zenon DEF FlushState
      <4> QED BY <2>2, <2>3, <3>3, <4>1, Zenon DEF FlushState, Returns
    <3>4. CASE pc'[t] = ret[t] /\ ret'[t] = "idle" /\ job[t] # "none"
      <4>1. full_flush = t /\ pc'[t] \in {"commit", "unlock"} /\ (pc'[t] = "commit" => job[t] = "commit")
        BY <1>2, <2>1, <3>4, Zenon DEF FlushState
      <4> QED BY <2>2, <2>3, <3>4, <4>1, Zenon DEF FlushState, FullFlushing
    <3> QED BY <2>3, <3>1, <3>2, <3>3, <3>4, Zenon
  <2> QED BY <2>2, <2>3, <2>4, LockOthers, Zenon
<1> QED BY <1>3, <1>4, <1>5, <1>6, <1>7, <1>8, Zenon

\* At most one thread runs a full flush, and it has the lock.
LEMMA LockStep == DeleteOrder /\ FullFlushLock /\ [Next]_vars => FullFlushLock'
<1> SUFFICES ASSUME DeleteOrder, FullFlushLock, [Next]_vars PROVE FullFlushLock'
  BY Zenon
<1>1. CASE UNCHANGED vars \/ Terminated
  <2>1. UNCHANGED <<pc, job, ret, full_flush>>
    BY <1>1, Zenon DEF Terminated, vars, threadVars
  <2> QED BY <2>1, Zenon DEF FullFlushLock, FlushState
<1>2. ASSUME NEW t \in Threads, Step(t) \/ Call(t) PROVE FullFlushLock'
  <2>1. CASE \/ RefuseAdd(t) \/ ApplySlice(t) \/ SlotFull(t) \/ SlotNotFull(t)
             \/ PostUpdate(t) \/ PostUpdateNone(t) \/ ApplyAllDeletesSkip(t)
             \/ PreUpdate(t) \/ BufferDelete(t)
             \/ \E i \in Slots : FlushNextBuffer(t, i) \/ \E p : Evict(t, i, p)
             \/ \E i, p, c, d : AddDocuments(t, i, p, c, d)
             \/ \E c, d : AddAfterEviction(t, c, d)
    BY <2>1, LockQuiet, LockOutside, Zenon
  <2> QED BY <1>2, <2>1, LockSteps, Zenon DEF Step, Call, Publishes
<1> QED BY <1>1, <1>2, Zenon DEF Next

\* No thread runs a full flush at first.
LEMMA LockInit == Init => FullFlushLock
BY Zenon DEF Init, FullFlushLock, FlushState

----------------------------------------------------------------------------
(* A commit between its cut and its end *)

\* Thread t has cut and not yet written its commit.
Cutting(t) == job[t] = "commit" /\ pc[t] \in {"publish", "commit"}

\* A commit waits for its own last ticket, and nothing beyond it is published.
TurnOf(t) ==
    /\ barrier # 0 /\ next_publish <= barrier
    /\ pc[t] = "publish" => barrier - 1 \in held[t] /\ \A n \in held[t] : n < barrier
    /\ pc[t] = "commit" => next_publish = barrier

Turn == \A t \in Threads : Cutting(t) => TurnOf(t)

\* A full flush has emptied the slots it has gone through.
SlotsTicketed == \A t \in Threads : pc[t] = "ticket" => \A i \in 1..at[t] : docs[i] = <<>>

\* Only a cut starts this phase, and in it only publishing moves the thread; the
\* barrier stays, and nobody else commits or drops the buffers.
LEMMA CuttingStep ==
  ASSUME DeleteOrder, FullFlushLock, NEW t \in Threads, Step(t) \/ Call(t),
         NEW u \in Threads, Cutting(u)'
  PROVE  \/ u = t /\ TakeCut(t)
         \/ /\ Cutting(u) /\ last_seq'[u] = last_seq[u] /\ UNCHANGED barrier
            /\ u = t => \E k \in tickets : Publishes(t, k)
            /\ u # t => /\ pc'[u] = pc[u] /\ held'[u] = held[u]
                        /\ pc[t] \notin {"commit", "abort", "drain"}
<1>1. /\ pc \in [Threads -> Labels] /\ held \in [Threads -> SUBSET Nat]
      /\ job \in [Threads -> FullFlushJobs \union {"none"}] /\ last_seq \in [Threads -> Nat]
  BY Types, Zenon DEF ThreadTypeOK
<1>2. FlushState(t) /\ FlushState(u)
  BY Zenon DEF FullFlushLock
<1>3. job'[u] = "commit" /\ pc'[u] \in {"publish", "commit"}
  BY Zenon DEF Cutting
<1>4. CASE \/ RefuseAdd(t) \/ ApplySlice(t) \/ SlotFull(t) \/ SlotNotFull(t)
           \/ PostUpdate(t) \/ PostUpdateNone(t) \/ ApplyAllDeletesSkip(t)
           \/ PreUpdate(t) \/ BufferDelete(t)
           \/ \E i \in Slots : FlushNextBuffer(t, i) \/ \E p : Evict(t, i, p)
           \/ \E i, p, c, d : AddDocuments(t, i, p, c, d)
           \/ \E c, d : AddAfterEviction(t, c, d)
  <2>1. /\ pc[t] \notin FullFlushing /\ UNCHANGED <<job, last_seq, barrier>>
        /\ \E l : pc' = [pc EXCEPT ![t] = l]
        /\ UNCHANGED held \/ \E h : held' = [held EXCEPT ![t] = h]
    BY <1>4, LockQuiet, Zenon
  <2>2. u # t /\ pc[t] \notin {"commit", "abort", "drain"}
    BY <1>2, <1>3, <2>1, Zenon DEF FlushState, FullFlushing
  <2>3. pc'[u] = pc[u] /\ held'[u] = held[u]
    BY <1>1, <2>1, <2>2, Zenon
  <2> QED BY <1>3, <2>1, <2>2, <2>3, Zenon DEF Cutting
<1>5. CASE ApplyAllDeletes(t)
  <2>1. /\ pc[t] = "deletes" /\ UNCHANGED <<job, last_seq, barrier>>
        /\ pc' = [pc EXCEPT ![t] = "publish"] /\ held' = [held EXCEPT ![t] = {next_ticket}]
    BY <1>5, Zenon DEF ApplyAllDeletes, Goto
  <2>2. u # t
    BY <1>2, <1>3, <2>1, Zenon DEF FlushState, FullFlushing
  <2>3. pc'[u] = pc[u] /\ held'[u] = held[u]
    BY <1>1, <2>1, <2>2, Zenon
  <2> QED BY <1>3, <2>1, <2>2, <2>3, Zenon DEF Cutting
<1>6. CASE \E j \in FullFlushJobs : StartFullFlush(t, j)
  <2>1. PICK j : /\ pc[t] = "idle" /\ UNCHANGED <<held, last_seq, barrier>>
                 /\ pc' = [pc EXCEPT ![t] = "lock"] /\ job' = [job EXCEPT ![t] = j]
    BY <1>6, Zenon DEF StartFullFlush, Goto, Calls, ticketVars
  <2>2. u # t
    BY <1>1, <1>3, <2>1, Zenon
  <2>3. pc'[u] = pc[u] /\ job'[u] = job[u]
    BY <1>1, <2>1, <2>2, Zenon
  <2> QED BY <1>3, <2>1, <2>2, <2>3, Zenon DEF Cutting
<1>7. CASE LockNext(t) \/ TicketNext(t)
  <2>1. /\ pc[t] \in {"lock", "ticket"} /\ UNCHANGED <<job, last_seq, barrier>>
        /\ UNCHANGED held \/ \E h : held' = [held EXCEPT ![t] = h]
        /\ UNCHANGED pc \/ \E l \in {"ticket", "abort"} : pc' = [pc EXCEPT ![t] = l]
    BY <1>7, Zenon DEF LockNext, TicketNext, BeginFlush, Goto, ticketVars
  <2>2. u # t
    BY <1>1, <1>3, <2>1, Zenon
  <2>3. pc'[u] = pc[u] /\ held'[u] = held[u]
    BY <1>1, <2>1, <2>2, Zenon
  <2> QED BY <1>3, <2>1, <2>2, <2>3, Zenon DEF Cutting
<1>8. CASE Commit(t) \/ EndFullFlush(t) \/ AbortSlots(t) \/ Drain(t)
  <2>1. /\ pc[t] \in {"commit", "unlock", "abort", "drain"}
        /\ \E l \in {"unlock", "idle", "drain"} : pc' = [pc EXCEPT ![t] = l]
        /\ UNCHANGED job \/ job' = [job EXCEPT ![t] = "none"]
    BY <1>8, Zenon DEF Commit, EndFullFlush, AbortSlots, Drain, Goto
  <2>2. u # t
    BY <1>1, <1>3, <2>1, Zenon
  <2>3. job'[u] = job[u]
    BY <1>1, <2>1, <2>2, Zenon
  <2>4. full_flush = u /\ full_flush = t
    BY <1>2, <1>3, <2>1, <2>3, Zenon DEF FlushState
  <2> QED BY <2>2, <2>4, Zenon
<1>9. CASE TakeCut(t)
  <2>1. CASE u # t
    <3>1. UNCHANGED job /\ pc[t] = "ticket"
      BY <1>9, Zenon DEF TakeCut
    <3>2. full_flush = u /\ full_flush = t
      BY <1>2, <1>3, <3>1, Zenon DEF FlushState
    <3> QED BY <2>1, <3>2, Zenon
  <2> QED BY <1>9, <2>1, Zenon
<1>10. ASSUME NEW k \in tickets, Publishes(t, k)
       PROVE  /\ Cutting(u) /\ last_seq'[u] = last_seq[u] /\ UNCHANGED barrier
              /\ u # t => /\ pc'[u] = pc[u] /\ held'[u] = held[u]
                          /\ pc[t] \notin {"commit", "abort", "drain"}
  <2>1. PICK error \in BOOLEAN : pc[t] = "publish" /\ Retire(t, k, error)
    BY <1>10, PublishRetires, Zenon
  <2>2. /\ UNCHANGED <<job, last_seq, barrier>>
        /\ \E l : pc' = [pc EXCEPT ![t] = l]
        /\ \E h : held' = [held EXCEPT ![t] = h]
    BY <2>1, Zenon DEF Retire, Goto
  <2>3. u # t => pc'[u] = pc[u] /\ held'[u] = held[u]
    BY <1>1, <2>2, Zenon
  <2> QED BY <1>3, <2>1, <2>2, <2>3, Zenon DEF Cutting
<1>11. CASE \E k \in tickets : Publishes(t, k)
  BY <1>10, <1>11, Zenon
<1> QED BY <1>4, <1>5, <1>6, <1>7, <1>8, <1>9, <1>11, Zenon DEF Step, Call, Publishes

\* Tickets leave only by being published.
LEMMA PublishingStep ==
  ASSUME NEW t \in Threads, Step(t) \/ Call(t)
  PROVE  UNCHANGED next_publish \/ \E k \in tickets : Publishes(t, k)
<1>1. CASE \/ RefuseAdd(t) \/ ApplySlice(t) \/ SlotNotFull(t) \/ PostUpdateNone(t)
           \/ ApplyAllDeletesSkip(t) \/ LockNext(t) \/ Commit(t) \/ EndFullFlush(t)
           \/ AbortSlots(t) \/ Drain(t) \/ BufferDelete(t)
           \/ \E j \in FullFlushJobs : StartFullFlush(t, j)
  BY <1>1, Zenon DEF RefuseAdd, ApplySlice, SlotNotFull, PostUpdateNone, ApplyAllDeletesSkip, LockNext,
     Commit, EndFullFlush, AbortSlots, Drain, BufferDelete, StartFullFlush, ticketVars
<1>2. CASE \/ SlotFull(t) \/ PostUpdate(t) \/ PreUpdate(t) \/ ApplyAllDeletes(t) \/ TakeCut(t)
           \/ TicketNext(t) \/ \E i \in Slots : FlushNextBuffer(t, i) \/ \E p : Evict(t, i, p)
  BY <1>2, Zenon DEF SlotFull, PostUpdate, PreUpdate, TakePending, ApplyAllDeletes, TakeCut, TicketNext,
     FlushNextBuffer, Evict, BeginFlush, DeletesTicket, ticketVars
<1>3. CASE \/ \E c, d : AddAfterEviction(t, c, d)
           \/ \E i, p, c, d : AddDocuments(t, i, p, c, d)
  BY <1>3, Zenon DEF AddAfterEviction, AddDocuments, Buffer, ticketVars
<1> QED BY <1>1, <1>2, <1>3, Zenon DEF Step, Call, Publishes

\* The thread's own last ticket is the last before the barrier: when none is left
\* to it, every ticket before the barrier is published.
LEMMA TurnStep ==
  ASSUME DeleteOrder, Publishers, FullFlushLock, Turn, NEW t \in Threads, Step(t) \/ Call(t)
  PROVE  Turn'
<1> SUFFICES ASSUME NEW u \in Threads, Cutting(u)' PROVE TurnOf(u)'
  BY Zenon DEF Turn
<1>1. /\ pc \in [Threads -> Labels] /\ held \in [Threads -> SUBSET Nat]
      /\ next_ticket \in Nat /\ next_publish \in Nat /\ barrier \in Nat
      /\ next_publish <= next_ticket
      /\ \A n \in held[u] : n \in Nat /\ next_publish <= n /\ n < next_ticket
  <2>1. /\ pc \in [Threads -> Labels] /\ held \in [Threads -> SUBSET Nat]
        /\ next_ticket \in Nat /\ next_publish \in Nat /\ barrier \in 0..next_ticket
        /\ next_publish <= next_ticket
    BY Types, Zenon DEF ThreadTypeOK, TicketTypeOK, DeleteOrder, TicketNumbers
  <2>2. \A n \in held[u] : n \in Nat /\ next_publish <= n /\ n < next_ticket
    BY <2>1, Zenon DEF Publishers, HeldOnce
  <2>3. barrier \in Nat
    BY <2>1
  <2> QED BY <2>1, <2>2, <2>3, Zenon
<1>2. CASE u = t /\ TakeCut(t)
  <2>1. /\ pc' = [pc EXCEPT ![t] = "publish"] /\ UNCHANGED <<job, next_publish>>
        /\ held' = [held EXCEPT ![t] = held[t] \union {next_ticket}]
        /\ barrier' = IF job[t] = "commit" THEN next_ticket + 1 ELSE barrier
    BY <1>2, Zenon DEF TakeCut, DeletesTicket, Goto, Barrier
  <2>2. pc'[t] = "publish" /\ held'[t] = held[t] \union {next_ticket} /\ barrier' = next_ticket + 1
    BY <1>1, <1>2, <2>1, Zenon DEF Cutting
  <2>3. barrier' - 1 = next_ticket /\ barrier' # 0 /\ next_publish' <= barrier'
    BY <1>1, <2>1, <2>2
  <2>4. \A n \in held'[t] : n < barrier'
    BY <1>1, <1>2, <2>2
  <2> QED BY <1>2, <2>2, <2>3, <2>4, Zenon DEF TurnOf
<1>3. CASE /\ Cutting(u) /\ UNCHANGED barrier /\ u # t /\ pc'[u] = pc[u] /\ held'[u] = held[u]
  <2>1. TurnOf(u)
    BY <1>3, Zenon DEF Turn
  <2>2. CASE UNCHANGED next_publish
    BY <1>3, <2>1, <2>2, Zenon DEF TurnOf
  <2>3. ASSUME NEW k \in tickets, Publishes(t, k) PROVE TurnOf(u)'
    <3>1. next_publish' = next_publish + 1 /\ next_publish < barrier
      BY <2>1, <2>3, Zenon DEF Publishes, Publish, PublishApplyFails, Abandon, Retire, MayPublish, TurnOf
    <3>2. next_publish' <= barrier /\ next_publish # barrier
      BY <1>1, <3>1
    <3> QED BY <1>3, <2>1, <3>2, Zenon DEF TurnOf
  <2>4. UNCHANGED next_publish \/ \E k \in tickets : Publishes(t, k)
    BY PublishingStep, Zenon
  <2> QED BY <2>2, <2>3, <2>4, Zenon
<1>4. ASSUME u = t, Cutting(t), UNCHANGED barrier, NEW k \in tickets, Publishes(t, k)
      PROVE  TurnOf(t)'
  <2>1. PICK error \in BOOLEAN : pc[t] = "publish" /\ k.no \in held[t] /\ Retire(t, k, error)
    BY <1>4, PublishRetires, Zenon
  <2>2. /\ job[t] = "commit" /\ ret[t] = "commit"
        /\ next_publish = k.no /\ next_publish < barrier /\ next_publish' = next_publish + 1
    BY <1>4, <2>1, Zenon DEF FullFlushLock, FlushState, Cutting, Turn, TurnOf, Publishes, Publish,
       PublishApplyFails, Abandon, Retire, MayPublish
  <2>3. barrier - 1 \in held[t] /\ \A n \in held[t] : n < barrier
    BY <1>4, <2>1, Zenon DEF Turn, TurnOf
  <2>4. barrier' # 0 /\ next_publish' <= barrier'
    BY <1>1, <1>4, <2>2
  <2>5. CASE held[t] \ {k.no} = {}
    <3>1. pc' = [pc EXCEPT ![t] = "commit"]
      BY <2>1, <2>2, <2>5, Zenon DEF Retire, StopsAt, Goto
    <3>2. pc'[t] = "commit" /\ barrier - 1 = k.no
      BY <1>1, <2>3, <2>5, <3>1, Zenon
    <3>3. next_publish' = barrier'
      BY <1>1, <1>4, <2>2, <3>2
    <3> QED BY <2>4, <3>2, <3>3, Zenon DEF TurnOf
  <2>6. CASE held[t] \ {k.no} # {}
    <3>1. /\ pc' = [pc EXCEPT ![t] = "publish"]
          /\ held' = [held EXCEPT ![t] = held[t] \ {k.no}]
      BY <2>1, <2>2, <2>6, Zenon DEF Retire, StopsAt, Goto
    <3>2. pc'[t] = "publish" /\ held'[t] = held[t] \ {k.no}
      BY <1>1, <3>1, Zenon
    <3>3. PICK n \in held[t] : n # k.no
      BY <2>6, Zenon
    <3>4. barrier - 1 # k.no
      BY <1>1, <1>4, <2>2, <2>3, <3>3
    <3>5. barrier' - 1 \in held'[t] /\ \A m \in held'[t] : m < barrier'
      BY <1>4, <2>3, <3>2, <3>4, Zenon
    <3> QED BY <2>4, <3>2, <3>5, Zenon DEF TurnOf
  <2> QED BY <2>5, <2>6, Zenon
<1> QED BY <1>2, <1>3, <1>4, CuttingStep, Zenon

----------------------------------------------------------------------------
(* What a step does to documents and deletes *)

slotData == <<docs, private, slice>>

\* Nothing.
Quiet == SameWindows /\ UNCHANGED <<logVars, slotData, tickets, coreVars, historyVars>>

\* A buffer is taken with a ticket.
Flushes ==
    /\ SameWindows /\ UNCHANGED <<coreVars, historyVars>>
    /\ \E i \in Slots, p \in 0..Partitions, m \in SUBSET Slots : InWindow(i) = {} /\ BeginFlush(i, p, m)

\* The deletes not handed over are taken with a ticket.
Freezes == SameWindows /\ DeletesTicket /\ UNCHANGED <<slotData, coreVars, historyVars>>

\* A delete is buffered.
Deletes ==
    /\ SameWindows /\ LogOperation(TRUE) /\ dels' = dels \union {next_seq}
    /\ UNCHANGED <<slices, slotData, tickets, coreVars, adds, missed>>

\* A block of documents is buffered, in a slot nobody else has.
Adds(t) ==
    \E i \in Slots, p \in 0..Partitions, c \in 1..MaxBlock, d \in BOOLEAN :
      /\ pc[t] # "apply" /\ owner[i] \in {None, t} /\ InWindow(i) = {}
      /\ Buffer(t, i, p, c, d)

\* The steps that take a buffer.
LEMMA FlushKinds ==
  ASSUME DeleteOrder, NEW t \in Threads,
         \/ PreUpdate(t) \/ PostUpdate(t) \/ SlotFull(t) \/ TicketNext(t)
         \/ \E i \in Slots : FlushNextBuffer(t, i) \/ \E p \in 1..Partitions : Evict(t, i, p)
  PROVE  Quiet \/ Flushes
<1>1. /\ pending \in SUBSET Slots /\ 0 \in 0..Partitions /\ \A p \in 1..Partitions : p \in 0..Partitions
  BY Types DEF SlotTypeOK
<1>2. pc \in [Threads -> Labels] /\ at \in [Threads -> 0..NumSlots] /\ read \in [Threads -> LogRead]
  BY Types, Zenon DEF ThreadTypeOK
<1>3. CASE PreUpdate(t) \/ PostUpdate(t)
  <2>1. PICK i \in pending : owner[i] = None /\ BeginFlush(i, 0, pending)
    BY <1>3, Zenon DEF PreUpdate, PostUpdate, TakePending
  <2>2. /\ pc[t] # "apply" /\ pc' = [pc EXCEPT ![t] = "publish"] /\ UNCHANGED <<at, read>>
        /\ UNCHANGED <<coreVars, historyVars>>
    BY <1>3, Zenon DEF PreUpdate, PostUpdate, TakePending, Goto
  <2>3. SameWindows /\ InWindow(i) = {}
    BY <1>1, <2>1, <2>2, Moves, FreeSlot, Zenon
  <2> QED BY <1>1, <2>1, <2>2, <2>3, Zenon DEF Flushes
<1>4. ASSUME NEW i \in Slots, FlushNextBuffer(t, i) PROVE Flushes
  <2>1. /\ owner[i] = None /\ BeginFlush(i, 0, pending)
        /\ pc[t] # "apply" /\ pc' = [pc EXCEPT ![t] = "publish"] /\ UNCHANGED <<at, read>>
        /\ UNCHANGED <<coreVars, historyVars>>
    BY <1>4, Zenon DEF FlushNextBuffer, Calls, Goto
  <2>2. SameWindows /\ InWindow(i) = {}
    BY <2>1, Moves, FreeSlot, Zenon
  <2> QED BY <1>1, <2>1, <2>2, Zenon DEF Flushes
<1>5. ASSUME NEW i \in Slots, NEW p \in 1..Partitions, Evict(t, i, p) PROVE Flushes
  <2>1. /\ owner[i] = None /\ BeginFlush(i, p, pending)
        /\ pc[t] # "apply" /\ pc' = [pc EXCEPT ![t] = "log"]
        /\ at' = [at EXCEPT ![t] = i] /\ UNCHANGED read /\ UNCHANGED <<coreVars, historyVars>>
    BY <1>5, Zenon DEF Evict, CallsAdd, Calls, Goto
  <2>2. SameWindows /\ InWindow(i) = {}
    BY <1>2, <2>1, Moves, FreeSlot, Zenon
  <2> QED BY <1>1, <2>1, <2>2, Zenon DEF Flushes
<1>6. CASE SlotFull(t)
  <2>1. PICK m \in SUBSET Slots : BeginFlush(at[t], 0, m)
    BY <1>6, Zenon DEF SlotFull
  <2>2. /\ pc[t] = "full" /\ pc' = [pc EXCEPT ![t] = "publish"]
        /\ at' = [at EXCEPT ![t] = 0] /\ read' = [read EXCEPT ![t] = NoRead]
        /\ UNCHANGED <<coreVars, historyVars>>
    BY <1>6, Zenon DEF SlotFull, ReleaseSlot, Goto
  <2>3. at[t] \in Slots /\ owner[at[t]] = t
    BY <2>2, Types, Zenon DEF SlotsOwned
  <2>4. SameWindows /\ InWindow(at[t]) = {}
    BY <1>2, <2>2, <2>3, Moves, FreeSlot, Zenon
  <2> QED BY <1>1, <2>1, <2>2, <2>3, <2>4, Zenon DEF Flushes
<1>7. CASE TicketNext(t)
  <2>1. /\ pc[t] = "ticket" /\ at' = [at EXCEPT ![t] = at[t] + 1] /\ UNCHANGED <<pc, read>>
        /\ UNCHANGED <<coreVars, historyVars>>
    BY <1>7, Zenon DEF TicketNext
  <2>2. SameWindows /\ \A i \in Slots : InWindow(i) = {}
    BY <1>2, <2>1, NoWindows, Zenon DEF SameWindows, InWindow
  <2>3. at[t] + 1 \in Slots
    <3>1. at[t] + 1 <= NumSlots
      BY <1>7, Zenon DEF TicketNext
    <3>2. at[t] \in 0..NumSlots
      BY Types, Zenon DEF ThreadTypeOK
    <3> QED BY <3>1, <3>2 DEF Slots
  <2>4. CASE BeginFlush(at[t] + 1, 0, pending)
    BY <1>1, <2>1, <2>2, <2>3, <2>4, Zenon DEF Flushes
  <2>5. CASE UNCHANGED <<logVars, docs, private, slice, partition, ticketVars, pending, held>>
    BY <2>1, <2>2, <2>5, Zenon DEF Quiet, slotData, ticketVars
  <2> QED BY <1>7, <2>4, <2>5, Zenon DEF TicketNext
<1> QED BY <1>3, <1>4, <1>5, <1>6, <1>7, Zenon

\* The steps that touch no document and no delete.
LEMMA QuietKinds ==
  ASSUME DeleteOrder, NEW t \in Threads,
         \/ RefuseAdd(t) \/ SlotNotFull(t) \/ PostUpdateNone(t) \/ ApplyAllDeletesSkip(t)
         \/ LockNext(t) \/ EndFullFlush(t) \/ \E j \in FullFlushJobs : StartFullFlush(t, j)
  PROVE  Quiet
<1>1. pc \in [Threads -> Labels] /\ at \in [Threads -> 0..NumSlots] /\ read \in [Threads -> LogRead]
  BY Types, Zenon DEF ThreadTypeOK
<1>2. UNCHANGED <<logVars, slotData, tickets, coreVars, historyVars>>
  BY Zenon DEF RefuseAdd, SlotNotFull, ReleaseSlot, PostUpdateNone, ApplyAllDeletesSkip, LockNext,
     EndFullFlush, StartFullFlush, slotVars, ticketVars, slotData
<1>3. /\ pc[t] # "apply"
      /\ \E l \in Labels \ {"apply"} : pc' = [pc EXCEPT ![t] = l]
  <2>1. CASE RefuseAdd(t) \/ SlotNotFull(t)
    BY <2>1, Zenon DEF RefuseAdd, SlotNotFull, AfterAdd, Goto, Labels
  <2>2. CASE PostUpdateNone(t) \/ ApplyAllDeletesSkip(t) \/ EndFullFlush(t)
             \/ \E j \in FullFlushJobs : StartFullFlush(t, j)
    BY <2>2, Zenon DEF PostUpdateNone, ApplyAllDeletesSkip, EndFullFlush, StartFullFlush, Calls, Goto, Labels
  <2>3. CASE LockNext(t)
    <3>1. pc[t] = "lock" /\ (pc' = pc \/ \E l \in {"ticket", "abort"} : pc' = [pc EXCEPT ![t] = l])
      BY <2>3, Zenon DEF LockNext, Goto
    <3>2. pc = [pc EXCEPT ![t] = "lock"]
      BY <1>1, <3>1, Zenon
    <3> QED BY <3>1, <3>2, Zenon DEF Labels
  <2> QED BY <2>1, <2>2, <2>3, Zenon
<1>4. \A u \in Threads \ {t} : at'[u] = at[u] /\ read'[u] = read[u]
  BY <1>1, Zenon DEF RefuseAdd, SlotNotFull, ReleaseSlot, PostUpdateNone, ApplyAllDeletesSkip,
     LockNext, EndFullFlush, StartFullFlush
<1>5. SameWindows
  BY <1>3, <1>4, Moves, Zenon
<1> QED BY <1>2, <1>5, Zenon DEF Quiet

\* Every step does one of these things, or publishes, commits or drops.
LEMMA StepKinds ==
  ASSUME DeleteOrder, NEW t \in Threads, Step(t) \/ Call(t)
  PROVE  \/ Quiet \/ Flushes \/ Freezes \/ Deletes \/ Adds(t) \/ ApplySlice(t)
         \/ Commit(t) \/ AbortSlots(t) \/ Drain(t) \/ \E k \in tickets : Publishes(t, k)
<1>1. CASE ApplyAllDeletes(t) \/ TakeCut(t)
  <2>1. /\ DeletesTicket /\ UNCHANGED <<slotData, coreVars, historyVars>>
        /\ pc[t] # "apply" /\ pc' = [pc EXCEPT ![t] = "publish"] /\ UNCHANGED read
        /\ \A u \in Threads \ {t} : at'[u] = at[u]
    BY <1>1, Types, Zenon DEF ApplyAllDeletes, TakeCut, slotVars, slotData, Goto, ThreadTypeOK
  <2>2. SameWindows
    BY <2>1, Moves, Zenon
  <2> QED BY <2>1, <2>2, Zenon DEF Freezes
<1>2. ASSUME NEW c \in 1..MaxBlock, NEW d \in BOOLEAN, AddAfterEviction(t, c, d) PROVE Adds(t)
  <2>1. pc[t] = "log" /\ Buffer(t, at[t], partition[at[t]], c, d)
    BY <1>2, Zenon DEF AddAfterEviction
  <2>2. at[t] \in Slots /\ owner[at[t]] = t
    BY <2>1, Types, Zenon DEF SlotsOwned
  <2>3. partition[at[t]] \in 0..Partitions
    BY <2>2, Types, Zenon DEF SlotTypeOK
  <2>4. InWindow(at[t]) = {}
    BY <2>1, <2>2, FreeSlot, Zenon
  <2> QED BY <2>1, <2>2, <2>3, <2>4, Zenon DEF Adds
<1>3. ASSUME NEW i \in Slots, NEW p \in 1..Partitions, NEW c \in 1..MaxBlock,
             NEW d \in BOOLEAN, AddDocuments(t, i, p, c, d)
      PROVE  Adds(t)
  <2>1. pc[t] # "apply" /\ owner[i] = None /\ Buffer(t, i, p, c, d)
    BY <1>3, Zenon DEF AddDocuments, CallsAdd, Calls
  <2>2. p \in 0..Partitions
    OBVIOUS
  <2>3. InWindow(i) = {}
    BY <2>1, FreeSlot, Zenon
  <2> QED BY <2>1, <2>2, <2>3, Zenon DEF Adds
<1>4. CASE BufferDelete(t)
  <2>1. /\ LogOperation(TRUE) /\ dels' = dels \union {next_seq}
        /\ UNCHANGED <<slices, slotData, tickets, coreVars, adds, missed>>
        /\ UNCHANGED <<at, read>> /\ pc[t] # "apply"
        /\ \E l \in {"deletes", "idle"} : pc' = [pc EXCEPT ![t] = l]
    BY <1>4, Zenon DEF BufferDelete, Calls, AfterFlush, slotVars, slotData, ticketVars, Goto
  <2>2. SameWindows
    BY <2>1, Moves, Zenon
  <2> QED BY <2>1, <2>2, Zenon DEF Deletes
<1>5. CASE \/ PreUpdate(t) \/ PostUpdate(t) \/ SlotFull(t) \/ TicketNext(t)
           \/ \E i \in Slots : FlushNextBuffer(t, i) \/ \E p \in 1..Partitions : Evict(t, i, p)
  BY <1>5, FlushKinds, Zenon
<1>6. CASE \/ RefuseAdd(t) \/ SlotNotFull(t) \/ PostUpdateNone(t) \/ ApplyAllDeletesSkip(t)
           \/ LockNext(t) \/ EndFullFlush(t) \/ \E j \in FullFlushJobs : StartFullFlush(t, j)
  BY <1>6, QuietKinds, Zenon
<1> QED BY <1>1, <1>2, <1>3, <1>4, <1>5, <1>6, Zenon DEF Step, Call, Publishes

----------------------------------------------------------------------------
(* The cut of a full flush *)

\* A step of t moves no other thread, and only locking or ticketing slots
\* leaves t ticketing.
LEMMA TicketingStep ==
  ASSUME DeleteOrder, FullFlushLock, NEW t \in Threads, Step(t) \/ Call(t), NEW u \in Threads,
         pc'[u] = "ticket"
  PROVE  \/ u = t /\ LockNext(t) /\ at'[t] = 0
         \/ u = t /\ TicketNext(t)
         \/ u # t /\ pc[u] = "ticket" /\ at'[u] = at[u]
<1>1. /\ pc \in [Threads -> Labels] /\ at \in [Threads -> 0..NumSlots] /\ ret \in [Threads -> Returns]
  BY Types, Zenon DEF ThreadTypeOK
<1>2. ASSUME NEW l, l # "ticket", pc' = [pc EXCEPT ![t] = l]
      PROVE  u # t /\ pc[u] = "ticket"
  BY <1>1, <1>2, Zenon
<1>3. ASSUME NEW a, at' = [at EXCEPT ![t] = a] PROVE u # t => at'[u] = at[u]
  BY <1>1, <1>3, Zenon
<1>4. CASE \/ RefuseAdd(t) \/ ApplySlice(t) \/ SlotFull(t) \/ SlotNotFull(t)
           \/ PostUpdate(t) \/ PostUpdateNone(t) \/ ApplyAllDeletesSkip(t)
           \/ PreUpdate(t) \/ BufferDelete(t)
           \/ \E i \in Slots : FlushNextBuffer(t, i) \/ \E p : Evict(t, i, p)
           \/ \E i, p, c, d : AddDocuments(t, i, p, c, d)
           \/ \E c, d : AddAfterEviction(t, c, d)
  <2>1. \E l : l \notin FullFlushing \ {"publish"} /\ pc' = [pc EXCEPT ![t] = l]
    BY <1>4, LockQuiet, Zenon
  <2>2. u # t /\ pc[u] = "ticket"
    BY <1>2, <2>1, Zenon DEF FullFlushing
  <2>3. UNCHANGED at \/ \E a : at' = [at EXCEPT ![t] = a]
    BY <1>4, Zenon DEF RefuseAdd, ApplySlice, SlotFull, SlotNotFull, ReleaseSlot, PostUpdate,
       PostUpdateNone, ApplyAllDeletesSkip, PreUpdate, TakePending, BufferDelete, FlushNextBuffer, Evict,
       AddDocuments, AddAfterEviction, Buffer
  <2> QED BY <1>3, <2>2, <2>3, Zenon
<1>5. CASE \/ ApplyAllDeletes(t) \/ TakeCut(t) \/ Commit(t) \/ EndFullFlush(t)
           \/ AbortSlots(t) \/ Drain(t) \/ \E j \in FullFlushJobs : StartFullFlush(t, j)
  <2>1. /\ \E l \in {"publish", "unlock", "idle", "drain", "lock"} : pc' = [pc EXCEPT ![t] = l]
        /\ UNCHANGED at \/ \E a : at' = [at EXCEPT ![t] = a]
    BY <1>5, Zenon DEF ApplyAllDeletes, TakeCut, Commit, EndFullFlush, AbortSlots, Drain, StartFullFlush, Goto
  <2> QED BY <1>2, <1>3, <2>1, Zenon
<1>6. ASSUME NEW k \in tickets, Publishes(t, k)
      PROVE  u # t /\ pc[u] = "ticket" /\ at'[u] = at[u]
  <2>1. /\ \E l \in Returns \union {"publish"} : pc' = [pc EXCEPT ![t] = l]
        /\ UNCHANGED at
    BY <1>1, <1>6, PublishControl, LabelFacts, Zenon DEF Publishes, Retire, Goto
  <2> QED BY <1>2, <2>1, Zenon DEF Returns
<1>7. CASE LockNext(t)
  <2>1. /\ pc[t] = "lock"
        /\ \/ UNCHANGED pc /\ at' = [at EXCEPT ![t] = at[t] + 1]
           \/ at' = [at EXCEPT ![t] = 0] /\ \E l : pc' = [pc EXCEPT ![t] = l]
    BY <1>7, Zenon DEF LockNext, Goto
  <2>2. CASE u = t
    BY <1>1, <1>7, <2>1, <2>2, Zenon
  <2>3. CASE u # t
    BY <1>1, <1>3, <2>1, <2>3, Zenon
  <2> QED BY <2>2, <2>3, Zenon
<1>8. CASE TicketNext(t)
  <2>1. UNCHANGED pc /\ at' = [at EXCEPT ![t] = at[t] + 1]
    BY <1>8, Zenon DEF TicketNext
  <2> QED BY <1>3, <1>8, <2>1, Zenon
<1> QED BY <1>4, <1>5, <1>6, <1>7, <1>8, Zenon DEF Step, Call, Publishes

\* A slot that is empty fills only by an add, in a slot free or the adder's own.
LEMMA EmptyStays ==
  ASSUME DeleteOrder, NEW t \in Threads, Step(t) \/ Call(t), NEW i \in Slots, docs[i] = <<>>
  PROVE  docs'[i] = <<>> \/ owner[i] \in {None, t}
<1>1. docs \in [Slots -> Seq(Nat)]
  BY Types, Zenon DEF SlotTypeOK
<1>2. CASE \/ Quiet \/ Freezes \/ Deletes \/ ApplySlice(t) \/ Commit(t) \/ Drain(t)
           \/ \E k \in tickets : Publishes(t, k)
  <2>1. UNCHANGED docs
    BY <1>2, PublishControl, Zenon DEF Quiet, Freezes, Deletes, slotData, ApplySlice, Commit, Drain,
       Publishes, Retire, slotVars
  <2> QED BY <2>1, Zenon
<1>3. CASE Flushes
  BY <1>1, <1>3, Zenon DEF Flushes, BeginFlush
<1>4. CASE AbortSlots(t)
  BY <1>4, Zenon DEF AbortSlots
<1>5. CASE Adds(t)
  BY <1>1, <1>5, Zenon DEF Adds, Buffer
<1> QED BY <1>2, <1>3, <1>4, <1>5, StepKinds, Zenon

\* A full flush leaves the slots it has passed empty: it has their locks.
LEMMA SlotsTicketedStep ==
  ASSUME DeleteOrder, FullFlushLock, SlotsTicketed, NEW t \in Threads, Step(t) \/ Call(t)
  PROVE  SlotsTicketed'
<1> SUFFICES ASSUME NEW u \in Threads, pc'[u] = "ticket", NEW i \in 1..at'[u] PROVE docs'[i] = <<>>
  BY Zenon DEF SlotsTicketed
<1>1. CASE u = t /\ at'[t] = 0
  BY <1>1
<1>2. CASE u = t /\ TicketNext(t)
  <2>1. pc[t] = "ticket" /\ at' = [at EXCEPT ![t] = at[t] + 1] /\ at[t] + 1 <= NumSlots
    BY <1>2, Zenon DEF TicketNext
  <2>2. at \in [Threads -> 0..NumSlots] /\ docs \in [Slots -> Seq(Nat)]
    BY Types, Zenon DEF ThreadTypeOK, SlotTypeOK
  <2>3. at'[t] = at[t] + 1 /\ at[t] \in 0..NumSlots
    BY <2>1, <2>2, Zenon
  <2>4. i \in Slots /\ (i = at[t] + 1 \/ i \in 1..at[t])
    BY <1>2, <2>1, <2>3 DEF Slots
  <2>5. i \in 1..at[t] => docs[i] = <<>>
    BY <2>1, Zenon DEF SlotsTicketed
  <2>6. docs' = [docs EXCEPT ![at[t] + 1] = <<>>] \/ (docs' = docs /\ docs[at[t] + 1] = <<>>)
    BY <1>2, Zenon DEF TicketNext, BeginFlush
  <2> QED BY <2>2, <2>4, <2>5, <2>6, Zenon
<1>3. CASE u # t /\ pc[u] = "ticket" /\ at'[u] = at[u]
  <2>1. at[u] \in 0..NumSlots
    BY Types, Zenon DEF ThreadTypeOK
  <2>2. i \in Slots /\ i \in 1..at[u]
    BY <1>3, <2>1 DEF Slots
  <2>3. docs[i] = <<>> /\ owner[i] = u /\ u # None
    BY <1>3, <2>2, Types, Zenon DEF SlotsTicketed, SlotsOwned, WriterAssumption
  <2> QED BY <1>3, <2>2, <2>3, EmptyStays, Zenon
<1> QED BY <1>1, <1>2, <1>3, TicketingStep, Zenon

----------------------------------------------------------------------------
(* Positions in the log *)

\* No position is beyond the log's end, and an occupied slot outside a window
\* advertises no position it has not reached: what is trimmed, it has seen.
LogBounds ==
    /\ base <= End
    /\ \A i \in Slots : slice[i] <= End
    /\ \A i \in Slots : docs[i] # <<>> /\ InWindow(i) = {} => slices[i] <= slice[i]
    /\ \A t \in Threads : pc[t] = "apply" => read[t].end <= End

\* The types of the positions.
LEMMA PositionTypes ==
  ASSUME DeleteOrder
  PROVE  /\ base \in Nat /\ End \in Nat /\ handed \in Nat /\ handed <= End
         /\ \A i \in Slots : slice[i] \in Nat /\ slices[i] \in Nat
         /\ slices \in [Slots -> Nat] /\ slice \in [Slots -> Nat] /\ docs \in [Slots -> Seq(Nat)]
         /\ \A t \in Threads : read[t].end \in Nat /\ read[t].nodes \in SUBSET Nat /\ read[t].before \in Nat
         /\ pc \in [Threads -> Labels] /\ at \in [Threads -> 0..NumSlots] /\ read \in [Threads -> LogRead]
<1>1. /\ base \in Nat /\ log \in Seq(Nat) /\ handed \in Nat /\ handed <= Len(log)
      /\ slices \in [Slots -> Nat] /\ slice \in [Slots -> Nat] /\ docs \in [Slots -> Seq(Nat)]
  BY Types, Zenon DEF LogTypeOK, SlotTypeOK, DeleteOrder, SlotOrder
<1>2. pc \in [Threads -> Labels] /\ at \in [Threads -> 0..NumSlots] /\ read \in [Threads -> LogRead]
  BY Types, Zenon DEF ThreadTypeOK
<1>3. End \in Nat
  BY <1>1 DEF End
<1>4. \A t \in Threads : read[t].end \in Nat /\ read[t].nodes \in SUBSET Nat /\ read[t].before \in Nat
  BY <1>2, Zenon DEF LogRead
<1> QED BY <1>1, <1>2, <1>3, <1>4, Zenon DEF End

\* What a trim drops, every slot's advertised position and the control plane
\* are past.
LEMMA TrimBound ==
  ASSUME DeleteOrder, base <= End, Trim
  PROVE  /\ base' \in Nat /\ base <= base' /\ base' <= End
         /\ base' = base \/ base' <= handed
         /\ \A i \in Slots : base' = base \/ base' <= slices[i]
<1>0. /\ base \in Nat /\ End \in Nat /\ handed \in Nat /\ handed <= End
      /\ \A i \in Slots : slices[i] \in Nat
  BY PositionTypes, Zenon
<1>1. PICK applied \in Applied : /\ \A p \in Applied : applied <= p
                                 /\ base' = IF applied > base THEN applied ELSE base
  BY Zenon DEF Trim
<1>2. applied \in Nat /\ applied <= handed /\ \A i \in Slots : applied <= slices[i]
  BY <1>0, <1>1, Zenon DEF Applied
<1> QED BY <1>0, <1>1, <1>2

\* Publishing and committing touch neither the log nor the slots.
LEMMA ViewSteps ==
  ASSUME DeleteOrder, NEW t \in Threads, Commit(t) \/ \E k \in tickets : Publishes(t, k)
  PROVE  SameWindows /\ UNCHANGED <<logVars, slotData, dels, missed>>
<1>1. CASE Commit(t)
  <2>1. /\ UNCHANGED <<logVars, slotData, dels, missed>> /\ UNCHANGED <<at, read>>
        /\ pc[t] = "commit" /\ pc' = [pc EXCEPT ![t] = "unlock"]
    BY <1>1, Zenon DEF Commit, slotVars, slotData, historyVars, Goto
  <2>2. SameWindows
    BY <2>1, Moves, Zenon
  <2> QED BY <2>1, <2>2, Zenon
<1>2. ASSUME NEW k \in tickets, Publishes(t, k)
      PROVE  SameWindows /\ UNCHANGED <<logVars, slotData, dels, missed>>
  <2>1. PICK error \in BOOLEAN : pc[t] = "publish" /\ Retire(t, k, error)
    BY <1>2, PublishRetires, Zenon
  <2>2. /\ UNCHANGED <<logVars, slotData, dels, missed>> /\ UNCHANGED <<at, read>>
        /\ \E l \in Returns \union {"publish"} : pc' = [pc EXCEPT ![t] = l]
    BY <2>1, Types, LabelFacts, Zenon DEF Retire, Goto, slotVars, slotData, ThreadTypeOK
  <2>3. SameWindows
    BY <2>1, <2>2, Moves, Zenon DEF Returns
  <2> QED BY <2>2, <2>3, Zenon
<1> QED BY <1>1, <1>2, Zenon

\* The windows after an add: the adder's own slot has one, the others keep theirs.
LEMMA AddWindows ==
  ASSUME DeleteOrder, NEW t \in Threads, NEW i \in Slots, NEW p, NEW c, NEW d,
         pc[t] # "apply", InWindow(i) = {}, Buffer(t, i, p, c, d)
  PROVE  /\ InWindow(i)' = {t}
         /\ \A j \in Slots \ {i} : InWindow(j)' = InWindow(j)
         /\ \A j \in Slots \ {i} : docs'[j] = docs[j]
         /\ \A u \in Threads \ {t} : pc'[u] = pc[u] /\ at'[u] = at[u] /\ read'[u] = read[u]
<1>1. /\ pc \in [Threads -> Labels] /\ at \in [Threads -> 0..NumSlots] /\ read \in [Threads -> LogRead]
      /\ docs \in [Slots -> Seq(Nat)]
  BY PositionTypes, Zenon
<1>2. /\ pc' = [pc EXCEPT ![t] = "apply"] /\ at' = [at EXCEPT ![t] = i]
      /\ \A j \in Slots \ {i} : docs'[j] = docs[j]
      /\ \A u \in Threads \ {t} : read'[u] = read[u]
  BY <1>1, Zenon DEF Buffer, Goto
<1>3. /\ \A u \in Threads \ {t} : pc'[u] = pc[u] /\ at'[u] = at[u]
      /\ pc'[t] = "apply" /\ at'[t] = i
  BY <1>1, <1>2, Zenon
<1>4. InWindow(i)' = {t}
  BY <1>3, Zenon DEF InWindow
<1>5. ASSUME NEW j \in Slots \ {i} PROVE InWindow(j)' = InWindow(j)
  BY <1>3, Zenon DEF InWindow
<1> QED BY <1>2, <1>3, <1>4, <1>5, Zenon

\* The windows after apply_slice: the slot's is closed, the others stay.
LEMMA ApplyWindows ==
  ASSUME DeleteOrder, NEW t \in Threads, ApplySlice(t)
  PROVE  /\ at[t] \in Slots /\ InWindow(at[t]) = {t} /\ InWindow(at[t])' = {}
         /\ \A j \in Slots \ {at[t]} : InWindow(j)' = InWindow(j)
         /\ UNCHANGED <<at, read>> /\ \A u \in Threads \ {t} : pc'[u] = pc[u]
         /\ \A u \in Threads : pc'[u] = "apply" => pc[u] = "apply"
<1>1. pc \in [Threads -> Labels]
  BY PositionTypes, Zenon
<1>2. pc[t] = "apply" /\ pc' = [pc EXCEPT ![t] = "full"] /\ UNCHANGED <<at, read>>
  BY Zenon DEF ApplySlice, Goto
<1>3. pc'[t] = "full" /\ \A u \in Threads \ {t} : pc'[u] = pc[u]
  BY <1>1, <1>2, Zenon
<1>4. /\ at[t] \in Slots /\ owner[at[t]] = t
      /\ \A u \in Threads : pc[u] = "apply" => owner[at[u]] = u
  BY <1>2, Types, Zenon DEF SlotsOwned
<1>5. InWindow(at[t]) = {t}
  BY <1>2, <1>4, Zenon DEF InWindow
<1>6. InWindow(at[t])' = {}
  BY <1>2, <1>3, <1>4, Zenon DEF InWindow
<1>7. ASSUME NEW j \in Slots \ {at[t]} PROVE InWindow(j)' = InWindow(j)
  BY <1>2, <1>3, Zenon DEF InWindow
<1> QED BY <1>2, <1>3, <1>4, <1>5, <1>6, <1>7, Zenon

\* Positions stay in bounds: a flush moves its slot to the log's end, an add's
\* window has the end it read, and a slot advertises only what it has applied.
LEMMA BoundsStep ==
  ASSUME DeleteOrder, LogBounds, NEW t \in Threads, Step(t) \/ Call(t)
  PROVE  LogBounds'
<1>0. /\ base \in Nat /\ End \in Nat /\ base <= End
      /\ \A i \in Slots : slice[i] \in Nat /\ slice[i] <= End
      /\ \A u \in Threads : pc[u] = "apply" => read[u].end \in Nat /\ read[u].end <= End
      /\ \A i \in Slots : docs[i] # <<>> /\ InWindow(i) = {} => slices[i] <= slice[i]
      /\ slices \in [Slots -> Nat] /\ slice \in [Slots -> Nat] /\ docs \in [Slots -> Seq(Nat)]
  BY PositionTypes, Zenon DEF LogBounds
<1>1. CASE Quiet \/ Commit(t) \/ \E k \in tickets : Publishes(t, k)
  <2>1. SameWindows /\ UNCHANGED <<logVars, slotData>>
    BY <1>1, ViewSteps, Zenon DEF Quiet
  <2> QED BY <1>0, <2>1, SameInWindow, Zenon DEF LogBounds, SameWindows, logVars, slotData, End
<1>2. CASE Freezes
  <2>1. SameWindows /\ UNCHANGED <<log, base, slices, docs, slice>>
    BY <1>2, Zenon DEF Freezes, DeletesTicket, slotData
  <2> QED BY <1>0, <2>1, SameInWindow, Zenon DEF LogBounds, SameWindows, End
<1>3. CASE Flushes
  <2>1. PICK i \in Slots, p \in 0..Partitions, m \in SUBSET Slots :
          SameWindows /\ InWindow(i) = {} /\ BeginFlush(i, p, m)
    BY <1>3, Zenon DEF Flushes
  <2>2. /\ UNCHANGED <<log, base>> /\ docs' = [docs EXCEPT ![i] = <<>>]
        /\ slice' = [slice EXCEPT ![i] = End] /\ slices' = [slices EXCEPT ![i] = EMPTY_SLOT]
        /\ End' = End
    BY <2>1, Zenon DEF BeginFlush, End
  <2>3. /\ docs'[i] = <<>> /\ slice'[i] = End
        /\ \A j \in Slots \ {i} : docs'[j] = docs[j] /\ slice'[j] = slice[j] /\ slices'[j] = slices[j]
    BY <1>0, <2>2, Zenon
  <2>4. End <= End
    BY <1>0
  <2>5. ASSUME NEW j \in Slots
        PROVE  /\ slice'[j] <= End'
               /\ docs'[j] # <<>> /\ InWindow(j)' = {} => slices'[j] <= slice'[j]
    BY <1>0, <2>1, <2>2, <2>3, <2>4, SameInWindow, Zenon
  <2> QED BY <1>0, <2>1, <2>2, <2>5, Zenon DEF LogBounds, SameWindows
<1>4. CASE Deletes
  <2>1. SameWindows /\ LogOperation(TRUE) /\ UNCHANGED <<slices, docs, slice>>
    BY <1>4, Zenon DEF Deletes, slotData
  <2>2. base' \in Nat /\ base' <= End
    BY <1>0, <2>1, TrimBound, Zenon DEF LogOperation
  <2>3. End' = End + 1
    BY <2>1, OrderTypes DEF LogOperation, End
  <2>4. /\ base' <= End' /\ \A i \in Slots : slice[i] <= End'
        /\ \A u \in Threads : pc[u] = "apply" => read[u].end <= End'
    BY <1>0, <2>2, <2>3
  <2> QED BY <1>0, <2>1, <2>4, SameInWindow, Zenon DEF LogBounds, SameWindows
<1>5. CASE Adds(t)
  <2>1. PICK i \in Slots, p \in 0..Partitions, c \in 1..MaxBlock, d \in BOOLEAN :
          pc[t] # "apply" /\ InWindow(i) = {} /\ Buffer(t, i, p, c, d)
    BY <1>5, Zenon DEF Adds
  <2>2. LogOperation(d) /\ UNCHANGED <<slices, slice>> /\ read'[t].end = Len(log')
    <3>1. LogOperation(d) /\ UNCHANGED <<slices, slice>>
      BY <2>1, Zenon DEF Buffer
    <3>2. PICK b, n : read' = [read EXCEPT ![t] = [before |-> b, nodes |-> n, end |-> Len(log')]]
      BY <2>1, Zenon DEF Buffer
    <3>3. read \in [Threads -> LogRead]
      BY PositionTypes, Zenon
    <3> QED BY <3>1, <3>2, <3>3, Zenon
  <2>3. base' \in Nat /\ base' <= End
    BY <1>0, <2>2, TrimBound, Zenon DEF LogOperation
  <2>4. End' \in Nat /\ End <= End' /\ End' = Len(log')
    BY <2>2, LogOperationEffect DEF End
  <2>5. /\ base' <= End' /\ \A j \in Slots : slice[j] <= End'
        /\ \A u \in Threads : pc[u] = "apply" => read[u].end <= End'
        /\ End' <= End'
    BY <1>0, <2>3, <2>4
  <2>6. ASSUME NEW u \in Threads, pc'[u] = "apply" PROVE read'[u].end <= End'
    <3>1. CASE u = t
      BY <2>2, <2>4, <2>5, <3>1, Zenon
    <3>2. CASE u # t
      <4>1. \A v \in Threads \ {t} : pc'[v] = pc[v] /\ read'[v] = read[v]
        BY <2>1, AddWindows, Zenon
      <4>2. pc[u] = "apply" /\ read'[u] = read[u]
        BY <2>6, <3>2, <4>1, Zenon
      <4> QED BY <2>5, <4>2, Zenon
    <3> QED BY <3>1, <3>2, Zenon
  <2>7. ASSUME NEW j \in Slots, docs'[j] # <<>>, InWindow(j)' = {} PROVE slices'[j] <= slice'[j]
    <3>1. j # i
      BY <2>1, <2>7, AddWindows, Zenon
    <3>2. docs[j] # <<>> /\ InWindow(j) = {}
      BY <2>1, <2>7, <3>1, AddWindows, Zenon
    <3> QED BY <1>0, <2>2, <3>2, Zenon
  <2>8. \A j \in Slots : slice'[j] <= End'
    BY <2>2, <2>5, Zenon
  <2> QED BY <2>5, <2>6, <2>7, <2>8, Zenon DEF LogBounds
<1>6. CASE ApplySlice(t)
  <2> DEFINE i == at[t]
  <2>1. /\ slice' = [slice EXCEPT ![i] = read[t].end] /\ slices' = [slices EXCEPT ![i] = read[t].end]
        /\ UNCHANGED <<log, base, docs>> /\ pc[t] = "apply" /\ End' = End
    BY <1>6, Zenon DEF ApplySlice, End
  <2>2. i \in Slots
    BY <1>6, ApplyWindows, Zenon
  <2>3. /\ slice'[i] = read[t].end /\ slices'[i] = read[t].end
        /\ \A j \in Slots \ {i} : slice'[j] = slice[j] /\ slices'[j] = slices[j]
    BY <1>0, <2>1, <2>2, Zenon
  <2>4. read[t].end <= read[t].end /\ read[t].end <= End
    BY <1>0, <2>1
  <2>5. ASSUME NEW j \in Slots
        PROVE  /\ slice'[j] <= End'
               /\ docs'[j] # <<>> /\ InWindow(j)' = {} => slices'[j] <= slice'[j]
    <3>1. CASE j = i
      BY <2>1, <2>3, <2>4, <3>1, Zenon
    <3>2. CASE j # i
      <4>1. InWindow(j)' = InWindow(j)
        BY <1>6, <3>2, ApplyWindows, Zenon
      <4>2. slice'[j] = slice[j] /\ slices'[j] = slices[j]
        BY <2>3, <3>2, Zenon
      <4> QED BY <1>0, <2>1, <4>1, <4>2, Zenon
    <3> QED BY <3>1, <3>2, Zenon
  <2>6. \A u \in Threads : pc'[u] = "apply" => read'[u].end <= End'
    BY <1>0, <1>6, <2>1, ApplyWindows, Zenon
  <2>7. base' <= End'
    BY <1>0, <2>1, Zenon
  <2> QED BY <2>5, <2>6, <2>7, Zenon DEF LogBounds
<1>7. CASE AbortSlots(t)
  <2>1. /\ UNCHANGED <<log, base>> /\ End' = End
        /\ \A i \in Slots : docs'[i] = <<>> /\ slice'[i] = 0
        /\ pc[t] = "abort" /\ pc' = [pc EXCEPT ![t] = "drain"]
    BY <1>7, Zenon DEF AbortSlots, Goto, End
  <2>2. \A u \in Threads : pc'[u] # "apply"
    BY <2>1, NoWindows, PositionTypes, Zenon
  <2>3. 0 <= End
    BY <1>0
  <2> QED BY <1>0, <2>1, <2>2, <2>3, Zenon DEF LogBounds
<1>8. CASE Drain(t)
  <2>1. /\ UNCHANGED <<log, slices, docs, slice>> /\ base' = End /\ End' = End
        /\ pc[t] = "drain" /\ pc' = [pc EXCEPT ![t] = "idle"]
    BY <1>8, Zenon DEF Drain, ClearLog, Goto, End
  <2>2. (\A u \in Threads : pc'[u] # "apply") /\ \A u \in Threads : pc[u] # "apply"
    BY <2>1, NoWindows, PositionTypes, Zenon
  <2>3. End <= End
    BY <1>0
  <2>4. \A i \in Slots : InWindow(i) = {}
    BY <2>2, Zenon DEF InWindow
  <2> QED BY <1>0, <2>1, <2>2, <2>3, <2>4, Zenon DEF LogBounds
<1> QED BY <1>1, <1>2, <1>3, <1>4, <1>5, <1>6, <1>7, <1>8, StepKinds, Zenon

----------------------------------------------------------------------------
(* Numbers handed out *)

\* The documents and the deletes of a ticket are numbered at most L.
TicketUpTo(k, L) ==
    /\ \A d \in DocSet(k.docs) : d <= L
    /\ \A n \in k.packet : n <= L
    /\ \A e \in k.private : e[1] <= L

\* So are those of a set of segments.
SegmentsUpTo(S, L) ==
    \A s \in S : (\A d \in s.docs : d <= L) /\ \A pair \in s.dels : pair[1] <= L

PacketsUpTo(P, L) == \A q \in P : \A n \in q.nodes : n <= L

\* Every delete kept anywhere is numbered at most L.
NumberedBy(L) ==
    /\ \A n \in dels : n \in Nat /\ n <= L
    /\ \A i \in Slots : \A e \in private[i] : e[1] <= L
    /\ \A t \in Threads : pc[t] = "apply" => \A n \in read[t].nodes : n <= L
    /\ \A k \in tickets : TicketUpTo(k, L)
    /\ SegmentsUpTo(segs, L) /\ PacketsUpTo(stream, L)
    /\ SegmentsUpTo(commit.segs, L) /\ commit.seq <= L

Numbered == NumberedBy(LastSeq)

\* Segments with packets applied are numbered as they and the packets were.
LEMMA ApplyUpTo ==
  ASSUME NEW S \in SUBSET SegmentType, NEW P \in Packets, NEW L,
         ApplyAll(S, P) \/ ApplySome(S, P), SegmentsUpTo(S, L), PacketsUpTo(P, L)
  PROVE  SegmentsUpTo(segs', L) /\ PacketsUpTo(stream', L)
<1>1. PacketsUpTo(stream', L)
  BY Zenon DEF ApplyAll, ApplySome, PacketsUpTo
<1>2. \A r \in segs' : r \in S \/ \E s \in S : r = Resolved(s, P)
  BY Zenon DEF ApplyAll, ApplySome
<1>3. ASSUME NEW s \in S
      PROVE  /\ \A d \in Resolved(s, P).docs : d <= L
             /\ \A pair \in Resolved(s, P).dels : pair[1] <= L
  BY ResolvedType, Zenon DEF SegmentsUpTo, PacketsUpTo
<1>4. SegmentsUpTo(segs', L)
  BY <1>2, <1>3, Zenon DEF SegmentsUpTo
<1> QED BY <1>1, <1>4, Zenon

\* A ticket published brings only its own numbers into the view.
LEMMA PublishUpTo ==
  ASSUME DeleteOrder, NEW t \in Threads, NEW k \in tickets, Publishes(t, k), NEW L,
         SegmentsUpTo(segs, L), PacketsUpTo(stream, L), TicketUpTo(k, L)
  PROVE  SegmentsUpTo(segs', L) /\ PacketsUpTo(stream', L)
<1>1. /\ segs \in SUBSET SegmentType /\ View(k) \in SUBSET SegmentType
      /\ Pushed(k.packet) \in Packets
  BY OrderTypes, SegmentFields, PushedType, TicketFields, Types, Zenon
<1>2. PacketsUpTo(Pushed(k.packet), L)
  <2>1. ASSUME NEW q \in Pushed(k.packet) PROVE q \in stream \/ q.nodes = k.packet
    BY DEF Pushed
  <2> QED BY <2>1, Zenon DEF PacketsUpTo, TicketUpTo
<1>3. SegmentsUpTo(View(k), L)
  <2>1. \A s \in View(k) : s \in segs \/ s = Segment(k)
    BY Zenon DEF View
  <2>2. \A d \in Segment(k).docs : d <= L
    BY SegmentFields, Zenon DEF TicketUpTo
  <2>3. ASSUME NEW pair \in Segment(k).dels PROVE pair[1] <= L
    <3>1. Segment(k).dels = PrivatePairs(k.docs, k.private)
      BY Zenon DEF Segment
    <3>2. PICK e \in k.private : \E j \in 1..e[2] : pair = <<e[1], k.docs[j]>>
      BY <3>1, Zenon DEF PrivatePairs
    <3>3. pair[1] = e[1]
      BY <3>2
    <3> QED BY <3>3, Zenon DEF TicketUpTo
  <2> QED BY <2>1, <2>2, <2>3, Zenon DEF SegmentsUpTo
<1>4. \/ ApplyAll(View(k), Pushed(k.packet)) \/ ApplySome(View(k), Pushed(k.packet))
      \/ ApplyAll(segs, Pushed(k.packet)) \/ ApplySome(segs, Pushed(k.packet))
  BY PublishControl, Zenon DEF Publishes
<1> QED BY <1>1, <1>2, <1>3, <1>4, ApplyUpTo, Zenon

\* A commit, in any outcome, brings in no new number; what it writes is the view.
LEMMA CommitUpTo ==
  ASSUME DeleteOrder, NEW t \in Threads, Commit(t), NEW L,
         SegmentsUpTo(segs, L), PacketsUpTo(stream, L)
  PROVE  /\ SegmentsUpTo(segs', L) /\ PacketsUpTo(stream', L)
         /\ commit' = commit \/ (commit'.segs = segs' /\ commit'.seq = last_seq[t])
<1>1. CASE UNCHANGED coreVars
  BY <1>1, Zenon DEF coreVars
<1>2. CASE CommitSegments(last_seq[t]) \/ PrepareFails \/ FinishFails
  <2>1. /\ ApplyAll(segs, stream) \/ ApplySome(segs, stream)
        /\ commit' = commit \/ commit' = [seq |-> last_seq[t], segs |-> segs']
    BY <1>2, Zenon DEF CommitSegments, PrepareFails, FinishFails, ApplyPackets, ApplyPacketsFails
  <2>2. SegmentsUpTo(segs', L) /\ PacketsUpTo(stream', L)
    BY <2>1, OrderTypes, ApplyUpTo, Zenon
  <2>3. commit' = commit \/ (commit'.segs = segs' /\ commit'.seq = last_seq[t])
    BY <2>1
  <2> QED BY <2>2, <2>3, Zenon
<1> QED BY <1>1, <1>2, Zenon DEF Commit, PrepareRefused

\* Numbers at most L are at most M for any larger M.
LEMMA NumberedGrows ==
  ASSUME DeleteOrder, NEW L \in Nat, NEW M \in Nat, L <= M, NumberedBy(L)
  PROVE  NumberedBy(M)
<1>0. \A n \in Nat : n <= L => n <= M
  OBVIOUS
<1>1. \A n \in dels : n \in Nat /\ n <= M
  BY <1>0, Zenon DEF NumberedBy
<1>2. ASSUME NEW i \in Slots, NEW e \in private[i] PROVE e[1] <= M
  <2>1. e[1] \in Nat
    BY SlotFacts, Zenon
  <2> QED BY <1>0, <2>1, Zenon DEF NumberedBy
<1>3. ASSUME NEW t \in Threads, pc[t] = "apply", NEW n \in read[t].nodes PROVE n <= M
  BY <1>0, <1>3, PositionTypes, Zenon DEF NumberedBy
<1>4. ASSUME NEW k \in tickets PROVE TicketUpTo(k, M)
  <2>1. /\ DocSet(k.docs) \in SUBSET Nat /\ k.packet \in SUBSET Nat
        /\ k.private \in SUBSET (Nat \X Nat)
    BY TicketFields, Zenon
  <2>2. \A e \in k.private : e[1] \in Nat
    BY <2>1, Zenon
  <2> QED BY <1>0, <2>1, <2>2, Zenon DEF NumberedBy, TicketUpTo
<1>5. ASSUME NEW S \in SUBSET SegmentType, SegmentsUpTo(S, L) PROVE SegmentsUpTo(S, M)
  <2> SUFFICES ASSUME NEW s \in S
               PROVE  (\A d \in s.docs : d <= M) /\ \A pair \in s.dels : pair[1] <= M
    BY Zenon DEF SegmentsUpTo
  <2>1. s.docs \in SUBSET Nat /\ s.dels \in SUBSET (Nat \X Nat)
    BY Zenon DEF SegmentType
  <2>2. \A pair \in s.dels : pair[1] \in Nat
    BY <2>1, Zenon
  <2> QED BY <1>0, <1>5, <2>1, <2>2, Zenon DEF SegmentsUpTo
<1>6. SegmentsUpTo(segs, M) /\ SegmentsUpTo(commit.segs, M)
  BY <1>5, OrderTypes, Zenon DEF NumberedBy
<1>7. PacketsUpTo(stream, M)
  <2>1. \A q \in stream : q.nodes \in SUBSET Nat
    BY OrderTypes, Zenon DEF Packets, Packet
  <2> QED BY <1>0, <2>1, Zenon DEF NumberedBy, PacketsUpTo
<1>8. commit.seq <= M
  <2>1. commit.seq \in Nat
    BY Types, Zenon DEF ControlTypeOK
  <2> QED BY <1>0, <2>1, Zenon DEF NumberedBy
<1> QED BY <1>1, <1>2, <1>3, <1>4, <1>6, <1>7, <1>8, Zenon DEF NumberedBy

\* The last number handed out is a natural, and never falls.
LEMMA LastSeqType ==
  ASSUME DeleteOrder
  PROVE  /\ next_seq \in Nat /\ LastSeq \in Nat /\ LastSeq < next_seq
         /\ \A n \in Nat : n < next_seq => n <= LastSeq
<1>1. next_seq \in Nat \ {0}
  BY Types, Zenon DEF LogTypeOK
<1> QED BY <1>1 DEF LastSeq

\* Entries read out of the log are numbers handed out.
LEMMA SinceUpTo ==
  ASSUME DeleteOrder, NEW from \in Nat, NEW n \in Since(from)
  PROVE  n \in Nat /\ n <= LastSeq
<1>1. n \in Nat /\ \E p \in DOMAIN log : log[p] = n
  BY SinceLater, Types, Zenon
<1>2. n < next_seq
  BY <1>1, Zenon DEF DeleteOrder, SlotOrder
<1> QED BY <1>1, <1>2, LastSeqType, Zenon

\* A buffer taken is numbered as it was in its slot.
LEMMA FlushUpTo ==
  ASSUME DeleteOrder, NEW L \in Nat, LastSeq <= L, NumberedBy(L), NEW i \in Slots
  PROVE  TicketUpTo([no |-> next_ticket, docs |-> docs[i], private |-> ClosedPrivate(i),
                     packet |-> Unhanded], L)
<1>1. \A n \in Nat : n <= LastSeq => n <= L
  BY LastSeqType
<1>2. \A n \in Unhanded : n <= L
  BY <1>1, SinceUpTo, PositionTypes, Zenon DEF Unhanded
<1>3. \A d \in DocSet(docs[i]) : d <= L
  <2>1. \A j \in DOMAIN docs[i] : docs[i][j] \in Nat /\ docs[i][j] < next_seq
    BY SlotFacts, Zenon
  <2> QED BY <1>1, <2>1, LastSeqType, Zenon DEF DocSet
<1>4. ASSUME NEW e \in ClosedPrivate(i) PROVE e[1] <= L
  <2>1. CASE e \in private[i]
    BY <2>1, Zenon DEF NumberedBy
  <2>2. CASE e \in Since(slice[i]) \X {Len(docs[i])}
    <3>1. e[1] \in Since(slice[i])
      BY <2>2
    <3> QED BY <1>1, <3>1, SinceUpTo, PositionTypes, Zenon
  <2> QED BY <2>1, <2>2, Zenon DEF ClosedPrivate
<1> QED BY <1>2, <1>3, <1>4, Zenon DEF TicketUpTo

\* The deletes taken with no buffer are numbers handed out too.
LEMMA FreezeUpTo ==
  ASSUME DeleteOrder, NEW L \in Nat, LastSeq <= L
  PROVE  TicketUpTo([no |-> next_ticket, docs |-> <<>>, packet |-> Unhanded, private |-> {}], L)
<1>1. \A n \in Nat : n <= LastSeq => n <= L
  BY LastSeqType
<1>2. \A n \in Unhanded : n <= L
  BY <1>1, SinceUpTo, PositionTypes, Zenon DEF Unhanded
<1> QED BY <1>2, EmptyDocSet, Zenon DEF TicketUpTo

\* A step keeps no number above a bound that the number it takes is within.
LEMMA NumberedKinds ==
  ASSUME DeleteOrder, NEW L \in Nat, LastSeq <= L, NumberedBy(L), NEW t \in Threads,
         Step(t) \/ Call(t), pc[t] = "commit" => last_seq[t] <= L,
         next_seq' = next_seq \/ next_seq <= L
  PROVE  NumberedBy(L)'
<1>0. private \in [Slots -> SUBSET (Nat \X Nat)] /\ read \in [Threads -> LogRead]
  BY Types, Zenon DEF SlotTypeOK, ThreadTypeOK
<1>1. CASE Quiet
  <2>1. SameWindows /\ UNCHANGED <<private, tickets, segs, stream, commit, dels>>
    BY <1>1, Zenon DEF Quiet, slotData, coreVars, historyVars
  <2> QED BY <2>1, Zenon DEF NumberedBy, SameWindows, TicketUpTo, SegmentsUpTo, PacketsUpTo
<1>2. CASE Freezes
  <2>1. SameWindows /\ UNCHANGED <<private, segs, stream, commit, dels>> /\ DeletesTicket
    BY <1>2, Zenon DEF Freezes, slotData, coreVars, historyVars
  <2>2. \A k \in tickets' : TicketUpTo(k, L)
    BY <2>1, FreezeUpTo, Zenon DEF DeletesTicket, NumberedBy
  <2> QED BY <2>1, <2>2, Zenon DEF NumberedBy, SameWindows, TicketUpTo, SegmentsUpTo, PacketsUpTo
<1>3. CASE Flushes
  <2>1. PICK i \in Slots, p \in 0..Partitions, m \in SUBSET Slots : BeginFlush(i, p, m)
    BY <1>3, Zenon DEF Flushes
  <2>2. SameWindows /\ UNCHANGED <<segs, stream, commit, dels>>
    BY <1>3, Zenon DEF Flushes, coreVars, historyVars
  <2>3. \A k \in tickets' : TicketUpTo(k, L)
    BY <2>1, FlushUpTo, Zenon DEF BeginFlush, NumberedBy
  <2>4. private' = [private EXCEPT ![i] = {}]
    BY <2>1, Zenon DEF BeginFlush
  <2>5. \A j \in Slots : \A e \in private'[j] : e[1] <= L
    BY <1>0, <2>4, Zenon DEF NumberedBy
  <2> QED BY <2>2, <2>3, <2>5, Zenon DEF NumberedBy, SameWindows, TicketUpTo, SegmentsUpTo, PacketsUpTo
<1>4. CASE Deletes
  <2>1. /\ SameWindows /\ UNCHANGED <<private, tickets, segs, stream, commit>>
        /\ dels' = dels \union {next_seq} /\ LogOperation(TRUE)
    BY <1>4, Zenon DEF Deletes, slotData, coreVars
  <2>2. next_seq \in Nat /\ next_seq <= L
    BY <2>1, LastSeqType DEF LogOperation, TakeSeq
  <2>3. \A n \in dels' : n \in Nat /\ n <= L
    BY <2>1, <2>2, Zenon DEF NumberedBy
  <2> QED BY <2>1, <2>3, Zenon DEF NumberedBy, SameWindows, TicketUpTo, SegmentsUpTo, PacketsUpTo
<1>5. CASE Adds(t)
  <2>1. PICK i \in Slots, p \in 0..Partitions, c \in 1..MaxBlock, d \in BOOLEAN :
          pc[t] # "apply" /\ InWindow(i) = {} /\ Buffer(t, i, p, c, d)
    BY <1>5, Zenon DEF Adds
  <2>2. /\ UNCHANGED <<private, tickets, segs, stream, commit>> /\ LogOperation(d)
        /\ \A n \in dels' : n \in dels \/ n = next_seq
    BY <2>1, Zenon DEF Buffer, ticketVars, coreVars
  <2>3. next_seq \in Nat /\ next_seq <= L
    BY <2>2, LastSeqType DEF LogOperation, TakeSeq
  <2>4. \A n \in dels' : n \in Nat /\ n <= L
    BY <2>2, <2>3, Zenon DEF NumberedBy
  <2>5. \A n \in Nat : n <= LastSeq => n <= L
    BY LastSeqType
  <2>6. \A n \in read'[t].nodes : n \in Since(slice[i]) \/ n = next_seq
    <3>1. PICK b, nodes :
            /\ read' = [read EXCEPT ![t] = [before |-> b, nodes |-> nodes, end |-> Len(log')]]
            /\ \A n \in nodes : n \in Since(slice[i]) \/ n = next_seq
      BY <2>1, Zenon DEF Buffer
    <3>2. read'[t].nodes = nodes
      BY <1>0, <3>1, Zenon
    <3> QED BY <3>1, <3>2, Zenon
  <2>7. \A n \in read'[t].nodes : n <= L
    BY <2>3, <2>5, <2>6, SinceUpTo, PositionTypes, Zenon
  <2>8. \A u \in Threads \ {t} : pc'[u] = pc[u] /\ read'[u] = read[u]
    BY <2>1, AddWindows, Zenon
  <2>9. \A u \in Threads : pc'[u] = "apply" => \A n \in read'[u].nodes : n <= L
    BY <2>7, <2>8, Zenon DEF NumberedBy
  <2> QED BY <2>2, <2>4, <2>9, Zenon DEF NumberedBy, TicketUpTo, SegmentsUpTo, PacketsUpTo
<1>6. CASE ApplySlice(t)
  <2>1. /\ UNCHANGED <<tickets, segs, stream, commit, dels>> /\ pc[t] = "apply"
        /\ private' = [private EXCEPT ![at[t]] = private[at[t]] \union (read[t].nodes \X {Limit(t)})]
    BY <1>6, Zenon DEF ApplySlice, ticketVars, coreVars
  <2>2. ASSUME NEW j \in Slots, NEW e \in private'[j] PROVE e[1] <= L
    <3>1. e \in private[j] \/ e \in read[t].nodes \X {Limit(t)}
      BY <1>0, <2>1, Zenon
    <3>2. CASE e \in private[j]
      BY <3>2, Zenon DEF NumberedBy
    <3>3. CASE e \in read[t].nodes \X {Limit(t)}
      <4>1. e[1] \in read[t].nodes
        BY <3>3
      <4> QED BY <2>1, <4>1, Zenon DEF NumberedBy
    <3> QED BY <3>1, <3>2, <3>3, Zenon
  <2>3. UNCHANGED read /\ \A u \in Threads : pc'[u] = "apply" => pc[u] = "apply"
    BY <1>6, ApplyWindows, Zenon
  <2> QED BY <2>1, <2>2, <2>3, Zenon DEF NumberedBy, TicketUpTo, SegmentsUpTo, PacketsUpTo
<1>7. CASE Commit(t)
  <2>1. SameWindows /\ UNCHANGED <<private, dels, tickets>> /\ pc[t] = "commit"
    BY <1>7, ViewSteps, Zenon DEF slotData, Commit, ticketVars
  <2>2. /\ SegmentsUpTo(segs', L) /\ PacketsUpTo(stream', L)
        /\ commit' = commit \/ (commit'.segs = segs' /\ commit'.seq = last_seq[t])
    BY <1>7, CommitUpTo, Zenon DEF NumberedBy
  <2>3. SegmentsUpTo(commit'.segs, L) /\ commit'.seq <= L
    BY <2>1, <2>2, Zenon DEF NumberedBy
  <2> QED BY <2>1, <2>2, <2>3, Zenon DEF NumberedBy, SameWindows, TicketUpTo, SegmentsUpTo, PacketsUpTo
<1>8. ASSUME NEW k \in tickets, Publishes(t, k) PROVE NumberedBy(L)'
  <2>1. SameWindows /\ UNCHANGED <<private, dels>> /\ UNCHANGED commit /\ tickets' = tickets \ {k}
    BY <1>8, ViewSteps, PublishControl, Zenon DEF slotData, Retire, Publishes
  <2>2. SegmentsUpTo(segs', L) /\ PacketsUpTo(stream', L)
    BY <1>8, PublishUpTo, Zenon DEF NumberedBy
  <2> QED BY <2>1, <2>2, Zenon DEF NumberedBy, SameWindows, TicketUpTo, SegmentsUpTo, PacketsUpTo
<1>9. CASE AbortSlots(t)
  <2>1. /\ UNCHANGED <<tickets, segs, stream, commit, dels, read>> /\ \A i \in Slots : private'[i] = {}
        /\ pc' = [pc EXCEPT ![t] = "drain"]
    BY <1>9, Zenon DEF AbortSlots, ticketVars, coreVars, Goto
  <2>2. \A u \in Threads : pc'[u] = "apply" => pc[u] = "apply"
    BY <2>1, PositionTypes, Zenon
  <2> QED BY <2>1, <2>2, Zenon DEF NumberedBy, TicketUpTo, SegmentsUpTo, PacketsUpTo
<1>10. CASE Drain(t)
  <2>1. /\ UNCHANGED <<tickets, private, commit, read>> /\ dels' \subseteq dels
        /\ pc' = [pc EXCEPT ![t] = "idle"]
        /\ segs' = segs \/ segs' = {} \/ segs' = commit.segs
        /\ stream' = stream \/ stream' = {}
    BY <1>10, Zenon DEF Drain, DropAll, Rollback, DropAllSegments, DropAllRefused,
       RollbackView, RollbackFails,
       ticketVars, coreVars, Goto
  <2>2. \A u \in Threads : pc'[u] = "apply" => pc[u] = "apply"
    BY <2>1, PositionTypes, Zenon
  <2>3. SegmentsUpTo(segs', L) /\ PacketsUpTo(stream', L)
    BY <2>1, Zenon DEF NumberedBy, SegmentsUpTo, PacketsUpTo
  <2> QED BY <2>1, <2>2, <2>3, Zenon DEF NumberedBy, TicketUpTo, SegmentsUpTo, PacketsUpTo
<1> QED BY <1>1, <1>2, <1>3, <1>4, <1>5, <1>6, <1>7, <1>8, <1>9, <1>10, StepKinds, Zenon

\* A step takes one sequence number or none.
LEMMA SeqGrows ==
  ASSUME DeleteOrder, NEW t \in Threads, Step(t) \/ Call(t)
  PROVE  next_seq' \in {next_seq, next_seq + 1}
<1>1. CASE Quiet \/ Flushes \/ Freezes \/ ApplySlice(t) \/ AbortSlots(t)
  BY <1>1, Zenon DEF Quiet, Flushes, BeginFlush, Freezes, DeletesTicket, ApplySlice, AbortSlots, logVars
<1>2. CASE Commit(t) \/ \E k \in tickets : Publishes(t, k)
  BY <1>2, ViewSteps, Zenon DEF logVars
<1>3. CASE Deletes \/ Adds(t)
  BY <1>3, Zenon DEF Deletes, Adds, Buffer, LogOperation, TakeSeq
<1>4. CASE Drain(t)
  BY <1>4, Zenon DEF Drain, DropAll, Rollback, TakeSeq
<1> QED BY <1>1, <1>2, <1>3, <1>4, StepKinds, Zenon

\* Every delete kept anywhere stays a number handed out.
LEMMA NumberedStep ==
  ASSUME DeleteOrder, Numbered, NEW t \in Threads, Step(t) \/ Call(t),
         pc[t] = "commit" => last_seq[t] <= LastSeq
  PROVE  Numbered'
<1>1. PICK M : M = LastSeq'
  BY Zenon
<1>2. /\ LastSeq \in Nat /\ next_seq \in Nat \ {0} /\ next_seq' \in {next_seq, next_seq + 1}
      /\ last_seq[t] \in Nat
  BY LastSeqType, SeqGrows, Types, Zenon DEF LogTypeOK, ThreadTypeOK
<1>3. M \in Nat /\ LastSeq <= M /\ (next_seq' = next_seq \/ next_seq <= M)
  <2>1. M = next_seq' - 1 /\ LastSeq = next_seq - 1
    BY <1>1, Zenon DEF LastSeq
  <2>2. next_seq - 1 \in Nat /\ (next_seq + 1) - 1 = next_seq /\ next_seq - 1 <= next_seq - 1
        /\ next_seq - 1 <= next_seq /\ next_seq <= next_seq /\ next_seq \in Nat
    BY <1>2
  <2>3. CASE next_seq' = next_seq
    BY <2>1, <2>2, <2>3, Zenon
  <2>4. CASE next_seq' = next_seq + 1
    BY <2>1, <2>2, <2>4, Zenon
  <2> QED BY <1>2, <2>3, <2>4, Zenon
<1>4. pc[t] = "commit" => last_seq[t] <= M
  BY <1>2, <1>3
<1>5. NumberedBy(M)
  BY <1>2, <1>3, NumberedGrows, Zenon DEF Numbered
<1>6. NumberedBy(M)'
  BY <1>3, <1>4, <1>5, NumberedKinds, Zenon
<1> QED BY <1>1, <1>6, Zenon DEF Numbered, NumberedBy

----------------------------------------------------------------------------
(* The cut of a commit *)

\* What a commit numbered L may write, and what its barrier lets into the view.
CutBefore(L) ==
    /\ L <= LastSeq /\ commit.seq <= L
    /\ SegmentsUpTo(segs, L) /\ PacketsUpTo(stream, L)
    /\ \A k \in tickets : k.no < barrier => TicketUpTo(k, L)

\* What came after the cut, held back by the barrier or not yet ticketed.
CutAfter(L) ==
    /\ \A i \in Slots : \A d \in DocSet(docs[i]) : L < d
    /\ \A k \in tickets : k.no >= barrier =>
         (\A d \in DocSet(k.docs) : L < d) /\ \A n \in k.packet : L < n
    /\ \A n \in Unhanded : L < n

\* From the cut of a commit to its end, the barrier tells the operations up to
\* its number from those after it.
Cut == \A t \in Threads : Cutting(t) => CutBefore(last_seq[t]) /\ CutAfter(last_seq[t])

\* The entries of a log from a position on, of those not dropped.
Entries(l, b, from) == {l[p] : p \in {q \in DOMAIN l : q > b /\ q > from}}

\* `since` reads these entries.
LEMMA EntriesSince ==
  ASSUME NEW l \in Seq(Nat), NEW b \in Nat, NEW from \in Nat
  PROVE  {l[p] : p \in (IF from > b THEN from ELSE b) + 1 .. Len(l)} = Entries(l, b, from)
<1>1. {q \in DOMAIN l : q > b /\ q > from} = (IF from > b THEN from ELSE b) + 1 .. Len(l)
  OBVIOUS
<1> QED BY <1>1, Zenon DEF Entries

\* ... in the state before a step, ...
LEMMA SinceEntries ==
  ASSUME DeleteOrder, NEW from \in Nat
  PROVE  Since(from) = Entries(log, base, from)
BY OrderTypes, PositionTypes, EntriesSince, Zenon DEF Since, End

\* ... and after it.
LEMMA UnhandedEntries ==
  ASSUME log' \in Seq(Nat), base' \in Nat, handed' \in Nat
  PROVE  Unhanded' = Entries(log', base', handed')
BY EntriesSince, Zenon DEF Unhanded, Since, End

\* An operation on the log loses no entry past the trimmed front, and brings in
\* no other than its own.
LEMMA LogGrows ==
  ASSUME DeleteOrder, LogBounds, NEW d \in BOOLEAN, LogOperation(d)
  PROVE  /\ log' \in Seq(Nat) /\ base' \in Nat /\ handed' = handed
         /\ \A from \in Nat : \A n \in Since(from) :
              (base' = base \/ base' <= from) => n \in Entries(log', base', from)
         /\ d => \A from \in Nat : from <= End => next_seq \in Entries(log', base', from)
         /\ \A from \in Nat : \A n \in Entries(log', base', from) : n \in Since(from) \/ n = next_seq
<1>1. /\ log \in Seq(Nat) /\ base \in Nat /\ End = Len(log) /\ End \in Nat /\ next_seq \in Nat
      /\ base' \in Nat /\ base <= base' /\ base' <= End
      /\ handed' = handed
  BY OrderTypes, PositionTypes, TrimBound, Zenon DEF LogOperation, LogBounds
<1>2. log' = IF d THEN Append(log, next_seq) ELSE log
  BY Zenon DEF LogOperation
<1>3. /\ log' \in Seq(Nat)
      /\ \A p \in DOMAIN log : p \in DOMAIN log' /\ log'[p] = log[p]
      /\ \A p \in DOMAIN log' : (p \in DOMAIN log /\ log'[p] = log[p]) \/ log'[p] = next_seq
      /\ d => Len(log) + 1 \in DOMAIN log' /\ log'[Len(log) + 1] = next_seq
  BY <1>1, <1>2
<1>4. ASSUME NEW from \in Nat, NEW n \in Since(from), base' = base \/ base' <= from
      PROVE  n \in Entries(log', base', from)
  <2>0. n \in Entries(log, base, from)
    BY SinceEntries, Zenon
  <2>1. PICK p \in DOMAIN log : p > base /\ p > from /\ n = log[p]
    BY <2>0, Zenon DEF Entries
  <2>2. p > base'
    BY <1>1, <1>4, <2>1
  <2> QED BY <1>3, <2>1, <2>2, Zenon DEF Entries
<1>5. ASSUME d, NEW from \in Nat, from <= End PROVE next_seq \in Entries(log', base', from)
  <2>1. Len(log) + 1 > base' /\ Len(log) + 1 > from
    BY <1>1, <1>5
  <2> QED BY <1>3, <1>5, <2>1, Zenon DEF Entries
<1>6. ASSUME NEW from \in Nat, NEW n \in Entries(log', base', from)
      PROVE  n \in Since(from) \/ n = next_seq
  <2>1. PICK p \in DOMAIN log' : p > base' /\ p > from /\ n = log'[p]
    BY Zenon DEF Entries
  <2>2. CASE p \in DOMAIN log /\ log'[p] = log[p]
    <3>1. p > base
      BY <1>1, <2>1, <2>2
    <3>2. n \in Entries(log, base, from)
      BY <2>1, <2>2, <3>1, Zenon DEF Entries
    <3> QED BY <3>2, SinceEntries, Zenon
  <2> QED BY <1>3, <2>1, <2>2, Zenon
<1> QED BY <1>1, <1>3, <1>4, <1>5, <1>6, Zenon

\* What the control plane has not taken grows by the operation's delete only.
LEMMA UnhandedGrows ==
  ASSUME DeleteOrder, LogBounds, NEW d \in BOOLEAN, LogOperation(d)
  PROVE  /\ Unhanded \subseteq Unhanded'
         /\ d => next_seq \in Unhanded'
         /\ \A n \in Unhanded' : n \in Unhanded \/ n = next_seq
<1>1. Unhanded' = Entries(log', base', handed)
  BY LogGrows, UnhandedEntries, PositionTypes, Zenon
<1>2. base' = base \/ base' <= handed
  BY TrimBound, Zenon DEF LogBounds, LogOperation
<1>3. handed \in Nat /\ handed <= End
  BY PositionTypes, Zenon
<1>4. Unhanded \subseteq Unhanded'
  BY <1>1, <1>2, <1>3, LogGrows, Zenon DEF Unhanded
<1>5. d => next_seq \in Unhanded'
  BY <1>1, <1>3, LogGrows, Zenon
<1>6. \A n \in Unhanded' : n \in Unhanded \/ n = next_seq
  BY <1>1, <1>3, LogGrows, Zenon DEF Unhanded
<1> QED BY <1>4, <1>5, <1>6, Zenon

\* Once taken, nothing is left to take.
LEMMA TakenUnhanded ==
  ASSUME DeleteOrder, UNCHANGED <<log, base>>, handed' = End
  PROVE  Unhanded' = {}
<1>1. log \in Seq(Nat) /\ base \in Nat /\ End = Len(log) /\ End \in Nat
  BY OrderTypes, PositionTypes, Zenon
<1>2. Unhanded' = Entries(log, base, End)
  BY <1>1, UnhandedEntries, Zenon
<1>3. \A p \in DOMAIN log : ~(p > End)
  BY <1>1
<1> QED BY <1>2, <1>3, Zenon DEF Entries

\* A ticket handed out during a commit is held back by its barrier.
LEMMA NewTicketHeldBack ==
  ASSUME DeleteOrder, barrier # 0
  PROVE  /\ next_ticket >= barrier /\ ~(next_ticket < barrier)
         /\ \A k \in tickets : k.no < barrier \/ k.no >= barrier
<1>1. next_ticket \in Nat /\ barrier \in 0..next_ticket
  BY Types, Zenon DEF TicketTypeOK
<1>2. \A k \in tickets : k.no \in Nat
  BY TicketFields, Zenon
<1> QED BY <1>1, <1>2

\* Steps of other threads, and publishing, leave the cut as it is.
LEMMA CutKept ==
  ASSUME DeleteOrder, LogBounds, NEW L \in Nat, CutBefore(L), CutAfter(L), barrier # 0,
         UNCHANGED barrier, NEW t \in Threads, Step(t) \/ Call(t),
         pc[t] \notin {"commit", "abort", "drain"}
  PROVE  CutBefore(L)' /\ CutAfter(L)'
<1>0. /\ docs \in [Slots -> Seq(Nat)] /\ L <= LastSeq /\ commit.seq <= L
      /\ LastSeq \in Nat /\ next_seq \in Nat /\ L < next_seq
  <2>1. L <= LastSeq /\ commit.seq <= L
    BY Zenon DEF CutBefore
  <2>2. LastSeq \in Nat /\ next_seq \in Nat /\ LastSeq < next_seq /\ docs \in [Slots -> Seq(Nat)]
    BY LastSeqType, PositionTypes, Zenon
  <2> QED BY <2>1, <2>2
<1>1. L <= LastSeq'
  <2>1. next_seq' \in {next_seq, next_seq + 1} /\ LastSeq' = next_seq' - 1 /\ L <= next_seq - 1
    BY <1>0, SeqGrows, Zenon DEF LastSeq
  <2>2. L <= next_seq - 1 => L <= (next_seq + 1) - 1
    BY <1>0
  <2> QED BY <2>1, <2>2, Zenon
<1>2. CASE Quiet \/ ApplySlice(t)
  <2>1. UNCHANGED <<log, base, handed, docs, tickets, segs, stream, commit>>
    BY <1>2, Zenon DEF Quiet, ApplySlice, slotData, logVars, ticketVars, coreVars
  <2>2. Unhanded' = Unhanded
    BY <2>1, Zenon DEF Unhanded, Since, End
  <2> QED BY <1>1, <2>1, <2>2, Zenon DEF CutBefore, CutAfter, SegmentsUpTo, PacketsUpTo, TicketUpTo
<1>3. CASE Freezes
  <2> DEFINE k == [no |-> next_ticket, docs |-> <<>>, packet |-> Unhanded, private |-> {}]
  <2>1. /\ UNCHANGED <<log, base, docs, segs, stream, commit>> /\ handed' = End
        /\ tickets' = tickets \union {k}
    BY <1>3, Zenon DEF Freezes, DeletesTicket, TakeUnhanded, slotData, coreVars
  <2>2. Unhanded' = {}
    BY <2>1, TakenUnhanded, Zenon
  <2>3. k.no = next_ticket /\ DocSet(k.docs) = {} /\ k.packet = Unhanded
    BY EmptyDocSet, Zenon
  <2> HIDE DEF k
  <2>4. ASSUME NEW m \in tickets', m.no < barrier PROVE TicketUpTo(m, L)
    <3>1. m \in tickets
      BY <2>1, <2>3, <2>4, NewTicketHeldBack, Zenon
    <3> QED BY <2>4, <3>1, Zenon DEF CutBefore
  <2>5. ASSUME NEW m \in tickets', m.no >= barrier
        PROVE  (\A d \in DocSet(m.docs) : L < d) /\ \A n \in m.packet : L < n
    <3>1. CASE m \in tickets
      BY <2>5, <3>1, Zenon DEF CutAfter
    <3>2. CASE m = k
      BY <2>3, <3>2, Zenon DEF CutAfter
    <3> QED BY <2>1, <3>1, <3>2, Zenon
  <2>6. CutBefore(L)'
    BY <1>1, <2>1, <2>4, Zenon DEF CutBefore, SegmentsUpTo, PacketsUpTo, TicketUpTo
  <2>7. CutAfter(L)'
    BY <2>1, <2>2, <2>5, Zenon DEF CutAfter
  <2> QED BY <2>6, <2>7, Zenon
<1>4. CASE Flushes
  <2>1. PICK i \in Slots, p \in 0..Partitions, q \in SUBSET Slots : BeginFlush(i, p, q)
    BY <1>4, Zenon DEF Flushes
  <2> DEFINE k == [no |-> next_ticket, docs |-> docs[i], private |-> ClosedPrivate(i),
                   packet |-> Unhanded]
  <2>2. /\ UNCHANGED <<log, base, segs, stream, commit>> /\ handed' = End
        /\ tickets' = tickets \union {k} /\ docs' = [docs EXCEPT ![i] = <<>>]
    BY <1>4, <2>1, Zenon DEF Flushes, BeginFlush, TakeUnhanded, coreVars
  <2>3. Unhanded' = {}
    BY <2>2, TakenUnhanded, Zenon
  <2>4. k.no = next_ticket /\ k.docs = docs[i] /\ k.packet = Unhanded
    BY Zenon
  <2> HIDE DEF k
  <2>5. ASSUME NEW m \in tickets', m.no < barrier PROVE TicketUpTo(m, L)
    <3>1. m \in tickets
      BY <2>2, <2>4, <2>5, NewTicketHeldBack, Zenon
    <3> QED BY <2>5, <3>1, Zenon DEF CutBefore
  <2>6. ASSUME NEW m \in tickets', m.no >= barrier
        PROVE  (\A d \in DocSet(m.docs) : L < d) /\ \A n \in m.packet : L < n
    <3>1. CASE m \in tickets
      BY <2>6, <3>1, Zenon DEF CutAfter
    <3>2. CASE m = k
      BY <2>4, <3>2, Zenon DEF CutAfter
    <3> QED BY <2>2, <3>1, <3>2, Zenon
  <2>7. \A j \in Slots : \A d \in DocSet(docs'[j]) : L < d
    <3>1. \A j \in Slots : docs'[j] = docs[j] \/ docs'[j] = <<>>
      BY <1>0, <2>2, Zenon
    <3> QED BY <3>1, EmptyDocSet, Zenon DEF CutAfter
  <2>8. CutBefore(L)'
    BY <1>1, <2>2, <2>5, Zenon DEF CutBefore, SegmentsUpTo, PacketsUpTo, TicketUpTo
  <2>9. CutAfter(L)'
    BY <2>3, <2>6, <2>7, Zenon DEF CutAfter
  <2> QED BY <2>8, <2>9, Zenon
<1>5. CASE Deletes
  <2>1. LogOperation(TRUE) /\ UNCHANGED <<docs, tickets, segs, stream, commit>>
    BY <1>5, Zenon DEF Deletes, slotData, coreVars
  <2>2. \A n \in Unhanded' : L < n
    BY <1>0, <2>1, UnhandedGrows, Zenon DEF CutAfter
  <2> QED BY <1>1, <2>1, <2>2, Zenon DEF CutBefore, CutAfter, SegmentsUpTo, PacketsUpTo, TicketUpTo
<1>6. CASE Adds(t)
  <2>1. PICK i \in Slots, p \in 0..Partitions, c \in 1..MaxBlock, d \in BOOLEAN : Buffer(t, i, p, c, d)
    BY <1>6, Zenon DEF Adds
  <2>2. /\ LogOperation(d) /\ UNCHANGED <<tickets, segs, stream, commit>>
        /\ docs' = [docs EXCEPT ![i] = docs[i] \o [j \in 1..c |-> next_seq]]
    BY <2>1, Zenon DEF Buffer, ticketVars, coreVars
  <2>3. \A n \in Unhanded' : L < n
    BY <1>0, <2>2, UnhandedGrows, Zenon DEF CutAfter
  <2>4. ASSUME NEW j \in Slots, NEW e \in DocSet(docs'[j]) PROVE L < e
    <3>1. c \in Nat \ {0} /\ docs[i] \in Seq(Nat)
      BY <1>0
    <3>2. docs'[j] = docs[j] \/ (j = i /\ docs'[j] = docs[i] \o [l \in 1..c |-> next_seq])
      BY <1>0, <2>2, Zenon
    <3>3. DocSet(docs[i] \o [l \in 1..c |-> next_seq]) = DocSet(docs[i]) \union {next_seq}
      BY <1>0, <3>1, BlockDocSet, Zenon
    <3>4. e \in DocSet(docs[j]) \/ e = next_seq
      BY <2>4, <3>2, <3>3, Zenon
    <3> QED BY <1>0, <3>4, Zenon DEF CutAfter
  <2> QED BY <1>1, <2>2, <2>3, <2>4, Zenon DEF CutBefore, CutAfter, SegmentsUpTo, PacketsUpTo, TicketUpTo
<1>7. ASSUME NEW k \in tickets, Publishes(t, k) PROVE CutBefore(L)' /\ CutAfter(L)'
  <2>1. /\ UNCHANGED <<log, base, handed, docs, commit>> /\ tickets' = tickets \ {k}
    BY <1>7, ViewSteps, PublishControl, Zenon DEF slotData, logVars, Retire, Publishes
  <2>2. k.no < barrier
    BY <1>7, Zenon DEF Publishes, Publish, PublishApplyFails, Abandon, MayPublish
  <2>3. SegmentsUpTo(segs', L) /\ PacketsUpTo(stream', L)
    BY <1>7, <2>2, PublishUpTo, Zenon DEF CutBefore
  <2>4. Unhanded' = Unhanded
    BY <2>1, Zenon DEF Unhanded, Since, End
  <2> QED BY <1>1, <2>1, <2>3, <2>4, Zenon DEF CutBefore, CutAfter, SegmentsUpTo, PacketsUpTo, TicketUpTo
<1>8. ~Commit(t) /\ ~AbortSlots(t) /\ ~Drain(t)
  BY Zenon DEF Commit, AbortSlots, Drain
<1> QED BY <1>2, <1>3, <1>4, <1>5, <1>6, <1>7, <1>8, StepKinds, Zenon

\* Taking the cut puts every operation so far before it, and none after.
LEMMA CutTaken ==
  ASSUME DeleteOrder, LogBounds, Numbered, SlotsTicketed, NEW t \in Threads, TakeCut(t),
         job[t] = "commit"
  PROVE  CutBefore(last_seq[t])' /\ CutAfter(last_seq[t])'
<1> DEFINE k == [no |-> next_ticket, docs |-> <<>>, packet |-> Unhanded, private |-> {}]
<1>1. /\ UNCHANGED <<log, base, next_seq, docs, segs, stream, commit>> /\ handed' = End
      /\ tickets' = tickets \union {k} /\ barrier' = next_ticket + 1
      /\ last_seq' = [last_seq EXCEPT ![t] = LastSeq] /\ pc[t] = "ticket" /\ at[t] = NumSlots
  BY Zenon DEF TakeCut, DeletesTicket, TakeUnhanded, coreVars, Barrier
<1>2. last_seq'[t] = LastSeq /\ LastSeq' = LastSeq /\ LastSeq \in Nat /\ LastSeq <= LastSeq
  <2>1. last_seq \in [Threads -> Nat]
    BY Types, Zenon DEF ThreadTypeOK
  <2>2. LastSeq \in Nat /\ LastSeq <= LastSeq
    BY LastSeqType
  <2> QED BY <1>1, <2>1, <2>2, Zenon DEF LastSeq
<1>3. TicketUpTo(k, LastSeq)
  BY <1>2, FreezeUpTo, Zenon
<1>4. Unhanded' = {}
  BY <1>1, TakenUnhanded, Zenon
<1>5. \A i \in Slots : docs'[i] = <<>> /\ DocSet(docs'[i]) = {}
  BY <1>1, EmptyDocSet, Zenon DEF SlotsTicketed, Slots
<1>6. k.no = next_ticket
  BY Zenon
<1> HIDE DEF k
<1>7. \A m \in tickets' : ~(m.no >= barrier')
  <2>1. next_ticket \in Nat
    BY Types, Zenon DEF TicketTypeOK
  <2>2. ASSUME NEW m \in tickets' PROVE m.no \in Nat /\ m.no <= next_ticket
    <3>1. CASE m \in tickets
      <4>1. m.no \in Nat /\ m.no < next_ticket
        BY <3>1, TicketFields, Zenon DEF DeleteOrder, TicketNumbers
      <4> QED BY <2>1, <4>1
    <3>2. CASE m = k
      BY <1>6, <2>1, <3>2
    <3> QED BY <1>1, <3>1, <3>2, Zenon
  <2> QED BY <1>1, <2>1, <2>2
<1>8. CutAfter(last_seq[t])'
  BY <1>4, <1>5, <1>7, Zenon DEF CutAfter
<1>9. CutBefore(last_seq[t])'
  BY <1>1, <1>2, <1>3, Zenon DEF CutBefore, Numbered, NumberedBy, SegmentsUpTo, PacketsUpTo, TicketUpTo
<1> QED BY <1>8, <1>9, Zenon

\* The cut of a commit stays clean until the commit ends.
LEMMA CutStep ==
  ASSUME DeleteOrder, Publishers, FullFlushLock, Turn, LogBounds, Numbered, SlotsTicketed, Cut,
         NEW t \in Threads, Step(t) \/ Call(t)
  PROVE  Cut'
<1> SUFFICES ASSUME NEW u \in Threads, Cutting(u)'
             PROVE  CutBefore(last_seq[u])' /\ CutAfter(last_seq[u])'
  BY Zenon DEF Cut
<1>1. CASE u = t /\ TakeCut(t)
  <2>1. job[t] = "commit"
    BY <1>1, Zenon DEF Cutting, TakeCut
  <2> QED BY <1>1, <2>1, CutTaken, Zenon
<1>2. ASSUME Cutting(u), last_seq'[u] = last_seq[u], UNCHANGED barrier,
             pc[t] \notin {"commit", "abort", "drain"}
      PROVE  CutBefore(last_seq[u])' /\ CutAfter(last_seq[u])'
  <2>1. PICK L : L = last_seq[u]
    BY Zenon
  <2>2. L \in Nat /\ L = last_seq'[u]
    BY <1>2, <2>1, Types, Zenon DEF ThreadTypeOK
  <2>3. CutBefore(L) /\ CutAfter(L) /\ barrier # 0
    BY <1>2, <2>1, Zenon DEF Cut, Turn, TurnOf
  <2>4. CutBefore(L)' /\ CutAfter(L)'
    BY <1>2, <2>2, <2>3, CutKept, Zenon
  <2> QED BY <2>2, <2>4, Zenon DEF CutBefore, CutAfter
<1>3. ASSUME u = t, NEW k \in tickets, Publishes(t, k) PROVE pc[t] \notin {"commit", "abort", "drain"}
  BY <1>3, PublishRetires, Zenon
<1> QED BY <1>1, <1>2, <1>3, CuttingStep, Zenon

\* Delete n has reached document d, or will, where the document is.
Owed(n, d) ==
    \/ \E i \in Slots : d \in DocSet(docs[i]) /\ SlotOwes(i, n, d)
    \/ \E m \in tickets : d \in DocSet(m.docs) /\ TicketOwes(m, n, d)
    \/ \E s \in segs : d \in s.docs /\ SegmentOwes(s, n, d)

----------------------------------------------------------------------------
(* What a buffer's own deletes reach *)

\* The pairs a buffer's own deletes reach, one by one.
LEMMA PairsIn ==
  ASSUME NEW b, NEW own, NEW x
  PROVE  x \in PrivatePairs(b, own) <=> \E e \in own : \E j \in 1..e[2] : x = <<e[1], b[j]>>
BY DEF PrivatePairs

\* More entries reach no fewer documents.
LEMMA PairsMore ==
  ASSUME NEW b, NEW own, NEW more, own \subseteq more
  PROVE  PrivatePairs(b, own) \subseteq PrivatePairs(b, more)
<1> SUFFICES ASSUME NEW x \in PrivatePairs(b, own) PROVE x \in PrivatePairs(b, more)
  BY Zenon
<1>1. x \in PrivatePairs(b, own) <=> \E e \in own : \E j \in 1..e[2] : x = <<e[1], b[j]>>
  BY PairsIn
<1>2. x \in PrivatePairs(b, more) <=> \E e \in more : \E j \in 1..e[2] : x = <<e[1], b[j]>>
  BY PairsIn
<1> QED BY <1>1, <1>2, Zenon

\* An entry that reaches the whole buffer reaches each of its documents.
LEMMA PairsWhole ==
  ASSUME NEW b \in Seq(Nat), NEW d \in DocSet(b), NEW own, NEW n, <<n, Len(b)>> \in own
  PROVE  <<n, d>> \in PrivatePairs(b, own)
<1>1. PICK j \in DOMAIN b : d = b[j]
  BY Zenon DEF DocSet
<1>2. PICK e \in own : e = <<n, Len(b)>>
  BY Zenon
<1>3. e[1] = n /\ e[2] = Len(b) /\ j \in 1..e[2]
  BY <1>2
<1>4. <<n, d>> = <<e[1], b[j]>>
  BY <1>1, <1>3, Zenon
<1> QED BY <1>3, <1>4, PairsIn, Zenon

\* A block appended leaves what the entries reached.
LEMMA PairsAppended ==
  ASSUME NEW b \in Seq(Nat), NEW block \in Seq(Nat), NEW own,
         \A e \in own : e[2] \in Nat /\ e[2] <= Len(b)
  PROVE  PrivatePairs(b, own) \subseteq PrivatePairs(b \o block, own)
<1> SUFFICES ASSUME NEW x \in PrivatePairs(b, own) PROVE x \in PrivatePairs(b \o block, own)
  BY Zenon
<1>0. x \in PrivatePairs(b, own) <=> \E e \in own : \E j \in 1..e[2] : x = <<e[1], b[j]>>
  BY PairsIn
<1> PICK e \in own : \E j \in 1..e[2] : x = <<e[1], b[j]>>
  BY <1>0, Zenon
<1>1. PICK j \in 1..e[2] : x = <<e[1], b[j]>>
  BY Zenon
<1>2. e[2] \in Nat /\ e[2] <= Len(b)
  BY Zenon
<1>3. (b \o block)[j] = b[j]
  BY <1>2
<1> QED BY <1>1, <1>3, PairsIn, Zenon

\* An entry limited to a buffer's length reaches all it held, whatever follows.
LEMMA PairsBefore ==
  ASSUME NEW b \in Seq(Nat), NEW block \in Seq(Nat), NEW d \in DocSet(b),
         NEW nodes, NEW n \in nodes
  PROVE  <<n, d>> \in PrivatePairs(b \o block, nodes \X {Len(b)})
<1>1. <<n, Len(b)>> \in nodes \X {Len(b)}
  BY Zenon
<1>2. <<n, d>> \in PrivatePairs(b, nodes \X {Len(b)})
  BY <1>1, PairsWhole, Zenon
<1>3. \A e \in nodes \X {Len(b)} : e[2] \in Nat /\ e[2] <= Len(b)
  OBVIOUS
<1> QED BY <1>2, <1>3, PairsAppended, Zenon

----------------------------------------------------------------------------
(* What the steps leave owed in the slots *)

\* A slot untouched owes what it did, while the log keeps its entries.
LEMMA SlotStays ==
  ASSUME NEW i \in Slots, InWindow(i)' = InWindow(i), \A t \in InWindow(i) : read'[t] = read[t],
         docs'[i] = docs[i], private'[i] = private[i], slice'[i] = slice[i],
         UNCHANGED <<log, base>>, NEW n, NEW d, SlotOwes(i, n, d)
  PROVE  SlotOwes(i, n, d)'
<1>1. Since(slice[i])' = Since(slice[i]) /\ End' = End
  BY Zenon DEF Since, End
<1>2. CASE \E t \in InWindow(i) :
             \/ <<n, d>> \in PrivatePairs(docs[i], read[t].nodes \X {read[t].before})
             \/ n \in {log[p] : p \in read[t].end + 1 .. End}
  BY <1>1, <1>2, Zenon DEF SlotOwes
<1>3. CASE InWindow(i) = {} /\ n \in Since(slice[i])
  BY <1>1, <1>3, Zenon DEF SlotOwes
<1> QED BY <1>2, <1>3, Zenon DEF SlotOwes

\* An operation on the log takes nothing from what an occupied slot owes, and
\* its own delete is owed there.
LEMMA SlotLogs ==
  ASSUME DeleteOrder, LogBounds, NEW b \in BOOLEAN, LogOperation(b),
         NEW i \in Slots, InWindow(i)' = InWindow(i), \A t \in InWindow(i) : read'[t] = read[t],
         docs'[i] = docs[i], private'[i] = private[i], slice'[i] = slice[i], docs[i] # <<>>,
         NEW n, NEW d, SlotOwes(i, n, d) \/ (b /\ n = next_seq)
  PROVE  SlotOwes(i, n, d)'
<1>1. /\ log' \in Seq(Nat) /\ base' \in Nat /\ slice[i] \in Nat /\ slice[i] <= End
      /\ log \in Seq(Nat) /\ End = Len(log) /\ End \in Nat /\ End' = Len(log')
  BY LogGrows, OrderTypes, PositionTypes, Zenon DEF LogBounds, End
<1>2. Since(slice[i])' = Entries(log', base', slice[i])
  BY <1>1, EntriesSince, Zenon DEF Since, End
<1>3. CASE <<n, d>> \in PrivatePairs(docs[i], private[i])
  BY <1>3, Zenon DEF SlotOwes
<1>4. CASE InWindow(i) = {} /\ (n \in Since(slice[i]) \/ (b /\ n = next_seq))
  <2>1. base' = base \/ base' <= slice[i]
    <3>1. slices[i] <= slice[i] /\ slices[i] \in Nat
      BY <1>4, PositionTypes, Zenon DEF LogBounds
    <3>2. base' = base \/ (base' <= slices[i] /\ base' \in Nat)
      BY TrimBound, Zenon DEF LogBounds, LogOperation
    <3> QED BY <1>1, <3>1, <3>2
  <2>2. n \in Entries(log', base', slice[i])
    BY <1>1, <1>4, <2>1, LogGrows, Zenon
  <2> QED BY <1>2, <1>4, <2>2, Zenon DEF SlotOwes
<1>5. ASSUME NEW t \in InWindow(i),
             <<n, d>> \in PrivatePairs(docs[i], read[t].nodes \X {read[t].before})
      PROVE  SlotOwes(i, n, d)'
  BY <1>5, Zenon DEF SlotOwes
<1>6. ASSUME NEW t \in InWindow(i),
             n \in {log[p] : p \in read[t].end + 1 .. End} \/ (b /\ n = next_seq)
      PROVE  SlotOwes(i, n, d)'
  <2>1. t \in Threads /\ read[t].end <= End /\ read[t].end \in Nat
    BY PositionTypes, Zenon DEF InWindow, LogBounds
  <2>2. log' = IF b THEN Append(log, next_seq) ELSE log
    BY Zenon DEF LogOperation
  <2>3. \E p \in read[t].end + 1 .. End' : n = log'[p]
    <3>1. CASE b /\ n = next_seq
      <4>1. End + 1 \in read[t].end + 1 .. End' /\ log'[End + 1] = next_seq
        BY <1>1, <2>1, <2>2, <3>1
      <4> QED BY <3>1, <4>1, Zenon
    <3>2. ASSUME NEW p \in read[t].end + 1 .. End, n = log[p] PROVE \E q \in read[t].end + 1 .. End' : n = log'[q]
      <4>1. p \in read[t].end + 1 .. End' /\ log'[p] = log[p]
        BY <1>1, <2>1, <2>2, <3>2
      <4> QED BY <3>2, <4>1, Zenon
    <3> QED BY <1>6, <3>1, <3>2, Zenon
  <2> QED BY <2>3 DEF SlotOwes
<1>7. CASE b /\ n = next_seq
  BY <1>4, <1>6, <1>7, Zenon
<1> QED BY <1>3, <1>4, <1>5, <1>6, <1>7, Zenon DEF SlotOwes

----------------------------------------------------------------------------
(* What the steps leave owed in tickets and segments *)

\* A ticket that takes what was not handed over owes it to everything before.
LEMMA TakenOwed ==
  ASSUME DeleteOrder, NEW k, k.no = next_ticket, k.packet = Unhanded,
         tickets' = tickets \union {k}, UNCHANGED <<segs, stream>>, NEW n, NEW d
  PROVE  /\ \A m \in tickets : TicketOwes(m, n, d) => TicketOwes(m, n, d)'
         /\ \A s \in segs : SegmentOwes(s, n, d) => SegmentOwes(s, n, d)'
<1>1. ASSUME NEW m \in tickets, TicketOwes(m, n, d) PROVE TicketOwes(m, n, d)'
  <2>1. m.no \in Nat /\ next_ticket \in Nat /\ m.no < next_ticket
    BY TicketFields, Types, Zenon DEF TicketTypeOK, DeleteOrder, TicketNumbers
  <2>2. k.no > m.no
    BY <2>1
  <2>3. CASE \E r \in tickets : r.no > m.no /\ n \in r.packet
    BY <2>3, Zenon DEF TicketOwes
  <2>4. CASE n \in Unhanded
    BY <2>2, <2>4, Zenon DEF TicketOwes
  <2> QED BY <1>1, <2>3, <2>4, Zenon DEF TicketOwes
<1>2. ASSUME NEW s \in segs, SegmentOwes(s, n, d) PROVE SegmentOwes(s, n, d)'
  <2>1. CASE \E q \in stream : AppliesTo(q, s) /\ n \in q.nodes
    BY <2>1, Zenon DEF SegmentOwes, AppliesTo
  <2>2. CASE \E r \in tickets : n \in r.packet
    BY <2>2, Zenon DEF SegmentOwes
  <2>3. CASE n \in Unhanded
    BY <2>3, Zenon DEF SegmentOwes
  <2> QED BY <1>2, <2>1, <2>2, <2>3, Zenon DEF SegmentOwes
<1> QED BY <1>1, <1>2, Zenon

\* What tickets and segments owe is kept while the log keeps what was not
\* handed over, and they are owed what is logged.
LEMMA LoggedOwed ==
  ASSUME UNCHANGED <<tickets, segs, stream>>, NEW n, NEW d,
         n \in Unhanded => n \in Unhanded'
  PROVE  /\ \A m \in tickets : TicketOwes(m, n, d) \/ n \in Unhanded' => TicketOwes(m, n, d)'
         /\ \A s \in segs : SegmentOwes(s, n, d) \/ n \in Unhanded' => SegmentOwes(s, n, d)'
<1>1. ASSUME NEW m \in tickets, TicketOwes(m, n, d) \/ n \in Unhanded' PROVE TicketOwes(m, n, d)'
  BY <1>1, Zenon DEF TicketOwes
<1>2. ASSUME NEW s \in segs, SegmentOwes(s, n, d) \/ n \in Unhanded' PROVE SegmentOwes(s, n, d)'
  BY <1>2, Zenon DEF SegmentOwes, AppliesTo
<1> QED BY <1>1, <1>2, Zenon

\* r holds what s holds and what the packets of P not left over owe it.
TakesOver(r, s, P, left) ==
    /\ r.docs = s.docs /\ r.gen = s.gen /\ s.dels \subseteq r.dels
    /\ \A q \in P : AppliesTo(q, s) =>
         q \in left \/ \A n \in q.nodes, d \in s.docs : <<n, d>> \in r.dels

\* Applying the stream, wholly or in part, takes no delete from a segment: a
\* packet that applies to it is resolved there or stays in the stream.
LEMMA ApplyOwes ==
  ASSUME NEW S \in SUBSET SegmentType, NEW P \in Packets,
         ApplyAll(S, P) \/ ApplySome(S, P), NEW s \in S
  PROVE  \E r \in segs' : TakesOver(r, s, P, stream')
<1>1. PICK r : r = Resolved(s, P)
  BY Zenon
<1>2. r.docs = s.docs /\ r.gen = s.gen
  BY <1>1, ResolvedType, Zenon
<1>3. PICK R : R = UNION {p.nodes : p \in {q \in P : AppliesTo(q, s)}}
  BY Zenon
<1>4. r = [s EXCEPT !.dels = s.dels \union (R \X s.docs)]
  BY <1>1, <1>3, Zenon DEF Resolved
<1>5. s \in SegmentType /\ r.dels = s.dels \union (R \X s.docs)
  BY <1>4 DEF SegmentType
<1>6. \A q \in P : AppliesTo(q, s) => \A n \in q.nodes, d \in s.docs : <<n, d>> \in r.dels
  <2>1. ASSUME NEW q \in P, AppliesTo(q, s), NEW n \in q.nodes PROVE n \in R
    BY <1>3, <2>1, Zenon
  <2> QED BY <1>5, <2>1, Zenon
<1>7. CASE r \in segs'
  BY <1>2, <1>5, <1>6, <1>7, Zenon DEF TakesOver
<1>8. CASE ApplyAll(S, P)
  <2>1. r \in segs'
    BY <1>1, <1>8, Zenon DEF ApplyAll
  <2> QED BY <1>7, <2>1, Zenon
<1>9. CASE ApplySome(S, P)
  <2>1. PICK done \in SUBSET S : segs' = (S \ done) \union {Resolved(x, P) : x \in done}
    BY <1>9, Zenon DEF ApplySome
  <2>2. stream' = P
    BY <1>9, Zenon DEF ApplySome
  <2>3. s \in segs' \/ r \in segs'
    BY <1>1, <2>1, Zenon
  <2>4. TakesOver(s, s, P, stream')
    BY <2>2, Zenon DEF TakesOver
  <2> QED BY <1>7, <2>3, <2>4, Zenon
<1> QED BY <1>8, <1>9, Zenon

\* So what a segment is owed, its resolved form is owed, tickets and the log
\* keeping theirs.
LEMMA AppliedOwed ==
  ASSUME NEW S \in SUBSET SegmentType, NEW P \in Packets,
         ApplyAll(S, P) \/ ApplySome(S, P), NEW s \in S, NEW n, NEW d \in s.docs,
         \/ <<n, d>> \in s.dels
         \/ \E q \in P : AppliesTo(q, s) /\ n \in q.nodes
         \/ \E k \in tickets' : n \in k.packet
         \/ n \in Unhanded'
  PROVE  \E r \in segs' : d \in r.docs /\ SegmentOwes(r, n, d)'
<1>0. PICK r \in segs' : TakesOver(r, s, P, stream')
  BY ApplyOwes, Zenon
<1>1. /\ r.docs = s.docs /\ r.gen = s.gen /\ s.dels \subseteq r.dels
      /\ \A q \in P : AppliesTo(q, s) =>
           q \in stream' \/ \A m \in q.nodes, e \in s.docs : <<m, e>> \in r.dels
  BY <1>0, Zenon DEF TakesOver
<1>2. d \in r.docs
  BY <1>1, Zenon
<1>3. ASSUME NEW q \in P, AppliesTo(q, s), n \in q.nodes PROVE SegmentOwes(r, n, d)'
  <2>1. AppliesTo(q, r)
    BY <1>1, <1>3, Zenon DEF AppliesTo
  <2>2. CASE q \in stream'
    BY <1>3, <2>1, <2>2, Zenon DEF SegmentOwes, AppliesTo
  <2>3. CASE <<n, d>> \in r.dels
    BY <2>3, Zenon DEF SegmentOwes
  <2> QED BY <1>1, <1>3, <2>2, <2>3, Zenon
<1>4. CASE <<n, d>> \in s.dels
  BY <1>1, <1>4, Zenon DEF SegmentOwes
<1>5. CASE \E k \in tickets' : n \in k.packet
  BY <1>2, <1>5, Zenon DEF SegmentOwes
<1>6. CASE n \in Unhanded'
  BY <1>2, <1>6, Zenon DEF SegmentOwes
<1> QED BY <1>2, <1>3, <1>4, <1>5, <1>6, Zenon

----------------------------------------------------------------------------
(* Each kind of step keeps what is owed *)

\* A delete takes nothing from what is owed, and is owed by every document.
LEMMA DeletesOwed ==
  ASSUME DeleteOrder, LogBounds, Deletes, NEW n, NEW d,
         \/ Owed(n, d)
         \/ /\ n = next_seq
            /\ \/ \E i \in Slots : d \in DocSet(docs[i])
               \/ \E k \in tickets : d \in DocSet(k.docs)
               \/ \E s \in segs : d \in s.docs
  PROVE  Owed(n, d)'
<1>1. /\ LogOperation(TRUE) /\ SameWindows /\ UNCHANGED <<docs, private, slice, tickets, segs, stream>>
  BY Zenon DEF Deletes, slotData, coreVars
<1>2. Unhanded \subseteq Unhanded' /\ next_seq \in Unhanded'
  <2>1. TRUE \in BOOLEAN
    BY Zenon
  <2>2. /\ Unhanded \subseteq Unhanded'
        /\ TRUE => next_seq \in Unhanded'
        /\ \A x \in Unhanded' : x \in Unhanded \/ x = next_seq
    BY <1>1, <2>1, UnhandedGrows, Zenon
  <2> QED BY <2>2, Zenon
<1>3. ASSUME NEW i \in Slots, d \in DocSet(docs[i]), SlotOwes(i, n, d) \/ n = next_seq
      PROVE  Owed(n, d)'
  <2>1. docs[i] # <<>>
    BY <1>3, EmptyDocSet, Zenon
  <2>2. InWindow(i)' = InWindow(i) /\ \A t \in InWindow(i) : read'[t] = read[t]
    BY <1>1, SameInWindow, Zenon DEF SameWindows, InWindow
  <2>3. TRUE \in BOOLEAN
    BY Zenon
  <2>4. SlotOwes(i, n, d)'
    BY <1>1, <1>3, <2>1, <2>2, <2>3, SlotLogs, Zenon
  <2> QED BY <1>1, <1>3, <2>4, Zenon DEF Owed
<1>4. ASSUME NEW m \in tickets, d \in DocSet(m.docs), TicketOwes(m, n, d) \/ n = next_seq
      PROVE  Owed(n, d)'
  <2>1. TicketOwes(m, n, d)'
    BY <1>1, <1>2, <1>4, LoggedOwed, Zenon
  <2> QED BY <1>1, <1>4, <2>1, Zenon DEF Owed
<1>5. ASSUME NEW s \in segs, d \in s.docs, SegmentOwes(s, n, d) \/ n = next_seq
      PROVE  Owed(n, d)'
  <2>1. SegmentOwes(s, n, d)'
    BY <1>1, <1>2, <1>5, LoggedOwed, Zenon
  <2> QED BY <1>1, <1>5, <2>1, Zenon DEF Owed
<1> QED BY <1>3, <1>4, <1>5, Zenon DEF Owed

\* Freezing a packet loses nothing.
LEMMA FreezesOwed ==
  ASSUME DeleteOrder, Freezes, NEW n, NEW d, Owed(n, d)
  PROVE  Owed(n, d)'
<1> DEFINE k == [no |-> next_ticket, docs |-> <<>>, packet |-> Unhanded, private |-> {}]
<1>1. /\ SameWindows /\ UNCHANGED <<log, base, docs, private, slice, segs, stream>>
      /\ tickets' = tickets \union {k}
  BY Zenon DEF Freezes, DeletesTicket, slotData, coreVars
<1>2. k.no = next_ticket /\ k.packet = Unhanded
  BY Zenon
<1> HIDE DEF k
<1>3. ASSUME NEW i \in Slots, d \in DocSet(docs[i]), SlotOwes(i, n, d) PROVE Owed(n, d)'
  <2>1. InWindow(i)' = InWindow(i) /\ \A t \in InWindow(i) : read'[t] = read[t]
    BY <1>1, SameInWindow, Zenon DEF SameWindows, InWindow
  <2>2. SlotOwes(i, n, d)'
    BY <1>1, <1>3, <2>1, SlotStays, Zenon
  <2> QED BY <1>1, <1>3, <2>2, Zenon DEF Owed
<1>4. ASSUME NEW m \in tickets, d \in DocSet(m.docs), TicketOwes(m, n, d) PROVE Owed(n, d)'
  <2>1. TicketOwes(m, n, d)'
    BY <1>1, <1>2, <1>4, TakenOwed, Zenon
  <2> QED BY <1>1, <1>4, <2>1, Zenon DEF Owed
<1>5. ASSUME NEW s \in segs, d \in s.docs, SegmentOwes(s, n, d) PROVE Owed(n, d)'
  <2>1. SegmentOwes(s, n, d)'
    BY <1>1, <1>2, <1>5, TakenOwed, Zenon
  <2> QED BY <1>1, <1>5, <2>1, Zenon DEF Owed
<1> QED BY <1>3, <1>4, <1>5, Zenon DEF Owed

\* begin_flush loses nothing: what the slot owed its documents, closing its
\* slice puts among the ticket's own deletes.
LEMMA FlushesOwed ==
  ASSUME DeleteOrder, Flushes, NEW n, NEW d, Owed(n, d)
  PROVE  Owed(n, d)'
<1>0. PICK i \in Slots, p \in 0..Partitions, q \in SUBSET Slots : InWindow(i) = {} /\ BeginFlush(i, p, q)
  BY Zenon DEF Flushes
<1> DEFINE k == [no |-> next_ticket, docs |-> docs[i], private |-> ClosedPrivate(i),
                 packet |-> Unhanded]
<1>1. /\ SameWindows /\ UNCHANGED <<log, base, segs, stream>> /\ tickets' = tickets \union {k}
      /\ docs' = [docs EXCEPT ![i] = <<>>] /\ private' = [private EXCEPT ![i] = {}]
      /\ slice' = [slice EXCEPT ![i] = End]
  BY <1>0, Zenon DEF Flushes, BeginFlush, coreVars
<1>2. k.no = next_ticket /\ k.packet = Unhanded /\ k.docs = docs[i] /\ k.private = ClosedPrivate(i)
  BY Zenon
<1> HIDE DEF k
<1>3. /\ docs \in [Slots -> Seq(Nat)] /\ slice \in [Slots -> Nat]
      /\ private \in [Slots -> SUBSET (Nat \X Nat)]
  BY Types, Zenon DEF SlotTypeOK
<1>4. ASSUME d \in DocSet(docs[i]), SlotOwes(i, n, d) PROVE Owed(n, d)'
  <2>1. <<n, d>> \in PrivatePairs(docs[i], private[i]) \/ n \in Since(slice[i])
    BY <1>0, <1>4, Zenon DEF SlotOwes
  <2>2. private[i] \subseteq ClosedPrivate(i)
    BY Zenon DEF ClosedPrivate
  <2>3. n \in Since(slice[i]) => <<n, Len(docs[i])>> \in ClosedPrivate(i)
    BY Zenon DEF ClosedPrivate
  <2>4. docs[i] \in Seq(Nat)
    BY <1>3, Zenon
  <2>5. CASE <<n, d>> \in PrivatePairs(docs[i], private[i])
    <3>1. <<n, d>> \in PrivatePairs(docs[i], ClosedPrivate(i))
      BY <2>2, <2>5, PairsMore, Zenon
    <3> QED BY <1>1, <1>2, <1>4, <3>1, Zenon DEF Owed, TicketOwes
  <2>6. CASE n \in Since(slice[i])
    <3>1. <<n, d>> \in PrivatePairs(docs[i], ClosedPrivate(i))
      BY <1>4, <2>3, <2>4, <2>6, PairsWhole, Zenon
    <3> QED BY <1>1, <1>2, <1>4, <3>1, Zenon DEF Owed, TicketOwes
  <2> QED BY <2>1, <2>5, <2>6, Zenon
<1>5. ASSUME NEW j \in Slots, d \in DocSet(docs[j]), SlotOwes(j, n, d), j # i PROVE Owed(n, d)'
  <2>1. InWindow(j)' = InWindow(j) /\ \A t \in InWindow(j) : read'[t] = read[t]
    BY <1>1, SameInWindow, Zenon DEF SameWindows, InWindow
  <2>2. docs'[j] = docs[j] /\ private'[j] = private[j] /\ slice'[j] = slice[j]
    BY <1>1, <1>3, <1>5, Zenon
  <2>3. SlotOwes(j, n, d)'
    BY <1>1, <1>5, <2>1, <2>2, SlotStays, Zenon
  <2> QED BY <1>5, <2>2, <2>3, Zenon DEF Owed
<1>6. ASSUME NEW m \in tickets, d \in DocSet(m.docs), TicketOwes(m, n, d) PROVE Owed(n, d)'
  <2>1. TicketOwes(m, n, d)'
    BY <1>1, <1>2, <1>6, TakenOwed, Zenon
  <2> QED BY <1>1, <1>6, <2>1, Zenon DEF Owed
<1>7. ASSUME NEW s \in segs, d \in s.docs, SegmentOwes(s, n, d) PROVE Owed(n, d)'
  <2>1. SegmentOwes(s, n, d)'
    BY <1>1, <1>2, <1>7, TakenOwed, Zenon
  <2> QED BY <1>1, <1>7, <2>1, Zenon DEF Owed
<1> QED BY <1>4, <1>5, <1>6, <1>7, Zenon DEF Owed

\* An add loses nothing: the slot's own entries keep their limits, what it had
\* not seen is copied with the limit of the documents it held, and its update's
\* delete is owed by every document before it.
LEMMA AddsOwed ==
  ASSUME DeleteOrder, LogBounds, NEW t \in Threads, NEW i \in Slots, NEW p \in 0..Partitions,
         NEW c \in 1..MaxBlock, NEW b \in BOOLEAN, pc[t] # "apply", InWindow(i) = {},
         Buffer(t, i, p, c, b), NEW n, NEW d,
         \/ Owed(n, d)
         \/ /\ b /\ n = next_seq
            /\ \/ \E j \in Slots : d \in DocSet(docs[j])
               \/ \E k \in tickets : d \in DocSet(k.docs)
               \/ \E s \in segs : d \in s.docs
  PROVE  Owed(n, d)'
<1> DEFINE block == [j \in 1..c |-> next_seq]
<1>1. /\ LogOperation(b) /\ UNCHANGED <<private, slice, tickets, segs, stream>>
      /\ docs' = [docs EXCEPT ![i] = docs[i] \o block]
  BY Zenon DEF Buffer, ticketVars, coreVars
<1>2. /\ InWindow(i)' = {t}
      /\ \A j \in Slots \ {i} : InWindow(j)' = InWindow(j)
      /\ \A j \in Slots \ {i} : docs'[j] = docs[j]
      /\ \A u \in Threads \ {t} : pc'[u] = pc[u] /\ at'[u] = at[u] /\ read'[u] = read[u]
  BY AddWindows, Zenon
<1>3. /\ docs \in [Slots -> Seq(Nat)] /\ read \in [Threads -> LogRead]
      /\ next_seq \in Nat /\ c \in Nat /\ c \in Nat \ {0}
  BY PositionTypes, OrderTypes
<1>4. block \in Seq(Nat) /\ docs[i] \in Seq(Nat) /\ docs'[i] = docs[i] \o block
  BY <1>1, <1>3, BlockType, Zenon
<1>5. DocSet(docs'[i]) = DocSet(docs[i]) \union {next_seq}
  BY <1>3, <1>4, BlockDocSet, Zenon
<1> HIDE DEF block
<1>6. Unhanded \subseteq Unhanded' /\ (b => next_seq \in Unhanded')
  BY <1>1, UnhandedGrows, Zenon
<1>7. ASSUME d \in DocSet(docs[i]), SlotOwes(i, n, d) \/ (b /\ n = next_seq)
      PROVE  Owed(n, d)'
  <2>1. d \in DocSet(docs'[i])
    BY <1>5, <1>7, Zenon
  <2>2. CASE <<n, d>> \in PrivatePairs(docs[i], private[i])
    <3>1. \A e \in private[i] : e[2] \in Nat /\ e[2] <= Len(docs[i])
      BY SlotFacts, Zenon
    <3>2. <<n, d>> \in PrivatePairs(docs'[i], private[i])
      BY <1>4, <2>2, <3>1, PairsAppended, Zenon
    <3> QED BY <1>1, <2>1, <3>2, Zenon DEF Owed, SlotOwes
  <2>3. CASE n \in Since(slice[i]) \/ (b /\ n = next_seq)
    <3>1. docs[i] # <<>>
      BY <1>7, EmptyDocSet, Zenon
    <3>2. Len(docs[i]) # 0 /\ Len(docs[i]) > 0
      BY <1>4, <3>1
    <3>3. read'[t].before = Len(docs[i]) /\ n \in read'[t].nodes
      <4>1. PICK nodes : /\ nodes = IF b /\ Len(docs[i]) > 0 THEN Since(slice[i]) \union {next_seq}
                                                               ELSE Since(slice[i])
        BY Zenon
      <4>2. read' = [read EXCEPT ![t] = [before |-> Len(docs[i]), nodes |-> nodes, end |-> Len(log')]]
        BY <3>2, <4>1 DEF Buffer
      <4>3. read'[t] = [before |-> Len(docs[i]), nodes |-> nodes, end |-> Len(log')]
        BY <1>3, <4>2, Zenon
      <4>4. n \in nodes
        BY <2>3, <3>2, <4>1, Zenon
      <4> QED BY <4>3, <4>4
    <3>4. <<n, d>> \in PrivatePairs(docs'[i], read'[t].nodes \X {read'[t].before})
      BY <1>4, <1>7, <3>3, PairsBefore, Zenon
    <3>5. SlotOwes(i, n, d)'
      BY <1>2, <3>4, Zenon DEF SlotOwes
    <3> QED BY <2>1, <3>5, Zenon DEF Owed
  <2> QED BY <1>7, <2>2, <2>3, Zenon DEF SlotOwes
<1>8. ASSUME NEW j \in Slots, j # i, d \in DocSet(docs[j]), SlotOwes(j, n, d) \/ (b /\ n = next_seq)
      PROVE  Owed(n, d)'
  <2>1. docs[j] # <<>> /\ docs'[j] = docs[j] /\ InWindow(j)' = InWindow(j)
    BY <1>2, <1>8, EmptyDocSet, Zenon
  <2>2. \A u \in InWindow(j) : read'[u] = read[u]
    BY <1>2, Zenon DEF InWindow
  <2>3. SlotOwes(j, n, d)'
    BY <1>1, <1>8, <2>1, <2>2, SlotLogs, Zenon
  <2> QED BY <1>8, <2>1, <2>3, Zenon DEF Owed
<1>9. ASSUME NEW m \in tickets, d \in DocSet(m.docs), TicketOwes(m, n, d) \/ (b /\ n = next_seq)
      PROVE  Owed(n, d)'
  <2>1. TicketOwes(m, n, d)'
    BY <1>1, <1>6, <1>9, LoggedOwed, Zenon
  <2> QED BY <1>1, <1>9, <2>1, Zenon DEF Owed
<1>10. ASSUME NEW s \in segs, d \in s.docs, SegmentOwes(s, n, d) \/ (b /\ n = next_seq)
       PROVE  Owed(n, d)'
  <2>1. SegmentOwes(s, n, d)'
    BY <1>1, <1>6, <1>10, LoggedOwed, Zenon
  <2> QED BY <1>1, <1>10, <2>1, Zenon DEF Owed
<1> QED BY <1>7, <1>8, <1>9, <1>10, Zenon DEF Owed

\* apply_slice loses nothing but what was trimmed since the log was read.
LEMMA AppliesOwed ==
  ASSUME DeleteOrder, NEW t \in Threads, ApplySlice(t), NEW n, NEW d, Owed(n, d),
         <<n, d>> \notin missed'
  PROVE  Owed(n, d)'
<1>1. PICK i : i = at[t]
  BY Zenon
<1>2. /\ i \in Slots /\ InWindow(i) = {t} /\ InWindow(i)' = {}
      /\ \A j \in Slots \ {i} : InWindow(j)' = InWindow(j)
      /\ UNCHANGED <<at, read>>
  BY <1>1, ApplyWindows, Zenon
<1>3. /\ private' = [private EXCEPT ![i] = private[i] \union (read[t].nodes \X {read[t].before})]
      /\ slice' = [slice EXCEPT ![i] = read[t].end]
      /\ missed' = missed \union ({log[p] : p \in read[t].end + 1 .. base} \X DocSet(docs[i]))
      /\ UNCHANGED <<log, base, handed, docs, tickets, segs, stream>>
  BY <1>1, Zenon DEF ApplySlice, Limit, ticketVars, coreVars
<1>4. /\ slice \in [Slots -> Nat] /\ private \in [Slots -> SUBSET (Nat \X Nat)]
      /\ read[t].end \in Nat /\ base \in Nat /\ log \in Seq(Nat) /\ End = Len(log)
  BY Types, PositionTypes, OrderTypes, Zenon DEF SlotTypeOK
<1>5. /\ private'[i] = private[i] \union (read[t].nodes \X {read[t].before})
      /\ slice'[i] = read[t].end
      /\ \A j \in Slots : j # i => private'[j] = private[j] /\ slice'[j] = slice[j]
  BY <1>2, <1>3, <1>4, Zenon
<1>6. ASSUME d \in DocSet(docs[i]), SlotOwes(i, n, d) PROVE SlotOwes(i, n, d)'
  <2>1. CASE <<n, d>> \in PrivatePairs(docs[i], private[i])
    <3>1. <<n, d>> \in PrivatePairs(docs[i], private'[i])
      BY <1>5, <2>1, PairsMore, Zenon
    <3> QED BY <1>3, <3>1, Zenon DEF SlotOwes
  <2>2. CASE <<n, d>> \in PrivatePairs(docs[i], read[t].nodes \X {read[t].before})
    <3>1. <<n, d>> \in PrivatePairs(docs[i], private'[i])
      BY <1>5, <2>2, PairsMore, Zenon
    <3> QED BY <1>3, <3>1, Zenon DEF SlotOwes
  <2>3. ASSUME NEW p \in read[t].end + 1 .. End, n = log[p] PROVE SlotOwes(i, n, d)'
    <3>1. p > base
      <4>1. SUFFICES ASSUME ~(p > base) PROVE FALSE
        BY Zenon
      <4>2. p \in read[t].end + 1 .. base
        BY <1>4, <4>1
      <4> QED BY <1>3, <1>6, <2>3, <4>2, Zenon
    <3>2. p \in DOMAIN log /\ p > read[t].end
      BY <1>4
    <3>3. n \in Entries(log, base, read[t].end)
      BY <2>3, <3>1, <3>2, Zenon DEF Entries
    <3>4. Since(slice[i])' = Entries(log, base, read[t].end)
      <4>1. Since(slice[i])' = Since(read[t].end)
        BY <1>3, <1>5 DEF Since, End
      <4> QED BY <1>4, <4>1, SinceEntries, Zenon
    <3> QED BY <1>2, <3>3, <3>4, Zenon DEF SlotOwes
  <2> QED BY <1>2, <1>6, <2>1, <2>2, <2>3, Zenon DEF SlotOwes
<1>7. ASSUME NEW j \in Slots, d \in DocSet(docs[j]), SlotOwes(j, n, d) PROVE Owed(n, d)'
  <2>1. CASE j = i
    BY <1>3, <1>6, <1>7, <2>1, Zenon DEF Owed
  <2>2. CASE j # i
    <3>1. InWindow(j)' = InWindow(j) /\ \A u \in InWindow(j) : read'[u] = read[u]
      BY <1>2, <2>2, Zenon
    <3>2. docs'[j] = docs[j] /\ private'[j] = private[j] /\ slice'[j] = slice[j]
      BY <1>3, <1>5, <2>2, Zenon
    <3>3. SlotOwes(j, n, d)'
      BY <1>3, <1>7, <3>1, <3>2, SlotStays, Zenon
    <3> QED BY <1>3, <1>7, <3>3, Zenon DEF Owed
  <2> QED BY <2>1, <2>2, Zenon
<1>8. Unhanded' = Unhanded
  BY <1>3, Zenon DEF Unhanded, Since, End
<1>9. ASSUME NEW m \in tickets, d \in DocSet(m.docs), TicketOwes(m, n, d) PROVE Owed(n, d)'
  <2>1. TicketOwes(m, n, d)'
    BY <1>3, <1>8, <1>9, LoggedOwed, Zenon
  <2> QED BY <1>3, <1>9, <2>1, Zenon DEF Owed
<1>10. ASSUME NEW s \in segs, d \in s.docs, SegmentOwes(s, n, d) PROVE Owed(n, d)'
  <2>1. SegmentOwes(s, n, d)'
    BY <1>3, <1>8, <1>10, LoggedOwed, Zenon
  <2> QED BY <1>3, <1>10, <2>1, Zenon DEF Owed
<1> QED BY <1>7, <1>9, <1>10, Zenon DEF Owed

\* Slots and the log unchanged, and the windows: the slots owe what they did.
LEMMA SlotsOwed ==
  ASSUME SameWindows, UNCHANGED <<log, base, docs, private, slice>>, NEW n, NEW d,
         NEW i \in Slots, d \in DocSet(docs[i]), SlotOwes(i, n, d)
  PROVE  Owed(n, d)'
<1>1. InWindow(i)' = InWindow(i) /\ \A t \in InWindow(i) : read'[t] = read[t]
  BY SameInWindow, Zenon DEF SameWindows, InWindow
<1>2. SlotOwes(i, n, d)'
  BY <1>1, SlotStays, Zenon
<1> QED BY <1>2, Zenon DEF Owed

\* Publishing a ticket loses nothing: its segment has the ticket's own deletes
\* and joins above its packet, which goes to every segment before it; if its
\* build failed, its documents are gone.
LEMMA PublishesOwed ==
  ASSUME DeleteOrder, NEW t \in Threads, NEW k \in tickets, Publishes(t, k),
         NEW n, NEW d \in adds', Owed(n, d)
  PROVE  Owed(n, d)'
<1>1. SameWindows /\ UNCHANGED <<log, base, handed, docs, private, slice>>
  BY ViewSteps, Zenon DEF logVars, slotData
<1>2. tickets' = tickets \ {k} /\ k.no = next_publish /\ Unhanded' = Unhanded
  <2>1. tickets' = tickets \ {k} /\ k.no = next_publish
    BY PublishRetires, Zenon DEF Retire
  <2> QED BY <1>1, <2>1, Zenon DEF Unhanded, Since, End
<1>3. \A m \in tickets : m.no \in Nat /\ k.no <= m.no
  BY <1>2, TicketFields, Zenon DEF DeleteOrder, TicketNumbers
<1>4. PICK P : P = Pushed(k.packet)
  BY Zenon
<1>5. /\ P \in Packets /\ stream \subseteq P /\ segs \subseteq SegmentType /\ View(k) \subseteq SegmentType
      /\ n \in k.packet => [gen |-> next_gen, nodes |-> k.packet] \in P
  <2>1. P \in Packets
    BY <1>4, PushedType, TicketFields, Types, Zenon
  <2>2. segs \subseteq SegmentType /\ View(k) \subseteq SegmentType
    BY OrderTypes, SegmentFields, Zenon
  <2>3. stream \subseteq P
    BY <1>4, Zenon DEF Pushed
  <2>4. n \in k.packet => [gen |-> next_gen, nodes |-> k.packet] \in P
    BY <1>4, Zenon DEF Pushed
  <2> QED BY <2>1, <2>2, <2>3, <2>4, Zenon
<1>6. PICK S \in SUBSET SegmentType :
        /\ segs \subseteq S /\ (ApplyAll(S, P) \/ ApplySome(S, P))
        /\ d \in DocSet(k.docs) => Segment(k) \in S
  <2>1. CASE Publish(t, k) \/ PublishApplyFails(t, k)
    <3>1. ApplyAll(View(k), P) \/ ApplySome(View(k), P)
      BY <1>4, <2>1, Zenon DEF Publish, PublishApplyFails, ApplyPackets, ApplyPacketsFails
    <3>2. segs \subseteq View(k) /\ (k.docs # <<>> => Segment(k) \in View(k))
      BY Zenon DEF View
    <3>3. d \in DocSet(k.docs) => k.docs # <<>>
      BY EmptyDocSet, Zenon
    <3> QED BY <1>5, <3>1, <3>2, <3>3, Zenon
  <2>2. CASE Abandon(t, k)
    <3>1. d \notin DocSet(k.docs)
      BY <2>2, Zenon DEF Abandon
    <3>2. ApplyAll(segs, P) \/ ApplySome(segs, P)
      BY <1>4, <2>2, Zenon DEF Abandon, AbandonedPacket
    <3> QED BY <1>5, <3>1, <3>2, Zenon
  <2> QED BY <2>1, <2>2, Zenon DEF Publishes
<1>7. ASSUME NEW s \in S, d \in s.docs,
             \/ <<n, d>> \in s.dels
             \/ \E q \in P : AppliesTo(q, s) /\ n \in q.nodes
             \/ \E m \in tickets' : n \in m.packet
             \/ n \in Unhanded'
      PROVE  Owed(n, d)'
  <2>1. \E r \in segs' : d \in r.docs /\ SegmentOwes(r, n, d)'
    BY <1>5, <1>6, <1>7, AppliedOwed, Zenon
  <2> QED BY <2>1, Zenon DEF Owed
<1>8. ASSUME NEW s \in segs, d \in s.docs, SegmentOwes(s, n, d) PROVE Owed(n, d)'
  <2>1. s \in S
    BY <1>6, Zenon
  <2>2. CASE <<n, d>> \in s.dels \/ n \in Unhanded
    BY <1>2, <1>7, <1>8, <2>1, <2>2, Zenon
  <2>3. CASE \E q \in stream : AppliesTo(q, s) /\ n \in q.nodes
    <3>1. \E q \in P : AppliesTo(q, s) /\ n \in q.nodes
      BY <1>5, <2>3, Zenon
    <3> QED BY <1>7, <1>8, <2>1, <3>1, Zenon
  <2>4. CASE n \in k.packet
    <3>1. PICK q \in P : q = [gen |-> next_gen, nodes |-> k.packet]
      BY <1>5, <2>4, Zenon
    <3>2. s.gen \in Nat /\ next_gen \in Nat /\ s.gen < next_gen
      BY <1>5, OrderTypes, Zenon DEF DeleteOrder, SegmentOrder, SegmentType
    <3>3. q.gen = next_gen /\ q.nodes = k.packet
      BY <3>1
    <3>4. AppliesTo(q, s)
      BY <3>2, <3>3 DEF AppliesTo
    <3>5. \E x \in P : AppliesTo(x, s) /\ n \in x.nodes
      BY <2>4, <3>3, <3>4, Zenon
    <3> QED BY <1>7, <1>8, <2>1, <3>5, Zenon
  <2>5. CASE \E m \in tickets : m # k /\ n \in m.packet
    <3>1. \E m \in tickets' : n \in m.packet
      BY <1>2, <2>5, Zenon
    <3> QED BY <1>7, <1>8, <2>1, <3>1, Zenon
  <2> QED BY <1>8, <2>2, <2>3, <2>4, <2>5, Zenon DEF SegmentOwes
<1>9. ASSUME NEW m \in tickets, d \in DocSet(m.docs), TicketOwes(m, n, d) PROVE Owed(n, d)'
  <2>1. ASSUME NEW r \in tickets, r.no > m.no PROVE r \in tickets'
    <3>1. r.no # k.no
      BY <1>3, <2>1
    <3> QED BY <1>2, <3>1, Zenon
  <2>2. CASE m # k
    <3>1. TicketOwes(m, n, d)'
      <4>1. CASE \E r \in tickets : r.no > m.no /\ n \in r.packet
        BY <2>1, <4>1, Zenon DEF TicketOwes
      <4>2. CASE <<n, d>> \in PrivatePairs(m.docs, m.private) \/ n \in Unhanded
        BY <1>2, <4>2, Zenon DEF TicketOwes
      <4> QED BY <1>9, <4>1, <4>2, Zenon DEF TicketOwes
    <3>2. m \in tickets'
      BY <1>2, <2>2, Zenon
    <3> QED BY <1>9, <3>1, <3>2, Zenon DEF Owed
  <2>3. CASE m = k
    <3>1. PICK s \in S : s = Segment(k)
      BY <1>6, <1>9, <2>3, Zenon
    <3>2. s.docs = DocSet(k.docs) /\ s.dels = PrivatePairs(k.docs, k.private)
      BY <3>1 DEF Segment
    <3>3. d \in s.docs
      BY <1>9, <2>3, <3>2, Zenon
    <3>4. CASE \E r \in tickets : r.no > m.no /\ n \in r.packet
      <4>1. \E r \in tickets' : n \in r.packet
        BY <2>1, <3>4, Zenon
      <4> QED BY <1>7, <3>3, <4>1, Zenon
    <3>5. CASE <<n, d>> \in PrivatePairs(m.docs, m.private) \/ n \in Unhanded
      BY <1>2, <1>7, <2>3, <3>2, <3>3, <3>5, Zenon
    <3> QED BY <1>9, <3>4, <3>5, Zenon DEF TicketOwes
  <2> QED BY <2>2, <2>3, Zenon
<1> QED BY <1>1, <1>8, <1>9, SlotsOwed, Zenon DEF Owed

\* A commit, whatever its outcome, loses nothing.
LEMMA CommitOwed ==
  ASSUME DeleteOrder, NEW t \in Threads, Commit(t), NEW n, NEW d, Owed(n, d)
  PROVE  Owed(n, d)'
<1>1. SameWindows /\ UNCHANGED <<log, base, handed, docs, private, slice, tickets>>
  BY ViewSteps, Zenon DEF logVars, slotData, Commit, ticketVars
<1>2. Unhanded' = Unhanded
  BY <1>1, Zenon DEF Unhanded, Since, End
<1>3. ASSUME NEW m \in tickets, d \in DocSet(m.docs), TicketOwes(m, n, d) PROVE Owed(n, d)'
  BY <1>1, <1>2, <1>3, Zenon DEF Owed, TicketOwes
<1>4. ASSUME NEW s \in segs, d \in s.docs, SegmentOwes(s, n, d) PROVE Owed(n, d)'
  <2>1. CASE UNCHANGED coreVars
    <3>1. UNCHANGED <<segs, stream>>
      BY <2>1, Zenon DEF coreVars
    <3>2. SegmentOwes(s, n, d)'
      BY <1>1, <1>2, <1>4, <3>1, LoggedOwed, Zenon
    <3> QED BY <1>4, <3>1, <3>2, Zenon DEF Owed
  <2>2. CASE ApplyAll(segs, stream) \/ ApplySome(segs, stream)
    <3>1. segs \in SUBSET SegmentType /\ stream \in Packets
      BY OrderTypes, Zenon
    <3>2. \/ <<n, d>> \in s.dels
          \/ \E q \in stream : AppliesTo(q, s) /\ n \in q.nodes
          \/ \E m \in tickets' : n \in m.packet
          \/ n \in Unhanded'
      BY <1>1, <1>2, <1>4, Zenon DEF SegmentOwes
    <3>3. \E r \in segs' : d \in r.docs /\ SegmentOwes(r, n, d)'
      BY <1>4, <2>2, <3>1, <3>2, AppliedOwed, Zenon
    <3> QED BY <3>3, Zenon DEF Owed
  <2> QED BY <2>1, <2>2, Zenon DEF Commit, CommitSegments, PrepareFails, FinishFails,
               PrepareRefused, ApplyPackets, ApplyPacketsFails
<1> QED BY <1>1, <1>3, <1>4, SlotsOwed, Zenon DEF Owed

\* Dropping the buffers drops their documents; the others are owed what they were.
LEMMA AbortOwed ==
  ASSUME NEW t \in Threads, AbortSlots(t), NEW n, NEW d \in adds', Owed(n, d)
  PROVE  Owed(n, d)'
<1>1. /\ adds' = adds \ UNION {DocSet(docs[i]) : i \in Slots}
      /\ UNCHANGED <<log, base, handed, tickets, segs, stream>>
  BY Zenon DEF AbortSlots, ticketVars, coreVars
<1>2. \A i \in Slots : d \notin DocSet(docs[i])
  BY <1>1, Zenon
<1>3. Unhanded' = Unhanded
  BY <1>1, Zenon DEF Unhanded, Since, End
<1>4. ASSUME NEW m \in tickets, d \in DocSet(m.docs), TicketOwes(m, n, d) PROVE Owed(n, d)'
  <2>1. TicketOwes(m, n, d)'
    BY <1>1, <1>3, <1>4, LoggedOwed, Zenon
  <2> QED BY <1>1, <1>4, <2>1, Zenon DEF Owed
<1>5. ASSUME NEW s \in segs, d \in s.docs, SegmentOwes(s, n, d) PROVE Owed(n, d)'
  <2>1. SegmentOwes(s, n, d)'
    BY <1>1, <1>3, <1>5, LoggedOwed, Zenon
  <2> QED BY <1>1, <1>5, <2>1, Zenon DEF Owed
<1> QED BY <1>2, <1>4, <1>5, Zenon DEF Owed

\* The last commit has every delete up to its number applied.
CommitHolds ==
    \A s \in commit.segs : \A d \in s.docs, n \in dels :
      d < n /\ n <= commit.seq /\ <<n, d>> \notin missed => <<n, d>> \in s.dels

\* A drain loses no delete: delete_all drops every document, and a refused one
\* forgets the deletes it drops; a rollback goes back to a commit that has them.
LEMMA DrainOwed ==
  ASSUME DeleteOrder, Documents, CommitHolds, NEW t \in Threads, Drain(t),
         NEW n \in dels', NEW d \in adds', n > d, <<n, d>> \notin missed',
         d \in adds => Owed(n, d)
  PROVE  Owed(n, d)'
<1>1. /\ pc[t] = "drain" /\ next_publish = next_ticket /\ UNCHANGED <<log, missed, tickets>>
      /\ DropAll(t) \/ Rollback(t)
  BY Zenon DEF Drain, Drained, ClearLog, ticketVars
<1>2. tickets = {}
  BY <1>1, NoneOutstanding, Zenon
<1>3. \A i \in Slots : DocSet(docs[i]) = {}
  BY <1>1, EmptyDocSet, Zenon DEF Documents, Emptied
<1>4. CASE DropAll(t)
  <2>1. CASE adds' = {}
    BY <2>1, Zenon
  <2>2. CASE DropAllRefused /\ dels' = dels \ Unhanded /\ UNCHANGED adds
    <3>1. PICK s \in segs : d \in s.docs /\ SegmentOwes(s, n, d)
      BY <1>2, <1>3, <2>2, Zenon DEF Owed
    <3>2. n \notin Unhanded /\ UNCHANGED <<segs, stream>>
      BY <2>2, Zenon DEF DropAllRefused, coreVars
    <3>3. SegmentOwes(s, n, d)'
      BY <1>2, <3>1, <3>2, Zenon DEF SegmentOwes, AppliesTo
    <3> QED BY <3>1, <3>2, <3>3, Zenon DEF Owed
  <2> QED BY <1>4, <2>1, <2>2, Zenon DEF DropAll
<1>5. CASE RollbackFails /\ dels' = dels \ Unhanded /\ UNCHANGED adds
  <2>1. PICK s \in segs : d \in s.docs /\ SegmentOwes(s, n, d)
    BY <1>2, <1>3, <1>5, Zenon DEF Owed
  <2>2. n \notin Unhanded /\ UNCHANGED <<segs, stream>>
    BY <1>5, Zenon DEF RollbackFails
  <2>3. SegmentOwes(s, n, d)'
    BY <1>2, <2>1, <2>2, Zenon DEF SegmentOwes, AppliesTo
  <2> QED BY <2>1, <2>2, <2>3, Zenon DEF Owed
<1>6. CASE RollbackView /\ adds' = DocsOf(commit.segs) /\ dels' = {m \in dels : m <= commit.seq}
  <2>1. /\ segs' = commit.segs /\ adds' = DocsOf(commit.segs) /\ n \in dels /\ n <= commit.seq
    BY <1>6, Zenon DEF RollbackView
  <2>2. PICK s \in commit.segs : d \in s.docs
    BY <2>1, Zenon DEF DocsOf
  <2>3. commit.segs \subseteq SegmentType /\ s.docs \in SUBSET Nat
    BY OrderTypes, Zenon DEF SegmentType
  <2>4. d \in Nat /\ d < n
    BY <2>2, <2>3
  <2>5. <<n, d>> \in s.dels
    BY <1>1, <2>1, <2>2, <2>4, Zenon DEF CommitHolds
  <2> QED BY <2>1, <2>2, <2>5, Zenon DEF Owed, SegmentOwes
<1> QED BY <1>1, <1>4, <1>5, <1>6, Zenon DEF Rollback

\* Nothing changes: nothing is lost.
LEMMA QuietOwed ==
  ASSUME Quiet, NEW n, NEW d, Owed(n, d)
  PROVE  Owed(n, d)'
<1>1. SameWindows /\ UNCHANGED <<log, base, handed, docs, private, slice, tickets, segs, stream>>
  BY Zenon DEF Quiet, slotData, logVars, coreVars
<1>2. Unhanded' = Unhanded
  BY <1>1, Zenon DEF Unhanded, Since, End
<1>3. ASSUME NEW m \in tickets, d \in DocSet(m.docs), TicketOwes(m, n, d) PROVE Owed(n, d)'
  <2>1. TicketOwes(m, n, d)'
    BY <1>1, <1>2, <1>3, LoggedOwed, Zenon
  <2> QED BY <1>1, <1>3, <2>1, Zenon DEF Owed
<1>4. ASSUME NEW s \in segs, d \in s.docs, SegmentOwes(s, n, d) PROVE Owed(n, d)'
  <2>1. SegmentOwes(s, n, d)'
    BY <1>1, <1>2, <1>4, LoggedOwed, Zenon
  <2> QED BY <1>1, <1>4, <2>1, Zenon DEF Owed
<1> QED BY <1>1, <1>3, <1>4, SlotsOwed, Zenon DEF Owed

\* Every step keeps every delete owed.
LEMMA DeletesStep ==
  ASSUME DeleteOrder, Documents, LogBounds, Numbered, CommitHolds, NoDeleteLost,
         NEW t \in Threads, Step(t) \/ Call(t)
  PROVE  NoDeleteLost'
<1> SUFFICES ASSUME NEW d \in adds', NEW n \in dels', n > d, <<n, d>> \notin missed'
             PROVE  Owed(n, d)'
  BY Zenon DEF NoDeleteLost, Owed
<1>1. ASSUME d \in adds, n \in dels, <<n, d>> \notin missed PROVE Owed(n, d)
  BY <1>1, Zenon DEF NoDeleteLost, Owed
<1>2. d \in adds => \/ \E i \in Slots : d \in DocSet(docs[i])
                    \/ \E k \in tickets : d \in DocSet(k.docs)
                    \/ \E s \in segs : d \in s.docs
  BY Zenon DEF Documents, AllPlaced
<1>3. CASE Quiet
  <2>1. UNCHANGED historyVars
    BY <1>3, Zenon DEF Quiet
  <2>2. Owed(n, d)
    BY <1>1, <2>1, Zenon DEF historyVars
  <2> QED BY <1>3, <2>2, QuietOwed, Zenon
<1>4. CASE Flushes
  <2>1. UNCHANGED historyVars
    BY <1>4, Zenon DEF Flushes
  <2>2. Owed(n, d)
    BY <1>1, <2>1, Zenon DEF historyVars
  <2> QED BY <1>4, <2>2, FlushesOwed, Zenon
<1>5. CASE Freezes
  <2>1. UNCHANGED historyVars
    BY <1>5, Zenon DEF Freezes
  <2>2. Owed(n, d)
    BY <1>1, <2>1, Zenon DEF historyVars
  <2> QED BY <1>5, <2>2, FreezesOwed, Zenon
<1>6. CASE Deletes
  <2>1. d \in adds /\ (n \in dels \/ n = next_seq) /\ <<n, d>> \notin missed
    BY <1>6, Zenon DEF Deletes
  <2> QED BY <1>1, <1>2, <1>6, <2>1, DeletesOwed, Zenon
<1>7. CASE Adds(t)
  <2>1. PICK i \in Slots, p \in 0..Partitions, c \in 1..MaxBlock, b \in BOOLEAN :
          pc[t] # "apply" /\ InWindow(i) = {} /\ Buffer(t, i, p, c, b)
    BY <1>7, Zenon DEF Adds
  <2>2. /\ d \in adds \/ d = next_seq
        /\ n \in dels \/ (b /\ n = next_seq)
        /\ <<n, d>> \notin missed
    <3>1. /\ adds' = adds \union {next_seq} /\ UNCHANGED missed
          /\ dels' = IF b THEN dels \union {next_seq} ELSE dels
      BY <2>1, Zenon DEF Buffer
    <3> QED BY <3>1, Zenon
  <2>3. d # next_seq
    <3>1. next_seq \in Nat /\ LastSeq \in Nat /\ LastSeq < next_seq
      BY LastSeqType, OrderTypes, Zenon
    <3>2. n \in dels => n \in Nat /\ n <= LastSeq
      BY Zenon DEF Numbered, NumberedBy
    <3> QED BY <2>2, <3>1, <3>2
  <2>4. d \in adds
    BY <2>2, <2>3, Zenon
  <2> QED BY <2>4, <1>1, <1>2, <2>1, <2>2, AddsOwed, Zenon
<1>8. CASE ApplySlice(t)
  <2>1. UNCHANGED <<adds, dels>> /\ missed \subseteq missed'
    BY <1>8, Zenon DEF ApplySlice
  <2>2. Owed(n, d)
    BY <1>1, <2>1, Zenon
  <2> QED BY <1>8, <2>2, AppliesOwed, Zenon
<1>9. CASE Commit(t)
  <2>1. UNCHANGED historyVars
    BY <1>9, Zenon DEF Commit
  <2>2. Owed(n, d)
    BY <1>1, <2>1, Zenon DEF historyVars
  <2> QED BY <1>9, <2>2, CommitOwed, Zenon
<1>10. CASE AbortSlots(t)
  <2>1. d \in adds /\ UNCHANGED <<dels, missed>>
    BY <1>10, Zenon DEF AbortSlots
  <2>2. Owed(n, d)
    BY <1>1, <2>1, Zenon
  <2> QED BY <1>10, <2>2, AbortOwed, Zenon
<1>11. CASE Drain(t)
  <2>1. UNCHANGED missed
    BY <1>11, Zenon DEF Drain
  <2>2. n \in dels \/ dels' = {}
    BY <1>11, Zenon DEF Drain, DropAll, Rollback
  <2>3. d \in adds => Owed(n, d)
    BY <1>1, <2>1, <2>2, Zenon
  <2> QED BY <1>11, <2>3, DrainOwed, Zenon
<1>12. ASSUME NEW k \in tickets, Publishes(t, k) PROVE Owed(n, d)'
  <2>1. UNCHANGED <<dels, missed>>
    BY <1>12, ViewSteps, Zenon
  <2>2. adds' \subseteq adds
    BY <1>12, Zenon DEF Publishes, Publish, PublishApplyFails, Abandon
  <2>3. Owed(n, d)
    BY <1>1, <2>1, <2>2, Zenon
  <2> QED BY <1>12, <2>3, PublishesOwed, Zenon
<1> QED BY <1>3, <1>4, <1>5, <1>6, <1>7, <1>8, <1>9, <1>10, <1>11, <1>12, StepKinds, Zenon

----------------------------------------------------------------------------
(* The commit written is the cut *)

\* The last commit keeps the deletes it has: a later delete has a later number.
LEMMA CommitKept ==
  ASSUME DeleteOrder, Numbered, CommitHolds, UNCHANGED commit, missed \subseteq missed',
         \A n \in dels' : n \in dels \/ n = next_seq
  PROVE  CommitHolds'
<1> SUFFICES ASSUME NEW s \in commit.segs, NEW d \in s.docs, NEW n \in dels',
                    d < n, n <= commit.seq, <<n, d>> \notin missed'
             PROVE  <<n, d>> \in s.dels
  BY Zenon DEF CommitHolds
<1>1. n # next_seq
  <2>1. next_seq \in Nat /\ LastSeq \in Nat /\ LastSeq < next_seq
    BY LastSeqType, OrderTypes, Zenon
  <2>2. commit.seq \in Nat
    BY Types, Zenon DEF ControlTypeOK
  <2>3. commit.seq <= LastSeq
    BY Zenon DEF Numbered, NumberedBy
  <2> QED BY <2>1, <2>2, <2>3
<1> QED BY <1>1, Zenon DEF CommitHolds

\* What a commit does, when it writes one.
LEMMA CommitWrites ==
  ASSUME DeleteOrder, FullFlushLock, Turn, Cut, NEW t \in Threads, Commit(t), commit' # commit
  PROVE  /\ commit'.seq = last_seq[t] /\ commit'.segs = segs' /\ stream' = {}
         /\ commit.seq <= last_seq[t] /\ SegmentsUpTo(segs', last_seq[t])
         /\ UNCHANGED <<log, base, handed, docs, tickets, historyVars>>
         /\ \A i \in Slots : \A d \in DocSet(docs[i]) : last_seq[t] < d
         /\ \A k \in tickets : /\ \A d \in DocSet(k.docs) : last_seq[t] < d
                               /\ \A n \in k.packet : last_seq[t] < n
         /\ \A n \in Unhanded : last_seq[t] < n
<1>1. CommitSegments(last_seq[t])
  BY Zenon DEF Commit, PrepareFails, FinishFails, PrepareRefused, coreVars
<1>2. commit' = [seq |-> last_seq[t], segs |-> segs'] /\ stream' = {}
  BY <1>1, Zenon DEF CommitSegments, ApplyPackets, ApplyAll
<1>3. commit'.seq = last_seq[t] /\ commit'.segs = segs'
  BY <1>2
<1>4. UNCHANGED <<log, base, handed, docs, tickets, historyVars>>
  BY Zenon DEF Commit, logVars, slotVars, ticketVars
<1>5. pc[t] = "commit"
  BY Zenon DEF Commit
<1>6. Cutting(t)
  BY <1>5, Zenon DEF FullFlushLock, FlushState, Cutting
<1>7. CutBefore(last_seq[t]) /\ CutAfter(last_seq[t]) /\ next_publish = barrier /\ barrier # 0
  BY <1>5, <1>6, Zenon DEF Cut, Turn, TurnOf
<1>8. \A k \in tickets : k.no >= barrier
  <2>1. \A k \in tickets : k.no \in Nat /\ barrier <= k.no
    BY <1>7, TicketFields, Zenon DEF DeleteOrder, TicketNumbers
  <2>2. barrier \in Nat
    BY Types, <1>7, Zenon DEF TicketTypeOK
  <2> QED BY <2>1, <2>2
<1>9. SegmentsUpTo(segs', last_seq[t])
  BY <1>7, CommitUpTo, Zenon DEF CutBefore
<1>10. commit.seq <= last_seq[t]
  BY <1>7, Zenon DEF CutBefore
<1> QED BY <1>2, <1>3, <1>4, <1>7, <1>8, <1>9, <1>10, Zenon DEF CutAfter

\* A commit written has every delete up to its number: none is in a ticket held
\* back, in the log or in the stream.
LEMMA CommitComplete ==
  ASSUME DeleteOrder, FullFlushLock, Turn, Cut, NEW t \in Threads, Commit(t), commit' # commit,
         Documents', NoDeleteLost', NEW s \in segs', NEW d \in s.docs, NEW n \in dels,
         d < n, n <= last_seq[t], <<n, d>> \notin missed, d \in Nat, n \in Nat
  PROVE  <<n, d>> \in s.dels
<1>1. /\ stream' = {} /\ UNCHANGED <<log, base, handed, docs, tickets>> /\ adds' = adds
      /\ dels' = dels /\ missed' = missed
      /\ \A k \in tickets : \A x \in k.packet : last_seq[t] < x
      /\ \A x \in Unhanded : last_seq[t] < x
  BY CommitWrites, Zenon DEF historyVars
<1>2. n > d
  OBVIOUS
<1>3. d \in adds'
  BY Zenon DEF Documents, AllPlaced
<1>4. \/ \E i \in Slots : d \in DocSet(docs'[i])
      \/ \E m \in tickets' : d \in DocSet(m.docs)
      \/ \E r \in segs' : d \in r.docs /\ SegmentOwes(r, n, d)'
  BY <1>1, <1>2, <1>3, Zenon DEF NoDeleteLost
<1>5. /\ \A i \in Slots : d \notin DocSet(docs'[i])
      /\ \A m \in tickets' : d \notin DocSet(m.docs)
      /\ \A r \in segs' : d \in r.docs => r = s
  BY Zenon DEF Documents, Apart, SegmentsApart
<1>6. SegmentOwes(s, n, d)'
  BY <1>4, <1>5, Zenon
<1>7. last_seq[t] \in Nat
  BY Types, Zenon DEF ThreadTypeOK
<1>8. ~(last_seq[t] < n)
  BY <1>7
<1>9. Unhanded' = Unhanded
  BY <1>1, Zenon DEF Unhanded, Since, End
<1>10. (\A k \in tickets : n \notin k.packet) /\ n \notin Unhanded'
  BY <1>1, <1>8, <1>9, Zenon
<1> QED BY <1>1, <1>6, <1>10, Zenon DEF SegmentOwes

\* Only a commit changes the last commit.
LEMMA OnlyCommits ==
  ASSUME DeleteOrder, NEW t \in Threads, Step(t) \/ Call(t), commit' # commit
  PROVE  Commit(t)
<1>1. CASE Quiet \/ Flushes \/ Freezes \/ Deletes \/ Adds(t) \/ ApplySlice(t) \/ AbortSlots(t)
  <2>1. UNCHANGED coreVars
    BY <1>1, Zenon DEF Quiet, Flushes, Freezes, Deletes, Adds, Buffer, ApplySlice, AbortSlots
  <2> QED BY <2>1, Zenon DEF coreVars
<1>2. CASE Drain(t)
  BY <1>2, Zenon DEF Drain, DropAll, Rollback, DropAllSegments, DropAllRefused,
     RollbackView, RollbackFails, coreVars
<1>3. ASSUME NEW k \in tickets, Publishes(t, k) PROVE FALSE
  BY <1>3, PublishControl, Zenon DEF Publishes
<1> QED BY <1>1, <1>2, <1>3, StepKinds, Zenon

\* The last commit has its deletes after every step.
LEMMA CommitHoldsStep ==
  ASSUME DeleteOrder, FullFlushLock, Turn, Cut, Numbered, CommitHolds,
         NEW t \in Threads, Step(t) \/ Call(t), Documents', NoDeleteLost', TypeOK'
  PROVE  CommitHolds'
<1>1. CASE UNCHANGED commit
  <2>1. missed \subseteq missed' /\ \A n \in dels' : n \in dels \/ n = next_seq
    <3>1. CASE Quiet \/ Flushes \/ Freezes \/ Commit(t)
      <4>1. UNCHANGED historyVars
        BY <3>1, Zenon DEF Quiet, Flushes, Freezes, Commit
      <4> QED BY <4>1, Zenon DEF historyVars
    <3>2. CASE Deletes
      BY <3>2, Zenon DEF Deletes
    <3>3. CASE Adds(t)
      <4>1. PICK b \in BOOLEAN : UNCHANGED missed /\ dels' = IF b THEN dels \union {next_seq} ELSE dels
        BY <3>3, Zenon DEF Adds, Buffer
      <4> QED BY <4>1, Zenon
    <3>4. CASE ApplySlice(t)
      BY <3>4, Zenon DEF ApplySlice
    <3>5. CASE AbortSlots(t)
      BY <3>5, Zenon DEF AbortSlots
    <3>6. CASE Drain(t)
      BY <3>6, Zenon DEF Drain, DropAll, Rollback
    <3>7. ASSUME NEW k \in tickets, Publishes(t, k) PROVE UNCHANGED <<dels, missed>>
      BY <3>7, ViewSteps, Zenon
    <3> QED BY <3>1, <3>2, <3>3, <3>4, <3>5, <3>6, <3>7, StepKinds, Zenon
  <2> QED BY <1>1, <2>1, CommitKept, Zenon
<1>2. CASE commit' # commit
  <2>1. Commit(t)
    BY <1>2, OnlyCommits, Zenon
  <2>2. /\ commit'.seq = last_seq[t] /\ commit'.segs = segs' /\ dels' = dels /\ missed' = missed
    BY <1>2, <2>1, CommitWrites, Zenon DEF historyVars
  <2>3. segs' \subseteq SegmentType /\ \A s \in segs' : s.docs \in SUBSET Nat
    BY Zenon DEF TypeOK, ControlTypeOK, SegmentType
  <2>4. \A n \in dels : n \in Nat
    BY Zenon DEF Numbered, NumberedBy
  <2>5. ASSUME NEW s \in segs', NEW d \in s.docs, NEW n \in dels, d < n, n <= last_seq[t],
               <<n, d>> \notin missed
        PROVE  <<n, d>> \in s.dels
    <3>1. d \in Nat /\ n \in Nat
      BY <2>3, <2>4, Zenon
    <3> QED BY <1>2, <2>1, <2>5, <3>1, CommitComplete, Zenon
  <2> QED BY <2>2, <2>5, Zenon DEF CommitHolds
<1> QED BY <1>1, <1>2, Zenon

\* The commit written is a clean cut.
LEMMA CommitIsCutStep ==
  ASSUME DeleteOrder, FullFlushLock, Turn, Cut, Numbered, CommitHolds,
         NEW t \in Threads, Step(t) \/ Call(t), commit' # commit,
         Documents', CommitHolds', TypeOK', DeletesOnlyEarlier'
  PROVE  /\ commit'.seq >= commit.seq
         /\ DocsOf(commit'.segs) = {d \in adds : d <= commit'.seq}
         /\ ExactDeletes(commit', missed)
<1>1. PICK L : L = last_seq[t]
  BY Zenon
<1>2. /\ commit'.seq = L /\ commit'.segs = segs' /\ commit.seq <= L /\ SegmentsUpTo(segs', L)
      /\ UNCHANGED <<docs, tickets>> /\ adds' = adds /\ dels' = dels /\ missed' = missed
      /\ \A i \in Slots : \A d \in DocSet(docs[i]) : L < d
      /\ \A k \in tickets : \A d \in DocSet(k.docs) : L < d
  <2>1. Commit(t)
    BY OnlyCommits, Zenon
  <2> QED BY <1>1, <2>1, CommitWrites, Zenon DEF historyVars
<1>3. L \in Nat /\ commit.seq \in Nat
  BY <1>1, Types, Zenon DEF ThreadTypeOK, ControlTypeOK
<1>4. commit'.seq >= commit.seq
  BY <1>2, <1>3
<1>5. segs' \subseteq SegmentType /\ \A s \in segs' : s.docs \in SUBSET Nat
  BY Zenon DEF TypeOK, ControlTypeOK, SegmentType
<1>6. \A d \in DocsOf(segs') : d \in adds /\ d <= L
  BY <1>2, Zenon DEF DocsOf, Documents, AllPlaced, SegmentsUpTo
<1>7. ASSUME NEW d \in adds, d <= L PROVE d \in DocsOf(segs')
  <2>1. CASE \E s \in segs' : d \in s.docs
    BY <2>1, Zenon DEF DocsOf
  <2>2. CASE \E i \in Slots : d \in DocSet(docs[i])
    <3>1. d \in Nat /\ L < d
      BY <1>2, <2>2, SlotFacts, Zenon DEF DocSet
    <3> QED BY <1>3, <1>7, <3>1
  <2>3. CASE \E k \in tickets : d \in DocSet(k.docs)
    <3>1. d \in Nat /\ L < d
      BY <1>2, <2>3, TicketFields, Zenon
    <3> QED BY <1>3, <1>7, <3>1
  <2> QED BY <1>2, <2>1, <2>2, <2>3, Zenon DEF Documents, AllPlaced
<1>8. DocsOf(commit'.segs) = {d \in adds : d <= commit'.seq}
  BY <1>2, <1>6, <1>7, Zenon
<1>9. ASSUME NEW s \in segs', NEW d \in s.docs
      PROVE  /\ \A n \in dels : <<n, d>> \in s.dels => d < n /\ n <= L
             /\ \A n \in dels : d < n /\ n <= L /\ <<n, d>> \notin missed => <<n, d>> \in s.dels
  <2>1. ASSUME NEW n \in dels, <<n, d>> \in s.dels PROVE d < n /\ n <= L
    <3>1. PICK pair \in s.dels : pair = <<n, d>>
      BY <2>1, Zenon
    <3>2. pair[2] < pair[1]
      BY <3>1, Zenon DEF DeletesOnlyEarlier
    <3>3. pair[1] <= L
      BY <1>2, <3>1, Zenon DEF SegmentsUpTo
    <3>4. pair[1] = n /\ pair[2] = d
      BY <3>1
    <3> QED BY <3>2, <3>3, <3>4, Zenon
  <2>2. \A n \in dels : d < n /\ n <= L /\ <<n, d>> \notin missed => <<n, d>> \in s.dels
    BY <1>2, Zenon DEF CommitHolds
  <2> QED BY <2>1, <2>2, Zenon
<1>10. ExactDeletes(commit', missed)
  BY <1>2, <1>9, Zenon DEF ExactDeletes
<1> QED BY <1>4, <1>8, <1>10, Zenon

\* A commit's number is one already given out.
LEMMA CommitNumbered ==
  ASSUME FullFlushLock, Cut, NEW t \in Threads
  PROVE  pc[t] = "commit" => last_seq[t] <= LastSeq
BY Zenon DEF FullFlushLock, FlushState, Cutting, Cut, CutBefore

----------------------------------------------------------------------------
(* The induction *)

\* What holds besides the order of deletes and documents, all of it together:
\* each part needs others to survive a step.
CleanCuts ==
    /\ Documents /\ FullFlushLock /\ Turn /\ SlotsTicketed
    /\ LogBounds /\ Numbered /\ Cut /\ CommitHolds /\ NoDeleteLost

\* It holds at first.
LEMMA CleanCutsInit == Init => CleanCuts
<1> SUFFICES ASSUME Init PROVE CleanCuts
  BY Zenon
<1>1. Documents /\ FullFlushLock
  BY DocumentsInit, LockInit, Zenon
<1>2. /\ \A t \in Threads : pc[t] = "idle" /\ job[t] = "none"
      /\ tickets = {} /\ adds = {} /\ dels = {} /\ segs = {} /\ stream = {}
      /\ commit = [seq |-> 0, segs |-> {}] /\ next_seq = 1 /\ base = 0 /\ log = <<>>
      /\ \A i \in Slots : docs[i] = <<>> /\ slice[i] = 0 /\ private[i] = {}
  BY Zenon DEF Init, LogInit, ControlInit
<1>3. commit.seq = 0 /\ commit.segs = {} /\ LastSeq = 0 /\ End = 0
  BY <1>2 DEF LastSeq, End
<1>4. Turn /\ SlotsTicketed /\ Cut
  BY <1>2, Zenon DEF Turn, SlotsTicketed, Cut, Cutting
<1>5. LogBounds
  <2>1. base <= End /\ 0 <= End
    BY <1>2, <1>3
  <2> QED BY <1>2, <2>1, Zenon DEF LogBounds
<1>6. Numbered
  <2>1. commit.seq <= LastSeq
    BY <1>3
  <2> QED BY <1>2, <1>3, <2>1, Zenon DEF Numbered, NumberedBy, SegmentsUpTo, PacketsUpTo
<1>7. CommitHolds /\ NoDeleteLost
  BY <1>2, <1>3, Zenon DEF CommitHolds, NoDeleteLost
<1> QED BY <1>1, <1>4, <1>5, <1>6, <1>7, Zenon DEF CleanCuts

\* A step that changes nothing keeps it.
LEMMA CleanCutsStutter ==
  ASSUME DeleteOrder, CleanCuts, UNCHANGED vars
  PROVE  CleanCuts'
<1>0. /\ UNCHANGED <<log, base, handed, next_seq, slices, docs, private, slice, tickets, next_publish>>
      /\ UNCHANGED <<barrier, pc, job, at, read, held, last_seq, segs, stream, commit, historyVars>>
  BY Zenon DEF vars, logVars, slotVars, ticketVars, coreVars, threadVars
<1>1. Documents' /\ FullFlushLock'
  <2>1. [Next]_vars
    BY Zenon
  <2>2. FullFlushLock'
    BY <2>1, LockStep, Zenon DEF CleanCuts
  <2>3. Documents'
    BY <1>0, DocumentsStay, Zenon DEF CleanCuts, historyVars
  <2> QED BY <2>2, <2>3, Zenon
<1>2. /\ Unhanded' = Unhanded /\ End' = End /\ LastSeq' = LastSeq
      /\ \A i \in Slots : InWindow(i)' = InWindow(i)
  BY <1>0, Zenon DEF Unhanded, Since, End, LastSeq, InWindow
<1>3. Turn' /\ SlotsTicketed'
  BY <1>0, Zenon DEF CleanCuts, Turn, TurnOf, Cutting, SlotsTicketed
<1>4. LogBounds'
  BY <1>0, <1>2, Zenon DEF CleanCuts, LogBounds
<1>5. Numbered'
  BY <1>0, <1>2, Zenon DEF CleanCuts, Numbered, NumberedBy, TicketUpTo, SegmentsUpTo, PacketsUpTo,
     historyVars
<1>6. Cut'
  BY <1>0, <1>2, Zenon DEF CleanCuts, Cut, Cutting, CutBefore, CutAfter, TicketUpTo, SegmentsUpTo,
     PacketsUpTo
<1>7. CommitHolds'
  BY <1>0, Zenon DEF CleanCuts, CommitHolds, historyVars
<1>8. NoDeleteLost'
  <2>1. Quiet
    BY <1>0, Zenon DEF Quiet, SameWindows, slotData, logVars, vars
  <2>2. \A n, d : Owed(n, d) => Owed(n, d)'
    BY <2>1, QuietOwed, Zenon
  <2>3. UNCHANGED <<adds, dels, missed>> /\ NoDeleteLost
    BY <1>0, Zenon DEF historyVars, CleanCuts
  <2>4. ASSUME NEW d \in adds, NEW n \in dels, n > d, <<n, d>> \notin missed PROVE Owed(n, d)'
    BY <2>2, <2>3, <2>4, Zenon DEF NoDeleteLost, Owed
  <2> QED BY <2>3, <2>4, Zenon DEF NoDeleteLost, Owed
<1> QED BY <1>1, <1>3, <1>4, <1>5, <1>6, <1>7, <1>8, Zenon DEF CleanCuts

\* Every step of a thread between states in DeleteOrder keeps it, and writes only
\* clean commits.
LEMMA CleanCutsStep ==
  ASSUME DeleteOrder, Publishers, CleanCuts, DeleteOrder',
         NEW t \in Threads, Step(t) \/ Call(t)
  PROVE  /\ CleanCuts'
         /\ commit' # commit => /\ commit'.seq >= commit.seq
                                /\ DocsOf(commit'.segs) = {d \in adds : d <= commit'.seq}
                                /\ ExactDeletes(commit', missed)
<1>0. [Next]_vars
  BY Zenon DEF Next
<1>1. TypeOK' /\ DeletesOnlyEarlier'
  BY Zenon DEF DeleteOrder
<1>2. FullFlushLock'
  BY <1>0, LockStep, Zenon DEF CleanCuts
<1>3. Documents'
  BY DocumentsStep, DocumentsCall, Zenon DEF CleanCuts
<1>4. Turn'
  BY TurnStep, Zenon DEF CleanCuts
<1>5. SlotsTicketed'
  BY SlotsTicketedStep, Zenon DEF CleanCuts
<1>6. LogBounds'
  BY BoundsStep, Zenon DEF CleanCuts
<1>7. Numbered'
  BY NumberedStep, CommitNumbered, Zenon DEF CleanCuts
<1>8. Cut'
  BY CutStep, Zenon DEF CleanCuts
<1>9. NoDeleteLost'
  BY DeletesStep, Zenon DEF CleanCuts
<1>10. CommitHolds'
  BY <1>1, <1>3, <1>9, CommitHoldsStep, Zenon DEF CleanCuts
<1>11. ASSUME commit' # commit
       PROVE  /\ commit'.seq >= commit.seq
              /\ DocsOf(commit'.segs) = {d \in adds : d <= commit'.seq}
              /\ ExactDeletes(commit', missed)
  BY <1>1, <1>3, <1>10, <1>11, CommitIsCutStep, Zenon DEF CleanCuts
<1> QED BY <1>2, <1>3, <1>4, <1>5, <1>6, <1>7, <1>8, <1>9, <1>10, <1>11, Zenon DEF CleanCuts
=============================================================================
