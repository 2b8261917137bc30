----------------------------- MODULE WriterFacts -----------------------------
(***************************************************************************)
(* Lemmas on ConcurrentWriter that its proofs share: what its operators    *)
(* return, what the fields of its state hold, and what a step leaves       *)
(* alone.                                                                  *)
(***************************************************************************)
EXTENDS ConcurrentWriter, TLAPS

USE LogAssumption, WriterAssumption

\* What `since` copies out are log entries past the position asked for.
LEMMA SinceLater ==
  ASSUME LogTypeOK, NEW from \in Nat
  PROVE  /\ Since(from) \in SUBSET Nat
         /\ \A n \in Since(from) : \E p \in DOMAIN log : p > from /\ log[p] = n
BY DEF LogTypeOK, Since, End

\* A block of documents is a sequence of its sequence number.
LEMMA BlockType ==
  ASSUME NEW count \in Nat, NEW x \in Nat
  PROVE  /\ [j \in 1..count |-> x] \in Seq(Nat)
         /\ Len([j \in 1..count |-> x]) = count
OBVIOUS

Packet == [gen : Nat, nodes : SUBSET Nat]

Packets == SUBSET Packet

\* Applying packets to a segment adds pairs of the packets that apply to it, and changes nothing else.
LEMMA ResolvedType ==
  ASSUME NEW seg \in SegmentType, NEW P \in Packets
  PROVE  /\ Resolved(seg, P) \in SegmentType
         /\ Resolved(seg, P).docs = seg.docs
         /\ Resolved(seg, P).gen = seg.gen
         /\ \A pair \in Resolved(seg, P).dels :
              \/ pair \in seg.dels
              \/ \E q \in P : AppliesTo(q, seg) /\ pair[1] \in q.nodes /\ pair[2] \in seg.docs
<1> DEFINE reaching == UNION {p.nodes : p \in {q \in P : AppliesTo(q, seg)}}
<1>1. reaching \in SUBSET Nat /\ \A n \in reaching : \E q \in P : AppliesTo(q, seg) /\ n \in q.nodes
  BY Zenon DEF Packets, Packet
<1> HIDE DEF reaching
<1>2. Resolved(seg, P) = [seg EXCEPT !.dels = @ \union (reaching \X seg.docs)]
  BY Zenon DEF Resolved, reaching
<1> QED
  BY <1>1, <1>2 DEF SegmentType

\* Pushing a packet keeps the stream a set of packets.
LEMMA PushedType ==
  ASSUME ControlTypeOK, NEW packet \in SUBSET Nat
  PROVE  Pushed(packet) \in Packets /\ GenAfter(packet) \in Nat
<1>1. stream \in Packets /\ next_gen \in Nat
  BY Zenon DEF ControlTypeOK, Packets, Packet
<1>2. [gen |-> next_gen, nodes |-> packet] \in Packet
  BY <1>1, Zenon DEF Packet
<1> QED
  BY <1>1, <1>2 DEF Pushed, GenAfter, Packets

\* A buffer's own deletes reach earlier documents of the buffer only.
LEMMA PrivatePairsOrder ==
  ASSUME NEW buffer \in Seq(Nat), NEW own \in SUBSET (Nat \X Nat),
         OwnDeletesLater(buffer, own)
  PROVE  /\ PrivatePairs(buffer, own) \in SUBSET (Nat \X Nat)
         /\ \A pair \in PrivatePairs(buffer, own) : pair[2] < pair[1]
<1> SUFFICES ASSUME NEW pair \in PrivatePairs(buffer, own)
             PROVE  pair \in Nat \X Nat /\ pair[2] < pair[1]
  BY Zenon
<1>1. PICK e \in own : pair \in {<<e[1], buffer[j]>> : j \in 1..e[2]}
  BY Zenon DEF PrivatePairs
<1>2. PICK j \in 1..e[2] : pair = <<e[1], buffer[j]>>
  BY <1>1, Zenon
<1>3. e[1] \in Nat /\ e[2] \in Nat /\ e[2] <= Len(buffer) /\ buffer[j] < e[1]
  BY <1>2, Zenon DEF OwnDeletesLater
<1>4. j \in DOMAIN buffer /\ buffer[j] \in Nat
  BY <1>2, <1>3
<1> QED
  BY <1>2, <1>3, <1>4, Zenon

\* What the fields of a ticket are.
LEMMA TicketFields ==
  ASSUME DeleteOrder, NEW k \in tickets
  PROVE  /\ k.no \in Nat /\ k.docs \in Seq(Nat) /\ k.private \in SUBSET (Nat \X Nat)
         /\ k.packet \in SUBSET Nat
         /\ OwnDeletesLater(k.docs, k.private)
         /\ DocSet(k.docs) \in SUBSET Nat
<1>1. k \in Ticket
  BY Zenon DEF DeleteOrder, TypeOK, TicketTypeOK
<1>2. OwnDeletesLater(k.docs, k.private)
  BY Zenon DEF DeleteOrder, TicketOrder
<1> QED
  BY <1>1, <1>2 DEF Ticket, DocSet

\* The segment a ticket becomes, and the view it joins.
LEMMA SegmentFields ==
  ASSUME DeleteOrder, NEW k \in tickets
  PROVE  /\ Segment(k) \in SegmentType
         /\ Segment(k).docs = DocSet(k.docs)
         /\ Segment(k).gen = GenAfter(k.packet)
         /\ \A pair \in Segment(k).dels : pair[2] < pair[1]
         /\ View(k) \in SUBSET SegmentType
         /\ GenAfterTicket(k) \in Nat
<1>1. segs \in SUBSET SegmentType /\ ControlTypeOK
  BY Zenon DEF DeleteOrder, TypeOK, ControlTypeOK
<1>2. GenAfter(k.packet) \in Nat
  BY <1>1, PushedType, TicketFields, Zenon
<1>3. PrivatePairs(k.docs, k.private) \in SUBSET (Nat \X Nat)
  BY TicketFields, PrivatePairsOrder, Zenon
<1>4. Segment(k) \in SegmentType
  BY <1>2, <1>3, TicketFields, Zenon DEF Segment, SegmentType
<1>5. \A pair \in Segment(k).dels : pair[2] < pair[1]
  BY TicketFields, PrivatePairsOrder, Zenon DEF Segment
<1> QED
  BY <1>1, <1>2, <1>4, <1>5 DEF View, GenAfterTicket, Segment

\* The labels steps move to are labels.
LEMMA LabelFacts ==
  /\ "idle" \in Labels /\ "pre" \in Labels /\ "log" \in Labels /\ "apply" \in Labels
  /\ "full" \in Labels /\ "publish" \in Labels /\ "post" \in Labels
  /\ "deletes" \in Labels /\ "lock" \in Labels /\ "ticket" \in Labels
  /\ "commit" \in Labels /\ "abort" \in Labels /\ "drain" \in Labels
  /\ "unlock" \in Labels
  /\ "idle" \in Returns /\ "pre" \in Returns /\ "post" \in Returns
  /\ "deletes" \in Returns /\ "commit" \in Returns /\ "unlock" \in Returns
  /\ Returns \subseteq Labels
  /\ AfterFlush \in Labels \intersect Returns /\ AfterAdd \in Labels \intersect Returns
BY Zenon DEF Labels, Returns, AfterFlush, AfterAdd

\* The parts of the type invariant, from the inductive one.
LEMMA Types ==
  DeleteOrder => /\ LogTypeOK /\ ControlTypeOK /\ SlotTypeOK /\ TicketTypeOK
                 /\ ThreadTypeOK /\ SlotsOwned
BY Zenon DEF DeleteOrder, TypeOK

\* What publishing a ticket, in any outcome, does to the control plane.
LEMMA PublishControl ==
  ASSUME NEW t \in Threads, NEW k \in tickets,
         Publish(t, k) \/ PublishApplyFails(t, k) \/ Abandon(t, k)
  PROVE  /\ \/ ApplyAll(View(k), Pushed(k.packet)) \/ ApplySome(View(k), Pushed(k.packet))
            \/ ApplyAll(segs, Pushed(k.packet)) \/ ApplySome(segs, Pushed(k.packet))
         /\ next_gen' = GenAfterTicket(k) \/ next_gen' = GenAfter(k.packet)
         /\ failures' = failures \/ failures' = failures + 1
         /\ UNCHANGED <<commit, prepared>>
         /\ \E error \in BOOLEAN : Retire(t, k, error)
<1>1. CASE Publish(t, k)
  BY <1>1, Zenon DEF Publish, ApplyPackets, Retire
<1>2. CASE PublishApplyFails(t, k)
  BY <1>2, Zenon DEF PublishApplyFails, ApplyPacketsFails, Fails, Retire
<1>3. CASE Abandon(t, k)
  BY <1>3, Zenon DEF Abandon, AbandonedPacket, Fails, Retire
<1> QED BY <1>1, <1>2, <1>3, Zenon

\* A step that publishes a ticket, in any outcome.
Publishes(t, k) == Publish(t, k) \/ PublishApplyFails(t, k) \/ Abandon(t, k)

\* The labels at which a thread holds no ticket.
Handless == {"idle", "pre", "post", "deletes", "lock", "commit", "abort", "drain", "unlock"}

\* The tickets held are outstanding, each held once, by threads on their way to
\* publish them.
HeldOnce ==
    \A t \in Threads :
      /\ pc[t] \in Handless => held[t] = {}
      /\ \A n \in held[t] : next_publish <= n /\ n < next_ticket
      /\ \A u \in Threads \ {t} : \A n \in held[t] : n \notin held[u]

\* With one partition no buffer is evicted, so an add never holds a second batch.
Batch(t) ==
    /\ pc[t] # "log"
    /\ pc[t] \in {"apply", "full"} => held[t] = {}
    /\ pc[t] \in {"lock", "ticket"} => job[t] # "none"
    /\ pc[t] = "publish" /\ StopsAt(t) => \A m, n \in held[t] : m = n

OnlyPartition == \A i \in Slots : docs[i] # <<>> => partition[i] = 1

OneBatch == Partitions = 1 => OnlyPartition /\ \A t \in Threads : Batch(t)

\* An add drops its second batch only when publishing the first one failed.
NoOrphans == failures = 0 \/ Partitions = 1

AllHeld == NoOrphans => \A k \in tickets : \E t \in Threads : k.no \in held[t]

\* The invariant behind EveryTicketHasAPublisher, beside DeleteOrder.
Publishers == HeldOnce /\ OneBatch /\ AllHeld

\* What publishing a ticket, in any outcome, finds and does to the tickets.
LEMMA PublishRetires ==
  ASSUME NEW t \in Threads, NEW k \in tickets, Publishes(t, k)
  PROVE  /\ pc[t] = "publish" /\ k.no \in held[t] /\ k.no = next_publish
         /\ \E error \in BOOLEAN : /\ Retire(t, k, error)
                                   /\ failures' = IF error THEN failures + 1 ELSE failures
<1>1. CASE Publish(t, k)
  BY <1>1, Zenon DEF Publish, ApplyPackets, MayPublish
<1>2. CASE PublishApplyFails(t, k)
  BY <1>2, Zenon DEF PublishApplyFails, ApplyPacketsFails, Fails, MayPublish
<1>3. CASE Abandon(t, k)
  BY <1>3, Zenon DEF Abandon, Fails, MayPublish
<1> QED BY <1>1, <1>2, <1>3, Zenon DEF Publishes

\* The threads between reading the log and advertising their slice are the
\* same after the step, with the same slot and the same copy.
SameWindows ==
    \A u \in Threads :
      /\ pc'[u] = "apply" <=> pc[u] = "apply"
      /\ pc[u] = "apply" => at'[u] = at[u] /\ read'[u] = read[u]

\* With the windows unchanged, the threads in a slot's window are the same.
LEMMA SameInWindow ==
  ASSUME SameWindows, NEW i
  PROVE  InWindow(i)' = InWindow(i)
BY Zenon DEF SameWindows, InWindow

\* The types the order proofs work with, from the invariant.
LEMMA OrderTypes ==
  ASSUME DeleteOrder
  PROVE  /\ log \in Seq(Nat) /\ handed \in Nat /\ next_seq \in Nat /\ End = Len(log)
         /\ \A i \in Slots : docs[i] \in Seq(Nat) /\ private[i] \in SUBSET (Nat \X Nat)
                             /\ slice[i] \in Nat
         /\ tickets \subseteq Ticket
         /\ segs \subseteq SegmentType /\ commit.segs \subseteq SegmentType
         /\ stream \in Packets /\ next_gen \in Nat
BY Types, Zenon DEF LogTypeOK, SlotTypeOK, TicketTypeOK, ControlTypeOK, End, Packets, Packet

\* What the invariant says of one slot.
LEMMA SlotFacts ==
  ASSUME DeleteOrder, NEW i \in Slots
  PROVE  /\ \A j \in DOMAIN docs[i] : docs[i][j] \in Nat /\ docs[i][j] < next_seq
         /\ \A e \in private[i] : /\ e[1] \in Nat /\ e[2] \in Nat /\ e[2] <= Len(docs[i])
                                  /\ \A j \in 1..e[2] : docs[i][j] < e[1]
         /\ InWindow(i) = {} =>
              \A n \in Since(slice[i]) : n \in Nat /\ \A j \in DOMAIN docs[i] : docs[i][j] < n
<1>1. /\ \A j \in DOMAIN docs[i] : docs[i][j] < next_seq
      /\ OwnDeletesLater(docs[i], private[i])
      /\ InWindow(i) = {} => LogLater(docs[i], slice[i])
  BY Zenon DEF DeleteOrder, SlotOrder
<1>2. LogTypeOK /\ docs[i] \in Seq(Nat) /\ private[i] \in SUBSET (Nat \X Nat) /\ slice[i] \in Nat
  BY OrderTypes, Types, Zenon
<1>3. \A j \in DOMAIN docs[i] : docs[i][j] \in Nat
  BY <1>2
<1>4. \A e \in private[i] : e[1] \in Nat /\ e[2] \in Nat
  BY <1>2, Zenon
<1>5. /\ Since(slice[i]) \in SUBSET Nat
      /\ \A n \in Since(slice[i]) : \E p \in DOMAIN log : p > slice[i] /\ log[p] = n
  BY <1>2, SinceLater, Zenon
<1>6. ASSUME InWindow(i) = {}, NEW n \in Since(slice[i]), NEW j \in DOMAIN docs[i]
      PROVE  docs[i][j] < n
  <2>1. PICK p \in DOMAIN log : p > slice[i] /\ log[p] = n
    BY <1>5, Zenon
  <2>2. LogLater(docs[i], slice[i])
    BY <1>1, <1>6, Zenon
  <2> QED BY <2>1, <2>2, Zenon DEF LogLater
<1>7. \A e \in private[i] : e[2] <= Len(docs[i]) /\ \A j \in 1..e[2] : docs[i][j] < e[1]
  BY <1>1, Zenon DEF OwnDeletesLater
<1>8. InWindow(i) = {} =>
        \A n \in Since(slice[i]) : n \in Nat /\ \A j \in DOMAIN docs[i] : docs[i][j] < n
  BY <1>5, <1>6, Zenon
<1> QED BY <1>1, <1>3, <1>4, <1>7, <1>8, Zenon

\* An operation's log entry, if it has one, is later than every entry and every
\* document so far.
LEMMA LogOperationEffect ==
  ASSUME DeleteOrder, NEW d \in BOOLEAN, LogOperation(d)
  PROVE  /\ next_seq \in Nat /\ next_seq' = next_seq + 1
         /\ handed' = handed /\ handed \in Nat
         /\ log \in Seq(Nat) /\ log' \in Seq(Nat) /\ Len(log) <= Len(log')
         /\ \A p \in DOMAIN log' :
              \/ p \in DOMAIN log /\ log'[p] = log[p]
              \/ log'[p] = next_seq
BY OrderTypes DEF LogOperation, TakeSeq

\* A thread that holds every slot's lock sees no add in progress.
LEMMA NoWindows ==
  ASSUME DeleteOrder, NEW t \in Threads, pc[t] \in {"ticket", "abort", "drain"}
  PROVE  \A u \in Threads : pc[u] # "apply"
BY Types, SMTT(30) DEF SlotsOwned

\* A thread that moves between labels outside the window changes no window.
LEMMA Moves ==
  ASSUME DeleteOrder, NEW t \in Threads, pc[t] # "apply", NEW l, l # "apply",
         pc' = [pc EXCEPT ![t] = l],
         \A u \in Threads \ {t} : at'[u] = at[u] /\ read'[u] = read[u]
  PROVE  SameWindows
BY Types, Zenon DEF SameWindows, ThreadTypeOK

\* A free slot has no add in progress, nor has one locked by a thread that is
\* not adding.
LEMMA FreeSlot ==
  ASSUME DeleteOrder, NEW i \in Slots,
         owner[i] = None \/ \E t \in Threads : owner[i] = t /\ pc[t] # "apply"
  PROVE  InWindow(i) = {}
BY Types DEF SlotsOwned, InWindow

\* An empty buffer holds no document.
LEMMA EmptyDocSet == DocSet(<<>>) = {}
BY DEF DocSet

\* A buffer with a block appended holds the block's documents too.
LEMMA BlockDocSet ==
  ASSUME NEW b \in Seq(Nat), NEW c \in Nat \ {0}, NEW n \in Nat
  PROVE  DocSet(b \o [j \in 1..c |-> n]) = DocSet(b) \union {n}
<1> DEFINE block == [j \in 1..c |-> n]
<1>0. c \in Nat /\ c >= 1
  OBVIOUS
<1>1. block \in Seq(Nat) /\ Len(block) = c /\ \A j \in 1..c : block[j] = n
  BY <1>0, BlockType, Zenon
<1> HIDE DEF block
<1>2. /\ b \o block \in Seq(Nat) /\ Len(b \o block) = Len(b) + c
      /\ \A j \in 1..Len(b) : (b \o block)[j] = b[j]
      /\ \A j \in (Len(b) + 1)..(Len(b) + c) : (b \o block)[j] = n
  <2>1. b \o block \in Seq(Nat) /\ Len(b \o block) = Len(b) + c
    BY <1>1
  <2>2. \A j \in 1..Len(b) : (b \o block)[j] = b[j]
    BY <1>0, <1>1
  <2>3. ASSUME NEW j \in (Len(b) + 1)..(Len(b) + c) PROVE (b \o block)[j] = n
    <3>1. (b \o block)[j] = block[j - Len(b)] /\ j - Len(b) \in 1..c
      BY <1>0, <1>1
    <3> QED BY <1>1, <3>1, Zenon
  <2> QED BY <2>1, <2>2, <2>3, Zenon
<1>3. ASSUME NEW d \in DocSet(b \o block) PROVE d \in DocSet(b) \union {n}
  <2>1. PICK j \in 1..(Len(b) + c) : (b \o block)[j] = d
    BY <1>2, <1>3 DEF DocSet
  <2> QED BY <1>2, <2>1 DEF DocSet
<1>4. ASSUME NEW d \in DocSet(b) PROVE d \in DocSet(b \o block)
  <2>1. PICK j \in DOMAIN b : b[j] = d
    BY <1>4, Zenon DEF DocSet
  <2>2. j \in DOMAIN (b \o block) /\ (b \o block)[j] = d
    BY <1>2, <2>1
  <2> QED BY <2>2, Zenon DEF DocSet
<1>5. n \in DocSet(b \o block)
  <2>1. Len(b) + 1 \in DOMAIN (b \o block) /\ (b \o block)[Len(b) + 1] = n
    BY <1>2
  <2> QED BY <2>1, Zenon DEF DocSet
<1>6. DocSet(b \o block) = DocSet(b) \union {n}
  BY <1>3, <1>4, <1>5, Zenon
<1> QED BY <1>6, Zenon DEF block

\* Once the tickets are drained none is outstanding.
LEMMA NoneOutstanding ==
  ASSUME DeleteOrder, next_publish = next_ticket
  PROVE  tickets = {}
<1>1. next_ticket \in Nat
  BY Types, Zenon DEF TicketTypeOK
<1>2. ASSUME NEW k \in tickets PROVE FALSE
  <2>1. k.no \in Nat /\ next_publish <= k.no /\ k.no < next_ticket
    BY TicketFields, Zenon DEF DeleteOrder, TicketNumbers
  <2> QED BY <1>1, <2>1
<1> QED BY <1>2, Zenon
=============================================================================
