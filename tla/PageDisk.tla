------------------------------ MODULE PageDisk ------------------------------
(***************************************************************************)
(* The local disk tier of the page cache (lucene-store, page_disk.rs):     *)
(* slots of a few sizes in slab files, CLOCK eviction under a budget, and  *)
(* pages of pinned files that are never evicted.                           *)
(*                                                                         *)
(* One mutex guards the tier's State.  Each operator below is one critical *)
(* section: it takes the State and returns the next one.  The bytes of a   *)
(* slot are read and written outside the mutex; PageCache interleaves the  *)
(* sections and says what an unlocked read returns.                        *)
(***************************************************************************)
EXTENDS Integers, Sequences, FiniteSets, SequencesExt, Functions, TLC

CONSTANTS Files,     \* the files' cache keys
          ClassLen,  \* each class's slot length, ascending
          Setups     \* the configurations checked together, see PageCache

ASSUME ClassAssumption ==
    /\ ClassLen \in Seq(Nat \ {0})
    /\ ClassLen # <<>>
    /\ \A i, j \in DOMAIN ClassLen : i < j => ClassLen[i] < ClassLen[j]

VARIABLES setup,     \* the configuration of this behaviour
          disk       \* DiskTier's State

NONE == -1           \* no file
NoSlot == <<0, 0>>   \* no slot; a slot is <<its class, its index>>
Torn == <<"torn">>   \* bytes that are no page: half written, or a hole

Less(a, b) == IF a >= b THEN a - b ELSE 0     \* saturating_sub

Pages == 0 .. Len(setup.lens) - 1
LenOf(p) == setup.lens[p + 1]
PageData(f, p) == <<f, p>>

Opened ==
    [ids |-> <<>>, files |-> <<>>, next_id |-> 0, slots |-> <<>>,
     free |-> [c \in DOMAIN ClassLen |-> <<>>], ring |-> <<>>, hand |-> 0,
     used |-> 0, footprint |-> 0, held |-> 0]

(* Slots CLOCK cannot evict. *)
HeldPinned(rec) == rec.pinned

Held(rec) == rec.pinned \/ rec.writing

id_of(d, f) ==
    IF f \in DOMAIN d.ids THEN d
    ELSE [d EXCEPT !.ids = (f :> d.next_id) @@ @,
                   !.files = (d.next_id :> [pages |-> <<>>, pinned |-> FALSE]) @@ @,
                   !.next_id = @ + 1]

slot_of(d, f, p) ==
    IF f \in DOMAIN d.ids /\ p \in DOMAIN d.files[d.ids[f]].pages
    THEN d.files[d.ids[f]].pages[p] ELSE NoSlot

(* Unmaps a slot from its page and puts it on its class's free list.  Its
   bytes are gone by the end of the critical section that calls this: the
   space is released, or the slot reused and about to be overwritten. *)
unmap(d, slot) ==
    LET rec == d.slots[slot]
        live == rec.file # NONE /\ ~rec.writing
        Without(pages) == Restrict(pages, {p \in DOMAIN pages : pages[p] # slot})
    IN  [d EXCEPT
            !.files = [id \in DOMAIN @ |-> IF live /\ id = rec.file
                          THEN [@[id] EXCEPT !.pages = Without(@)] ELSE @[id]],
            !.used = IF live THEN Less(@, rec.len) ELSE @,
            !.slots[slot] = [@ EXCEPT !.file = NONE, !.referenced = FALSE,
                                      !.pinned = FALSE, !.writing = FALSE,
                                      !.generation = (@ + 1) % 65536,
                                      !.data = Torn],
            !.footprint = Less(@, ClassLen[slot[1]]),
            !.held = IF Held(rec) THEN Less(@, ClassLen[slot[1]]) ELSE @,
            !.free[slot[1]] = Append(@, slot[2])]

(* One position of the CLOCK hand, unless the page already fits. *)
ClockStep(d, need) ==
    LET slot == d.ring[d.hand + 1]
        rec == d.slots[slot]
        moved == [d EXCEPT !.hand = IF @ + 1 >= Len(d.ring) THEN 0 ELSE @ + 1]
    IN  CASE d.footprint + need <= setup.budget -> d
          [] OTHER -> CASE rec.file = NONE \/ Held(rec) -> moved
                        [] rec.referenced -> [moved EXCEPT !.slots[slot].referenced = FALSE]
                        [] OTHER -> unmap(moved, slot)

Swept(d, need, steps) ==
    LET sweep[n \in 0 .. steps] ==
            IF n = 0 THEN d ELSE CHOOSE e \in {ClockStep(c, need) : c \in {sweep[n - 1]}} : TRUE
    IN  sweep[steps]

evictOneSweep(d, need) == Swept(d, need, Len(d.ring))

(* Two sweeps: the first may only clear reference bits. *)
evict(d, need) == Swept(d, need, 2 * Len(d.ring))

(* Nothing is evicted for a page that would not fit even then. *)
CanFit(d, need) == d.held + need <= setup.budget

(* Takes a slot of class c: a free one, or a new one at the ring's end. *)
TakeSlot(d, c) ==
    LET i == IF d.free[c] # <<>> THEN Last(d.free[c])
             ELSE Cardinality({s \in DOMAIN d.slots : s[1] = c}) + 1
        fresh == [file |-> NONE, page |-> 0, len |-> 0, generation |-> 0,
                  referenced |-> FALSE, pinned |-> FALSE, writing |-> FALSE, data |-> Torn]
        grown == [d EXCEPT !.slots = (<<c, i>> :> fresh) @@ @, !.ring = Append(@, <<c, i>>)]
        popped == [d EXCEPT !.free[c] = Front(@)]
        taken == IF d.free[c] # <<>> THEN popped ELSE grown
    IN  [disk |-> [taken EXCEPT !.footprint = @ + ClassLen[c]], slot |-> <<c, i>>]

(* A slot of class c, room made for it under the budget.  A pinned page gets
   one past the budget when nothing can be evicted, any other page NoSlot. *)
allocate(d, c, pinned) ==
    LET need == ClassLen[c]
        full == d.footprint + need > setup.budget
        swept == evict(d, need)
        fits == swept.footprint + need <= setup.budget
    IN  IF ~full THEN TakeSlot(d, c)
        ELSE IF ~pinned /\ ~CanFit(d, need) THEN [disk |-> d, slot |-> NoSlot]
        ELSE IF ~pinned /\ ~fits THEN [disk |-> swept, slot |-> NoSlot]
        ELSE TakeSlot(swept, c)

(* put, up to the unlock before the write: a slot for the page, NoSlot when the
   page is cached, gets none, or is longer than every class. *)
PutSlot(d, f, p) ==
    LET classes == {c \in DOMAIN ClassLen : LenOf(p) <= ClassLen[c]}
        class == CHOOSE c \in classes : \A o \in classes : c <= o
        known == id_of(d, f)
    IN  IF classes = {} \/ slot_of(d, f, p) # NoSlot THEN [disk |-> d, slot |-> NoSlot]
        ELSE allocate(known, class, known.files[known.ids[f]].pinned)

(* The slot's record while its bytes are written. *)
WriteInto(d, slot, f, p) ==
    LET id == d.ids[f]
    IN  [d EXCEPT !.slots[slot] = [@ EXCEPT !.file = id, !.page = p, !.len = LenOf(p),
                                            !.generation = (@ + 1) % 65536,
                                            !.referenced = FALSE,
                                            !.pinned = d.files[id].pinned,
                                            !.writing = TRUE],
                  !.held = @ + ClassLen[slot[1]]]

(* The file may have been pinned while its page was written. *)
PinnedWhenAllocated(d, w) == d.slots[w.slot].pinned

PinnedNow(d, w) == d.slots[w.slot].pinned \/ d.files[w.id].pinned

(* put, from the lock after the write.  w is the slot
   written, its file's id and its generation when it was taken. *)
Publish(d, f, p, w, ok) ==
    LET rec == d.slots[w.slot]
        ours == rec.generation = w.generation
        alive == ours /\ f \in DOMAIN d.ids /\ d.ids[f] = w.id
        pinned == PinnedNow(d, w)
    IN  IF ~ok \/ ~alive \/ slot_of(d, f, p) # NoSlot
        THEN IF ours THEN unmap(d, w.slot) ELSE d
        ELSE [d EXCEPT
                !.slots[w.slot] = [@ EXCEPT !.writing = FALSE, !.pinned = pinned,
                                            !.data = PageData(f, p)],
                !.held = IF pinned THEN @ ELSE Less(@, ClassLen[w.slot[1]]),
                !.used = @ + rec.len,
                !.files[w.id].pages = (p :> w.slot) @@ @]

(* Pins every page of the file, now and as they are cached. *)
pin(d, f) ==
    LET known == id_of(d, f)
        id == known.ids[f]
        cached == Range(known.files[id].pages)
        newly == {s \in cached : ~Held(known.slots[s])}
    IN  [known EXCEPT
            !.files[id].pinned = TRUE,
            !.slots = [s \in DOMAIN @ |-> IF s \in cached
                          THEN [@[s] EXCEPT !.pinned = TRUE] ELSE @[s]],
            !.held = @ + FoldFunction(+, 0, [s \in newly |-> ClassLen[s[1]]])]

(* Drops the file: its id, its page table and every slot of its pages. *)
forget_prefix(d, f) ==
    LET id == d.ids[f]
        pages == d.files[id].pages
        order == SetToSortSeq(DOMAIN pages, <)
        gone == [d EXCEPT !.ids = Restrict(@, DOMAIN @ \ {f}),
                          !.files = Restrict(@, DOMAIN @ \ {id})]
    IN  IF f \notin DOMAIN d.ids THEN d
        ELSE FoldLeft(LAMBDA e, p : IF e.slots[pages[p]].file = id
                                    THEN unmap(e, pages[p]) ELSE e,
                      gone, order)
=============================================================================
