------------------------------ MODULE PageCache ------------------------------
(***************************************************************************)
(* The fixed-page cache (lucene-store, page_cache.rs) over its disk tier.  *)
(* Readers call stored_pages: each page asked for comes from the disk      *)
(* tier, from another reader that is fetching it, or from the store.       *)
(* A miss also claims the missing pages of its download window.            *)
(*                                                                         *)
(* A slot of the in-flight table is fulfilled and removed in one step.  A  *)
(* reader that joins between the two would find the result already there,  *)
(* as one that joined just before.                                         *)
(***************************************************************************)
EXTENDS PageDisk

CONSTANTS Readers

VARIABLES inflight,  \* the pages being fetched, <<file, page>>
          reader,    \* each reader's call of stored_pages
          calls,     \* calls started
          forgets,   \* files dropped
          failures   \* requests, disk reads and disk writes that failed

vars == <<setup, disk, inflight, reader, calls, forgets, failures>>

Fields == {"files", "disk", "lens", "budget", "window", "request", "pinned", "most", "calls",
           "forgets", "failures"}

ASSUME SetupAssumption ==
    \A s \in Setups : /\ DOMAIN s = Fields
                      /\ s.lens \in Seq(Nat \ {0})
                      /\ s.window > 0 /\ s.request > 0
                      /\ s.files \subseteq Files /\ s.pinned \subseteq s.files

Failed == <<"failed">>     \* the result of a page whose request failed
Waiting == <<"waiting">>   \* no result yet

Idle == [pc |-> "idle", file |-> "none", asked |-> {}, todo |-> <<>>, slot |-> NoSlot,
         generation |-> 0, buf |-> Torn, mine |-> <<>>, theirs |-> <<>>, out |-> <<>>]

Init == /\ setup \in Setups
        /\ disk = Opened
        /\ inflight = {}
        /\ reader = [r \in Readers |-> Idle]
        /\ calls = 0 /\ forgets = 0 /\ failures = 0

(* The tier's State becomes d, the readers' calls rs.  A reader of a slot
   whose bytes change under its unlocked read gets bytes that are no page. *)
Becomes(d, rs) ==
    /\ disk' = d
    /\ reader' = [r \in Readers |->
          IF /\ rs[r].pc = "get"
             /\ rs[r].slot \in DOMAIN disk.slots
             /\ disk'.slots[rs[r].slot].data # disk.slots[rs[r].slot].data
          THEN [rs[r] EXCEPT !.buf = Torn] ELSE rs[r]]

\* A failure is an outcome of an I/O call, `failures` of them in a behaviour.
Outcome(ok) ==
    /\ ok \/ failures < setup.failures
    /\ failures' = failures + (IF ok THEN 0 ELSE 1)

(***************************************************************************)
(* stored_pages: the pages asked for, in order.                            *)
(***************************************************************************)
Call(r, f, pages) ==
    /\ reader[r].pc = "idle" /\ calls < setup.calls /\ Cardinality(pages) <= setup.most
    /\ calls' = calls + 1
    /\ reader' = [reader EXCEPT ![r] = [Idle EXCEPT !.pc = "look", !.file = f, !.asked = pages,
                                                    !.todo = SetToSortSeq(pages, <)]]
    /\ UNCHANGED <<setup, disk, inflight, forgets, failures>>

\* DiskTier::get, up to the unlock before the read.
GetBegin(r) ==
    LET me == reader[r]
        slot == slot_of(disk, me.file, Head(me.todo))
    IN  /\ me.pc = "look" /\ me.todo # <<>>
        /\ IF ~setup.disk \/ slot = NoSlot
           THEN /\ reader' = [reader EXCEPT ![r].pc = "claim"]
                /\ disk' = disk
           ELSE /\ reader' = [reader EXCEPT ![r] = [me EXCEPT !.pc = "get", !.slot = slot,
                                  !.generation = disk.slots[slot].generation,
                                  !.buf = disk.slots[slot].data]]
                /\ disk' = [disk EXCEPT !.slots[slot].referenced = TRUE]
        /\ UNCHANGED <<setup, inflight, calls, forgets, failures>>

\* Whether the slot just read still holds the page it held before the read.
SameMapped(r) == ~disk.slots[reader[r].slot].writing

Same(r) == /\ disk.slots[reader[r].slot].generation = reader[r].generation
           /\ ~disk.slots[reader[r].slot].writing

\* DiskTier::get, from the lock after the read: a hit, or a miss to claim.
GetEnd(r, ok) ==
    LET me == reader[r]
        hit == [me EXCEPT !.pc = "look", !.todo = Tail(@), !.out = (Head(me.todo) :> me.buf) @@ @]
        miss == [me EXCEPT !.pc = "claim"]
    IN  /\ me.pc = "get"
        /\ Outcome(ok)
        /\ Becomes(IF ~ok /\ Same(r) THEN unmap(disk, me.slot) ELSE disk,
                   [reader EXCEPT ![r] = IF ok /\ Same(r) THEN hit ELSE miss])
        /\ UNCHANGED <<setup, inflight, calls, forgets>>

Claimed == [stage |-> "claimed", slot |-> NoSlot, id |-> NONE, generation |-> 0]

\* Joins the fetch of a page in flight, or claims the page.
ClaimOrJoin(r) ==
    LET me == reader[r]
        p == Head(me.todo)
        key == <<me.file, p>>
    IN  /\ me.pc = "claim"
        /\ reader' = [reader EXCEPT ![r] =
              IF key \in inflight
              THEN [me EXCEPT !.pc = "look", !.todo = Tail(@), !.theirs = (p :> Waiting) @@ @]
              ELSE [me EXCEPT !.pc = "look", !.todo = Tail(@), !.mine = (p :> Claimed) @@ @]]
        /\ inflight' = inflight \union {key}
        /\ UNCHANGED <<setup, disk, calls, forgets, failures>>

(***************************************************************************)
(* claim_read_ahead: the missing, unclaimed pages of each claimed page's   *)
(* aligned download window.                                                *)
(***************************************************************************)
WindowPages(r) ==
    LET windows == {p \div setup.window : p \in DOMAIN reader[r].mine}
    IN  IF setup.disk THEN {p \in Pages \ reader[r].asked : p \div setup.window \in windows}
        ELSE {}

ReadAhead(r) ==
    /\ reader[r].pc = "look" /\ reader[r].todo = <<>>
    /\ reader' = [reader EXCEPT ![r].pc = "ahead", ![r].todo = SetToSortSeq(WindowPages(r), <)]
    /\ UNCHANGED <<setup, disk, inflight, calls, forgets, failures>>

\* DiskTier::contains.
AheadLook(r) ==
    LET me == reader[r]
    IN  /\ me.pc = "ahead" /\ me.todo # <<>>
        /\ reader' = [reader EXCEPT ![r] =
              IF slot_of(disk, me.file, Head(me.todo)) # NoSlot
              THEN [me EXCEPT !.todo = Tail(@)] ELSE [me EXCEPT !.pc = "aheadclaim"]]
        /\ UNCHANGED <<setup, disk, inflight, calls, forgets, failures>>

\* Whether a page of the window is claimed: not when another reader fetches it.
AheadClaimsAlways(key) == TRUE

AheadClaims(key) == key \notin inflight

AheadClaim(r) ==
    LET me == reader[r]
        key == <<me.file, Head(me.todo)>>
    IN  /\ me.pc = "aheadclaim"
        /\ reader' = [reader EXCEPT ![r] = [me EXCEPT !.pc = "ahead", !.todo = Tail(@),
              !.mine = IF AheadClaims(key) THEN (Head(me.todo) :> Claimed) @@ @ ELSE @]]
        /\ inflight' = inflight \union {key}
        /\ UNCHANGED <<setup, disk, calls, forgets, failures>>

(***************************************************************************)
(* fetch_runs: adjacent claimed pages in one request, the runs on threads  *)
(* of their own.  A run puts its pages on disk in order.                   *)
(***************************************************************************)
Fetching(r) == reader[r].pc = "ahead" /\ reader[r].todo = <<>>

\* The first page of p's run: runs start at a gap and every `request` pages after it.
RunOf(mine, p) ==
    LET gaps == {a \in mine : a - 1 \notin mine /\ a <= p /\ a .. p \subseteq mine}
        a == CHOOSE g \in gaps : TRUE
    IN  a + setup.request * ((p - a) \div setup.request)

Run(r, p) ==
    LET mine == DOMAIN reader[r].mine IN {q \in mine : RunOf(mine, q) = RunOf(mine, p)}

\* One request.  A short read, an error and a panic fail every page of the run.
FetchRun(r, p, ok) ==
    LET me == reader[r]
        next == IF ~ok THEN "failed" ELSE IF setup.disk THEN "fetched" ELSE "stored"
    IN  /\ Fetching(r) /\ p \in DOMAIN me.mine /\ me.mine[p].stage = "claimed"
        /\ RunOf(DOMAIN me.mine, p) = p
        /\ Outcome(ok)
        /\ reader' = [reader EXCEPT ![r].mine = [q \in DOMAIN @ |->
              IF q \in Run(r, p) THEN [@[q] EXCEPT !.stage = next] ELSE @[q]]]
        /\ UNCHANGED <<setup, disk, inflight, calls, forgets>>

PutBegin(r, p) ==
    LET me == reader[r]
    IN  /\ Fetching(r) /\ p \in DOMAIN me.mine /\ me.mine[p].stage = "fetched"
        /\ \A q \in Run(r, p) : q < p => me.mine[q].stage = "stored"
        /\ \E a \in {PutSlot(disk, me.file, p)} :
              IF a.slot = NoSlot
              THEN Becomes(a.disk, [reader EXCEPT ![r].mine[p].stage = "stored"])
              ELSE \E d \in {WriteInto(a.disk, a.slot, me.file, p)} :
                      Becomes(d, [reader EXCEPT ![r].mine[p] =
                          [stage |-> "writing", slot |-> a.slot, id |-> d.ids[me.file],
                           generation |-> d.slots[a.slot].generation]])
        /\ UNCHANGED <<setup, inflight, calls, forgets, failures>>

PutEnd(r, p, ok) ==
    LET me == reader[r]
    IN  /\ Fetching(r) /\ p \in DOMAIN me.mine /\ me.mine[p].stage = "writing"
        /\ Outcome(ok)
        /\ Becomes(Publish(disk, me.file, p, me.mine[p], ok),
                   [reader EXCEPT ![r].mine[p] = [Claimed EXCEPT !.stage = "stored"]])
        /\ UNCHANGED <<setup, inflight, calls, forgets>>

(***************************************************************************)
(* stored_pages, once every run is back: the claimed pages' results, then  *)
(* the results of the fetches joined.                                      *)
(***************************************************************************)
RunsBackFetched(r) == \A p \in DOMAIN reader[r].mine : reader[r].mine[p].stage = "stored"

RunsBack(r) == \A p \in DOMAIN reader[r].mine : reader[r].mine[p].stage \in {"stored", "failed"}

Fulfill(r) ==
    LET me == reader[r]
        p == CHOOSE q \in DOMAIN me.mine : \A o \in DOMAIN me.mine : q <= o
        result == IF me.mine[p].stage = "stored" THEN PageData(me.file, p) ELSE Failed
        joined(q) == reader[q].file = me.file /\ p \in DOMAIN reader[q].theirs
                         /\ reader[q].theirs[p] = Waiting
    IN  /\ Fetching(r) /\ me.mine # <<>> /\ RunsBack(r)
        /\ reader' = [q \in Readers |->
              IF q = r
              THEN [me EXCEPT !.mine = Restrict(@, DOMAIN @ \ {p}),
                              !.out = IF p \in me.asked THEN (p :> result) @@ @ ELSE @]
              ELSE IF joined(q) THEN [reader[q] EXCEPT !.theirs[p] = result]
              ELSE reader[q]]
        /\ inflight' = inflight \ {<<me.file, p>>}
        /\ UNCHANGED <<setup, disk, calls, forgets, failures>>

\* Slot::wait for each fetch joined, then the pages, or the first error.
Return(r) ==
    LET me == reader[r]
        out == me.theirs @@ me.out
        ok == DOMAIN out = me.asked /\ \A p \in DOMAIN out : out[p] # Failed
    IN  /\ Fetching(r) /\ me.mine = <<>>
        /\ \A p \in DOMAIN me.theirs : me.theirs[p] # Waiting
        /\ reader' = [reader EXCEPT ![r] = [Idle EXCEPT !.file = me.file,
              !.asked = IF ok THEN me.asked ELSE {}, !.out = IF ok THEN out ELSE <<>>]]
        /\ UNCHANGED <<setup, disk, inflight, calls, forgets, failures>>

(***************************************************************************)
(* The directory's calls: pin when a pinned file is opened, and            *)
(* forget_prefix when a file is deleted or written again.                  *)
(***************************************************************************)
Pin(f) ==
    /\ setup.disk /\ f \in setup.pinned
    /\ f \in DOMAIN disk.ids => ~disk.files[disk.ids[f]].pinned
    /\ Becomes(pin(disk, f), reader)
    /\ UNCHANGED <<setup, inflight, calls, forgets, failures>>

Forget(f) ==
    /\ forgets < setup.forgets /\ f \in DOMAIN disk.ids
    /\ forgets' = forgets + 1
    /\ Becomes(forget_prefix(disk, f), reader)
    /\ UNCHANGED <<setup, inflight, calls, failures>>

Step(r) ==
    \/ GetBegin(r) \/ ClaimOrJoin(r) \/ ReadAhead(r) \/ AheadLook(r) \/ AheadClaim(r)
    \/ \E ok \in BOOLEAN : GetEnd(r, ok)
    \/ \E p \in Pages, ok \in BOOLEAN : FetchRun(r, p, ok) \/ PutEnd(r, p, ok)
    \/ \E p \in Pages : PutBegin(r, p)
    \/ Fulfill(r) \/ Return(r)

Next ==
    \/ \E r \in Readers, f \in setup.files, pages \in SUBSET Pages \ {{}} : Call(r, f, pages)
    \/ \E r \in Readers : Step(r)
    \/ \E f \in setup.files : Pin(f) \/ Forget(f)

Spec == Init /\ [][Next]_vars

(* Readers are threads of their callers, and the store and the disk answer every
   request: while some started call can go on, one does.  Nobody has to call. *)
FairSpec == Spec /\ WF_vars(\E r \in Readers : Step(r))

(***************************************************************************)
(* Properties.                                                             *)
(***************************************************************************)
InUse == {s \in DOMAIN disk.slots : disk.slots[s].file # NONE}
Published == {s \in InUse : ~disk.slots[s].writing}
Sizes(S) == FoldFunction(+, 0, [s \in S |-> ClassLen[s[1]]])

(* A call returns the bytes of the pages it asked for, whatever slot they were
   read from: a slot evicted, forgotten and written again during the unlocked
   read of DiskTier::get is a miss, "never another page's bytes". *)
ReadsReturnTheAskedPages ==
    \A r \in Readers : \A p \in DOMAIN reader[r].out :
        reader[r].out[p] \in {PageData(reader[r].file, p), Failed}

(* Every slot is free exactly once, being written, or mapped by exactly the page
   its record names; and used, footprint and held, on which allocate decides, are
   the sums over those slots: put, unmap, pin and forget_prefix keep them so. *)
SlotsAccountedFor ==
    /\ \A c \in DOMAIN ClassLen :
          /\ IsInjective(disk.free[c])
          /\ Range(disk.free[c]) = {s[2] : s \in {s \in DOMAIN disk.slots \ InUse : s[1] = c}}
    /\ Published = UNION {Range(disk.files[id].pages) : id \in DOMAIN disk.files}
    /\ \A id \in DOMAIN disk.files : \A p \in DOMAIN disk.files[id].pages :
          LET rec == disk.slots[disk.files[id].pages[p]] IN rec.file = id /\ rec.page = p
    /\ disk.footprint = Sizes(InUse)
    /\ disk.held = Sizes({s \in InUse : disk.slots[s].pinned \/ disk.slots[s].writing})
    /\ disk.used = FoldFunction(+, 0, [s \in Published |-> disk.slots[s].len])

Cached(d, f) == IF f \in DOMAIN d.ids THEN DOMAIN d.files[d.ids[f]].pages ELSE {}

(* "Pages of pinned files are never evicted from disk": a cached page of a pinned
   file goes only when its file is forgotten or its slot cannot be read, even if it
   was being written when the file was pinned. *)
PinnedPagesStay ==
    [][forgets' = forgets /\ failures' = failures =>
          \A f \in DOMAIN disk.ids : disk.files[disk.ids[f]].pinned =>
              Cached(disk, f) \subseteq Cached(disk', f)]_vars

Evicts == forgets' = forgets /\ failures' = failures
              /\ \E f \in Files : ~(Cached(disk, f) \subseteq Cached(disk', f))
Gets(s) == disk'.slots[s].writing /\ (s \in DOMAIN disk.slots => ~disk.slots[s].writing)

(* "Nothing is evicted for a page that would not fit even then": allocate evicts only
   for a page that gets a slot in the same step.  And "A pinned page gets one past the
   budget when nothing can be evicted": when the slots in use pass the budget, no slot
   is left that CLOCK could have evicted, referenced ones included. *)
EvictionIsWarranted ==
    [][/\ Evicts => \E s \in DOMAIN disk'.slots : Gets(s)
       /\ disk'.footprint > disk.footprint /\ disk'.footprint > setup.budget =>
             disk'.held = disk'.footprint]_vars

(* "Concurrent misses on one page send one request": a page in flight is claimed by
   exactly one reader, read-ahead included, and nothing else is in flight. *)
EachPageFetchedOnce ==
    /\ inflight = {<<reader[r].file, p>> : <<r, p>> \in
                      {<<r, p>> \in Readers \X Pages : p \in DOMAIN reader[r].mine}}
    /\ \A r, q \in Readers : r # q /\ reader[r].file = reader[q].file =>
          DOMAIN reader[r].mine \intersect DOMAIN reader[q].mine = {}

(* Every call returns, however the readers join each other's fetches and whatever
   fails: a reader fetches and fulfils its own pages before it waits for others'. *)
ReadersReturn ==
    \A r \in Readers : reader[r].pc # "idle" ~> reader[r].pc = "idle"
=============================================================================
