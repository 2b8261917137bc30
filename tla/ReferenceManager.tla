-------------------------- MODULE ReferenceManager --------------------------
(***************************************************************************)
(* Sharing one searcher between threads and swapping in refreshed ones     *)
(* (lucene-search/src/reference_manager.rs): ReferenceManager, its refresh *)
(* listeners, the ControlledRealTimeReopenThread with the callers that     *)
(* wait for a generation, and LiveFieldValues.                             *)
(*                                                                         *)
(* A searcher is the writer's sequence number it shows.  Every operation   *)
(* of the writer updates the one document LiveFieldValues is asked about,  *)
(* so the value a searcher gives for it is that number too.                *)
(***************************************************************************)
EXTENDS Naturals, Sequences, FiniteSets, FiniteSetsExt

CONSTANTS
    Threads,      \* callers of maybe_refresh and maybe_refresh_blocking
    Reopen,       \* the ControlledRealTimeReopenThread
    Waiters,      \* callers of wait_for_generation
    Getters,      \* callers of LiveFieldValues::get
    None, Closed,
    MaxGen,       \* bound: operations of the writer
    Setups        \* the uses looked at: the calls made, and how often one fails

ASSUME SetupAssumption ==
    \A s \in Setups :
      s \in [ops : SUBSET {"refresh", "close_manager", "start", "close_thread", "live"},
             gens : 0..MaxGen, failures : Nat]

ASSUME ThreadAssumption == Reopen \notin Threads /\ None \notin Threads \union {Reopen}

ASSUME GenerationAssumption ==
    MaxGen \in Nat /\ None \notin 0..MaxGen /\ Closed \notin 0..MaxGen

VARIABLES
    setup,        \* the use looked at, the same all along
    indexed,      \* the writer's last completed operation
    current,      \* the managed searcher, or Closed
    lock,         \* the thread in refresh_lock, or None
    listeners,    \* "gens" (HandleRefresh) and "live" (LiveMaps), as registered
    thread,       \* what each refreshing thread is doing
    gens,         \* GenState
    closer,       \* ControlledRealTimeReopenThread::close
    waiter, get,
    maps,         \* LiveMaps: the value written since the refresh began, and before
    adding,       \* an operation done, its add not yet
    added,        \* history: the last value added
    failures

vars == <<indexed, current, lock, listeners, thread, gens, closer, waiter, get, maps, adding,
          added, failures, setup>>

Refreshers == Threads \union {Reopen}

(* i64::MAX *)
Forever == MaxGen + 1

Inside == {"acquire", "before", "open", "swap", "listen", "after"}

Moves(t, pc, new, result, todo) ==
    thread' = [thread EXCEPT ![t] = [pc |-> pc, new |-> new, result |-> result, todo |-> todo]]

Goes(t, pc) == Moves(t, pc, thread[t].new, thread[t].result, thread[t].todo)

MayFail == failures < setup.failures /\ failures' = failures + 1

-----------------------------------------------------------------------------
(* ReferenceManager *)

(* maybe_refresh and maybe_refresh_blocking of an open manager. *)
Refresh(t) ==
    /\ "refresh" \in setup.ops /\ thread[t].pc = "idle" /\ current # Closed
    /\ \E pc \in {"try", "lock"} : Goes(t, pc)
    /\ UNCHANGED <<setup, indexed, current, lock, listeners, gens, closer, waiter, get, maps,
                   adding, added, failures>>

(* Mutant: the refresh lock is not taken. *)
LockAlwaysFree == TRUE

LockFree == lock = None

Lock(t) ==
    /\ \/ /\ thread[t].pc \in {"try", "lock"} /\ LockFree
          /\ lock' = t
          /\ Goes(t, "acquire")
       \/ /\ thread[t].pc = "try" /\ ~LockFree
          /\ Goes(t, "idle")
          /\ UNCHANGED lock
    /\ UNCHANGED <<setup, indexed, current, listeners, gens, closer, waiter, get, maps, adding,
                   added, failures>>

(* The return of a refresh; an error ends the reopen thread. *)
Leave(t, result) ==
    /\ lock' = None
    /\ Moves(t, IF t # Reopen THEN "idle" ELSE IF result = "ok" THEN "sleep" ELSE "dead",
             None, "ok", <<>>)

Acquire(t) ==
    /\ thread[t].pc = "acquire"
    /\ IF current = Closed
         THEN Leave(t, "err")
         ELSE /\ Moves(t, "before", current, thread[t].result, listeners)
              /\ UNCHANGED lock
    /\ UNCHANGED <<setup, indexed, current, listeners, gens, closer, waiter, get, maps, adding,
                   added, failures>>

(* before_refresh of the next listener: HandleRefresh takes the generation *)
(* the refresh will make visible, LiveMaps starts a new map.                *)
BeforeRefresh(t) ==
    /\ thread[t].pc = "before"
    /\ \/ /\ thread[t].todo = <<>>
          /\ Goes(t, "open")
          /\ UNCHANGED <<lock, gens, maps, failures>>
       \/ /\ thread[t].todo # <<>>
          /\ Moves(t, "before", thread[t].new, thread[t].result, Tail(thread[t].todo))
          /\ gens' = IF Head(thread[t].todo) = "gens"
                       THEN [gens EXCEPT !.start = indexed] ELSE gens
          /\ maps' = IF Head(thread[t].todo) = "live"
                       THEN [current |-> 0, old |-> maps.current] ELSE maps
          /\ UNCHANGED <<lock, failures>>
       \/ (* a listener of the application fails *)
          MayFail /\ Leave(t, "err") /\ UNCHANGED <<gens, maps>>
    /\ UNCHANGED <<setup, indexed, current, listeners, closer, waiter, get, adding, added>>

(* refresh_if_needed: a searcher of all the writer has, or none needed. *)
RefreshIfNeeded(t) ==
    /\ thread[t].pc = "open"
    /\ \/ /\ Moves(t, IF indexed = thread[t].new THEN "listen" ELSE "swap", indexed,
                   thread[t].result, thread[t].todo)
          /\ UNCHANGED failures
       \/ MayFail /\ Moves(t, "listen", thread[t].new, "err", thread[t].todo)
    /\ UNCHANGED <<setup, indexed, current, lock, listeners, gens, closer, waiter, get, maps,
                   adding, added>>

(* Mutant: a refresh swaps its searcher into a closed manager. *)
SwappableAlways == TRUE

Swappable == current # Closed

swap_reference(t) ==
    /\ thread[t].pc = "swap"
    /\ current' = IF Swappable THEN thread[t].new ELSE current
    /\ Moves(t, "listen", thread[t].new, IF Swappable THEN "ok" ELSE "err", thread[t].todo)
    /\ UNCHANGED <<setup, indexed, lock, listeners, gens, closer, waiter, get, maps, adding,
                   added, failures>>

Listen(t) ==
    /\ thread[t].pc = "listen"
    /\ Moves(t, "after", thread[t].new, thread[t].result, listeners)
    /\ UNCHANGED <<setup, indexed, current, lock, listeners, gens, closer, waiter, get, maps,
                   adding, added, failures>>

(* Mutant: no waiter is notified. *)
NotifiedNone == waiter

(* searching.notify_all() *)
Notified ==
    [w \in Waiters |-> IF waiter[w].pc = "asleep" THEN [waiter[w] EXCEPT !.pc = "awake"]
                       ELSE waiter[w]]

(* Mutant: the generation searched is read when the refresh ends. *)
SearchingNow == indexed

SearchingAfter == gens.start

(* Mutant: the values added during the refresh are dropped with the old. *)
MapsCleared == [current |-> 0, old |-> 0]

MapsAfter == [maps EXCEPT !.old = 0]

(* after_refresh of the next listener, whether or not the refresh succeeded. *)
AfterRefresh(t) ==
    /\ thread[t].pc = "after"
    /\ \/ /\ thread[t].todo = <<>>
          /\ Leave(t, thread[t].result)
          /\ UNCHANGED <<gens, waiter, maps, failures>>
       \/ /\ thread[t].todo # <<>>
          /\ Moves(t, "after", thread[t].new, thread[t].result, Tail(thread[t].todo))
          /\ IF Head(thread[t].todo) = "gens"
               THEN /\ gens' = [gens EXCEPT !.searching = SearchingAfter]
                    /\ waiter' = Notified
               ELSE UNCHANGED <<gens, waiter>>
          /\ maps' = IF Head(thread[t].todo) = "live" THEN MapsAfter ELSE maps
          /\ UNCHANGED <<lock, failures>>
       \/ MayFail /\ Leave(t, "err") /\ UNCHANGED <<gens, waiter, maps>>
    /\ UNCHANGED <<setup, indexed, current, listeners, closer, get, adding, added>>

CloseManager ==
    /\ "close_manager" \in setup.ops /\ current # Closed
    /\ current' = Closed
    /\ UNCHANGED <<setup, indexed, lock, listeners, thread, gens, closer, waiter, get, maps,
                   adding, added, failures>>

-----------------------------------------------------------------------------
(* ControlledRealTimeReopenThread *)

Start ==
    /\ "start" \in setup.ops /\ thread[Reopen].pc = "off"
    /\ listeners' = Append(listeners, "gens")
    /\ Goes(Reopen, "sleep")
    /\ UNCHANGED <<setup, indexed, current, lock, gens, closer, waiter, get, maps, adding, added,
                   failures>>

(* run: the wait of min_stale or max_stale is over. *)
Run ==
    /\ thread[Reopen].pc = "sleep"
    /\ Goes(Reopen, IF gens.finish THEN "done" ELSE IF current = Closed THEN "dead" ELSE "lock")
    /\ UNCHANGED <<setup, indexed, current, lock, listeners, gens, closer, waiter, get, maps,
                   adding, added, failures>>

(* wait_for_generation(target, max_wait); `timed` is a max_wait of Some. *)
WaitForGeneration(w) ==
    /\ waiter[w].pc = "idle" /\ thread[Reopen].pc # "off"
    /\ \E target \in 1..indexed, timed \in BOOLEAN :
         /\ waiter' = [waiter EXCEPT ![w] =
                         [pc |-> IF target > gens.searching THEN "asleep" ELSE "true",
                          target |-> target, timed |-> timed]]
         /\ gens' = IF target > gens.searching
                      THEN [gens EXCEPT !.waiting = Max({@, target})] ELSE gens
    /\ UNCHANGED <<setup, indexed, current, lock, listeners, thread, closer, get, maps, adding,
                   added, failures>>

WaiterWakes(w) ==
    /\ \/ /\ waiter[w].pc = "awake"
          /\ waiter' = [waiter EXCEPT ![w].pc = IF waiter[w].target > gens.searching THEN "asleep"
                                                ELSE "true"]
       \/ /\ waiter[w].pc = "asleep" /\ waiter[w].timed
          /\ waiter' = [waiter EXCEPT ![w].pc = IF waiter[w].target > gens.searching THEN "false"
                                                ELSE "true"]
    /\ UNCHANGED <<setup, indexed, current, lock, listeners, thread, gens, closer, get, maps,
                   adding, added, failures>>

(* close: ask the thread to finish, join it, let every generation pass. *)
CloseThread ==
    /\ \/ /\ closer = "open" /\ "close_thread" \in setup.ops /\ thread[Reopen].pc # "off"
          /\ closer' = "join"
          /\ gens' = [gens EXCEPT !.finish = TRUE]
          /\ UNCHANGED waiter
       \/ /\ closer = "join" /\ thread[Reopen].pc \in {"done", "dead"}
          /\ closer' = "closed"
          /\ gens' = [gens EXCEPT !.searching = Forever]
          /\ waiter' = Notified
    /\ UNCHANGED <<setup, indexed, current, lock, listeners, thread, get, maps, adding, added,
                   failures>>

-----------------------------------------------------------------------------
(* LiveFieldValues, and the application that indexes and adds *)

HasLive(s) == \E i \in DOMAIN s : s[i] = "live"

Without(s, i) == SubSeq(s, 1, i - 1) \o SubSeq(s, i + 1, Len(s))

NewLiveFieldValues ==
    /\ "live" \in setup.ops /\ added = 0 /\ ~HasLive(listeners)
    /\ listeners' = Append(listeners, "live")
    /\ UNCHANGED <<setup, indexed, current, lock, thread, gens, closer, waiter, get, maps,
                   adding, added, failures>>

(* close: stops listening; the application is done with it. *)
CloseLiveFieldValues ==
    /\ adding = None
    /\ \E i \in DOMAIN listeners :
         listeners[i] = "live" /\ listeners' = Without(listeners, i)
    /\ UNCHANGED <<setup, indexed, current, lock, thread, gens, closer, waiter, get, maps,
                   adding, added, failures>>

(* An operation of the writer completes; its add comes after it. *)
Index ==
    /\ indexed < setup.gens /\ adding = None
    /\ indexed' = indexed + 1
    /\ adding' = IF HasLive(listeners) THEN indexed + 1 ELSE None
    /\ UNCHANGED <<setup, current, lock, listeners, thread, gens, closer, waiter, get, maps,
                   added, failures>>

Add ==
    /\ adding # None
    /\ maps' = [maps EXCEPT !.current = adding]
    /\ added' = adding
    /\ adding' = None
    /\ UNCHANGED <<setup, indexed, current, lock, listeners, thread, gens, closer, waiter, get,
                   failures>>

(* get: the maps, or the searcher acquired after they were read. *)
Get(g) ==
    /\ \/ /\ get[g].pc = "idle" /\ HasLive(listeners)
          /\ LET found == IF maps.current # 0 THEN maps.current ELSE maps.old
             IN get' = [get EXCEPT ![g] = [pc |-> IF found # 0 THEN "done" ELSE "acquire",
                                           floor |-> added, got |-> found]]
       \/ /\ get[g].pc = "acquire"
          /\ get' = [get EXCEPT ![g] = [pc |-> IF current = Closed THEN "closed" ELSE "done",
                                        floor |-> @.floor,
                                        got |-> IF current = Closed THEN 0 ELSE current]]
    /\ UNCHANGED <<setup, indexed, current, lock, listeners, thread, gens, closer, waiter, maps,
                   adding, added, failures>>

-----------------------------------------------------------------------------
Init ==
    /\ setup \in Setups
    /\ indexed = 0 /\ current = 0 /\ lock = None /\ listeners = <<>>
    /\ thread = [t \in Refreshers |-> [pc |-> IF t = Reopen THEN "off" ELSE "idle", new |-> None,
                                       result |-> "ok", todo |-> <<>>]]
    /\ gens = [finish |-> FALSE, waiting |-> 0, searching |-> 0, start |-> 0]
    /\ closer = "open"
    /\ waiter = [w \in Waiters |-> [pc |-> "idle", target |-> 0, timed |-> FALSE]]
    /\ get = [g \in Getters |-> [pc |-> "idle", floor |-> 0, got |-> 0]]
    /\ maps = [current |-> 0, old |-> 0]
    /\ adding = None /\ added = 0 /\ failures = 0

RefreshStep(t) ==
    Lock(t) \/ Acquire(t) \/ BeforeRefresh(t) \/ RefreshIfNeeded(t) \/ swap_reference(t)
    \/ Listen(t) \/ AfterRefresh(t)

Next ==
    \/ \E t \in Threads : Refresh(t)
    \/ \E t \in Refreshers : RefreshStep(t)
    \/ CloseManager
    \/ Start \/ Run \/ CloseThread
    \/ \E w \in Waiters : WaitForGeneration(w) \/ WaiterWakes(w)
    \/ NewLiveFieldValues \/ CloseLiveFieldValues \/ Index \/ Add
    \/ \E g \in Getters : Get(g)

Spec == Init /\ [][Next]_vars

(* Every thread that is inside a call goes on with it, the waits of run     *)
(* time out, and notified waiters run.  Nothing makes the application call. *)
Fairness ==
    /\ \A t \in Refreshers : WF_vars(RefreshStep(t))
    /\ WF_vars(Run)
    /\ \A w \in Waiters : WF_vars(WaiterWakes(w))
    /\ WF_vars(closer = "join" /\ CloseThread)

FairSpec == Spec /\ Fairness

-----------------------------------------------------------------------------
(* Properties *)

Outside == {"off", "idle", "try", "lock", "sleep", "done", "dead"}

Listeners == {"gens", "live"}
ThreadState == [pc : Outside \union Inside, new : (0..MaxGen) \union {None},
                result : {"ok", "err"}, todo : Seq(Listeners)]
GenState == [finish : BOOLEAN, waiting : 0..MaxGen, searching : 0..Forever, start : 0..MaxGen]
WaiterState == [pc : {"idle", "asleep", "awake", "true", "false"}, target : 0..MaxGen,
                timed : BOOLEAN]
GetState == [pc : {"idle", "acquire", "done", "closed"}, floor : 0..MaxGen, got : 0..MaxGen]
LiveMaps == [current : 0..MaxGen, old : 0..MaxGen]

(* Type invariant; a thread is inside do_maybe_refresh exactly while it has *)
(* the refresh lock (refresh_lock: one refresh at a time).                  *)
TypeOK ==
    /\ setup \in Setups
    /\ indexed \in 0..MaxGen /\ current \in (0..MaxGen) \union {Closed}
    /\ lock \in Refreshers \union {None}
    /\ listeners \in Seq(Listeners)
    /\ thread \in [Refreshers -> ThreadState]
    /\ gens \in GenState
    /\ closer \in {"open", "join", "closed"}
    /\ waiter \in [Waiters -> WaiterState]
    /\ get \in [Getters -> GetState]
    /\ maps \in LiveMaps
    /\ adding \in (1..MaxGen) \union {None} /\ added \in 0..MaxGen
    /\ failures \in Nat
    /\ \A t \in Refreshers : thread[t].pc \in Inside <=> lock = t

(* wait_for_generation answers true only once the current searcher shows the *)
(* generation it was asked for, while the manager and the thread are open    *)
(* and no refresh has failed: the generation announced is the one taken      *)
(* before the searcher was opened.                                           *)
WaitersSeeTheirGeneration ==
    \A w \in Waiters :
      waiter[w].pc = "true" /\ current # Closed /\ closer # "closed" /\ failures = 0
        => waiter[w].target <= current

(* LiveFieldValues::get gives a value at least as new as the last one added  *)
(* before it was called, however a refresh moves values from the maps to the *)
(* searcher meanwhile, as long as none fails.                                *)
LiveReadsAreCurrent ==
    \A g \in Getters : get[g].pc = "done" /\ failures = 0 => get[g].got >= get[g].floor

(* Searchers only get newer, and a closed manager stays closed, a refresh    *)
(* that was opening its searcher when it was closed included, whatever fails. *)
SearchersOnlyAdvance ==
    [][ \/ current' = Closed
        \/ current # Closed /\ current' >= current ]_vars

(* A caller of wait_for_generation returns, whoever refreshes: the thread or *)
(* another caller, whose refresh may have begun before the generation it     *)
(* waits for; that is until a refresh fails, which ends the thread, or the   *)
(* manager or the thread is closed.                                          *)
WaitersReturn ==
    \A w \in Waiters :
      waiter[w].pc = "asleep"
        ~> \/ waiter[w].pc \in {"true", "false"}
           \/ failures > 0 \/ current = Closed \/ closer # "open"

(* The documentation of close and of wait_for_generation: every waiter is    *)
(* released when the reopen thread is closed.                                *)
CloseReleasesWaiters ==
    \A w \in Waiters :
      waiter[w].pc = "asleep" /\ closer = "join" ~> waiter[w].pc \in {"true", "false"}

(* The documentation of wait_for_generation: it blocks until a refresh has   *)
(* made the generation searchable.                                           *)
TrueMeansSearchable ==
    \A w \in Waiters :
      waiter[w].pc = "true" /\ current # Closed /\ closer # "closed" => waiter[w].target <= current

(* The documentation of LiveMaps: what a refresh drops, it made searchable.  *)
DroppedMeansSearchable ==
    \A g \in Getters : get[g].pc = "done" => get[g].got >= get[g].floor
=============================================================================
