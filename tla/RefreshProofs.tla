---------------------------- MODULE RefreshProofs ----------------------------
(***************************************************************************)
(* Proofs about ReferenceManager for any number of threads, waiters,       *)
(* readers, operations, failures and uses: types and the refresh lock,     *)
(* searchers that only get newer, wait_for_generation's true, and the live *)
(* values read while a refresh moves them from the maps to the searcher.   *)
(***************************************************************************)
EXTENDS ReferenceManager, TLAPS

(* Between acquire and the swap a refresh holds a searcher. *)
HoldsInv ==
    \A t \in Refreshers :
      thread[t].pc \in {"before", "open", "swap"} => thread[t].new \in 0..MaxGen

(* It first holds the current searcher, then the one it opened, which is no  *)
(* older.                                                                    *)
OpenedInv ==
    \A t \in Refreshers :
      /\ thread[t].pc \in {"before", "open"} => current \in {thread[t].new, Closed}
      /\ thread[t].pc = "swap" =>
           thread[t].new <= indexed /\ (current # Closed => current <= thread[t].new)

(* Nothing shows more than the writer has done. *)
IndexedInv ==
    /\ current # Closed => current <= indexed
    /\ gens.start <= indexed
    /\ added <= indexed /\ maps.current <= indexed /\ maps.old <= indexed
    /\ adding # None => adding <= indexed

(* n is a generation that the searcher swapped in by the refresh in progress *)
(* will show, and that the current one shows when there is none.             *)
Shown(n) ==
    /\ lock = None => n <= current
    /\ \A t \in Refreshers :
         /\ thread[t].pc \in {"acquire", "listen", "after"} => n <= current
         /\ thread[t].pc = "swap" => n <= thread[t].new

(* The generation taken by before_refresh is searchable once the refresh is *)
(* through, and so is the one announced; the values set aside are too.      *)
ShownInv ==
    current # Closed /\ failures = 0 =>
      /\ Shown(gens.start) /\ Shown(maps.old)
      /\ closer # "closed" => gens.searching <= current
      /\ \A t \in Refreshers :
           thread[t].pc = "before" /\ HasLive(thread[t].todo) => maps.old <= current

(* LiveFieldValues listens once. *)
Once(s) == \A i, j \in DOMAIN s : s[i] = "live" /\ s[j] = "live" => i = j

OnceInv ==
    /\ Once(listeners)
    /\ \A t \in Refreshers : Once(thread[t].todo)

(* The last value added is in the newer map that is not empty, or else in   *)
(* the searcher.                                                            *)
MapsInv ==
    /\ maps.current # 0 => maps.current = added
    /\ maps.current = 0 /\ maps.old # 0 => maps.old = added
    /\ maps.current = 0 /\ maps.old = 0 /\ current # Closed /\ failures = 0 => added <= current
    /\ \A g \in Getters :
         get[g].pc = "acquire" /\ current # Closed /\ failures = 0 => get[g].floor <= current

IInv ==
    /\ TypeOK
    /\ HoldsInv
    /\ OpenedInv
    /\ IndexedInv
    /\ ShownInv
    /\ OnceInv
    /\ MapsInv
    /\ WaitersSeeTheirGeneration
    /\ LiveReadsAreCurrent

-----------------------------------------------------------------------------
(* What the steps of a refreshing thread do to the threads and the lock *)

OnlyMoves(t) ==
    /\ thread' \in [Refreshers -> ThreadState]
    /\ \A u \in Refreshers : u # t => thread'[u] = thread[u]

LEMMA ThreadTypes ==
  ASSUME TypeOK, NEW t \in Refreshers
  PROVE  /\ thread[t].pc \in Outside \union Inside
         /\ thread[t].new \in (0..MaxGen) \union {None}
         /\ thread[t].result \in {"ok", "err"}
         /\ thread[t].todo \in Seq(Listeners)
         /\ thread[t].todo # <<>> =>
              /\ Head(thread[t].todo) \in Listeners
              /\ Tail(thread[t].todo) \in Seq(Listeners)
  BY SMT DEF TypeOK, ThreadState

LEMMA GenTypes ==
  ASSUME TypeOK
  PROVE  /\ gens.finish \in BOOLEAN /\ gens.waiting \in 0..MaxGen
         /\ gens.searching \in 0..Forever /\ gens.start \in 0..MaxGen
         /\ maps.current \in 0..MaxGen /\ maps.old \in 0..MaxGen
  BY SMT DEF TypeOK, GenState, LiveMaps

LEMMA GoesEffect ==
  ASSUME TypeOK, NEW t \in Refreshers, NEW pc \in Outside \union Inside, Goes(t, pc)
  PROVE  /\ OnlyMoves(t)
         /\ thread'[t].pc = pc /\ thread'[t].new = thread[t].new
         /\ thread'[t].todo = thread[t].todo
  BY ThreadTypes, SMT DEF TypeOK, Goes, Moves, ThreadState, OnlyMoves

LEMMA LeaveEffect ==
  ASSUME TypeOK, NEW t \in Refreshers, NEW result \in {"ok", "err"}, Leave(t, result)
  PROVE  /\ OnlyMoves(t) /\ lock' = None
         /\ thread'[t].pc \in {"idle", "sleep", "dead"} /\ thread'[t].todo = <<>>
  BY SMT DEF TypeOK, Leave, Moves, ThreadState, OnlyMoves, Outside

LEMMA RefreshEffect ==
  ASSUME TypeOK, NEW t \in Threads, Refresh(t)
  PROVE  /\ t \in Refreshers /\ OnlyMoves(t) /\ lock' = lock
         /\ thread[t].pc \in Outside /\ thread'[t].pc \in Outside
         /\ thread'[t].todo = thread[t].todo
<1>1. PICK pc \in {"try", "lock"} : Goes(t, pc)
  BY Zenon DEF Refresh
<1>2. t \in Refreshers /\ pc \in Outside /\ "idle" \in Outside
  BY Zenon DEF Refreshers, Outside
<1>3. QED
  BY <1>1, <1>2, GoesEffect DEF Refresh

LEMMA LockEffect ==
  ASSUME TypeOK, NEW t \in Refreshers, Lock(t)
  PROVE  /\ OnlyMoves(t) /\ thread[t].pc \in Outside /\ thread'[t].todo = thread[t].todo
         /\ \/ lock = None /\ lock' = t /\ thread'[t].pc = "acquire"
            \/ lock' = lock /\ thread'[t].pc \in Outside
<1>1. "acquire" \in Inside /\ {"try", "lock", "idle"} \subseteq Outside
  BY Zenon DEF Inside, Outside
<1>2. CASE thread[t].pc \in {"try", "lock"} /\ LockFree /\ lock' = t /\ Goes(t, "acquire")
  BY <1>1, <1>2, GoesEffect DEF LockFree
<1>3. CASE thread[t].pc = "try" /\ ~LockFree /\ Goes(t, "idle") /\ UNCHANGED lock
  BY <1>1, <1>3, GoesEffect
<1>4. QED
  BY <1>2, <1>3, Zenon DEF Lock

LEMMA AcquireEffect ==
  ASSUME TypeOK, NEW t \in Refreshers, Acquire(t)
  PROVE  /\ OnlyMoves(t) /\ thread[t].pc = "acquire"
         /\ \/ /\ current = Closed /\ lock' = None
               /\ thread'[t].pc \in {"idle", "sleep", "dead"} /\ thread'[t].todo = <<>>
            \/ /\ current # Closed /\ lock' = lock /\ thread'[t].pc = "before"
               /\ thread'[t].new = current /\ thread'[t].todo = listeners
<1>1. CASE current = Closed /\ Leave(t, "err")
  BY <1>1, LeaveEffect DEF Acquire
<1>2. CASE current # Closed /\ lock' = lock /\ Moves(t, "before", current, thread[t].result, listeners)
  BY <1>2, ThreadTypes, SMT DEF TypeOK, Acquire, Moves, ThreadState, OnlyMoves, Inside
<1>3. QED
  BY <1>1, <1>2, Zenon DEF Acquire

LEMMA BeforeRefreshEffect ==
  ASSUME TypeOK, NEW t \in Refreshers, BeforeRefresh(t)
  PROVE  /\ OnlyMoves(t) /\ thread[t].pc = "before"
         /\ \/ /\ lock' = lock /\ UNCHANGED <<gens, maps, failures>>
               /\ thread'[t].pc = "open" /\ thread'[t].new = thread[t].new
               /\ thread[t].todo = <<>> /\ thread'[t].todo = <<>>
            \/ /\ lock' = lock /\ UNCHANGED failures
               /\ thread'[t].pc = "before" /\ thread'[t].new = thread[t].new
               /\ thread[t].todo # <<>> /\ thread'[t].todo = Tail(thread[t].todo)
               /\ gens' = IF Head(thread[t].todo) = "gens"
                            THEN [gens EXCEPT !.start = indexed] ELSE gens
               /\ maps' = IF Head(thread[t].todo) = "live"
                            THEN [current |-> 0, old |-> maps.current] ELSE maps
            \/ /\ failures' = failures + 1 /\ lock' = None /\ UNCHANGED <<gens, maps>>
               /\ thread'[t].pc \in {"idle", "sleep", "dead"} /\ thread'[t].todo = <<>>
<1>1. CASE thread[t].todo = <<>> /\ Goes(t, "open") /\ UNCHANGED <<lock, gens, maps, failures>>
  <2>1. "open" \in Inside
    BY Zenon DEF Inside
  <2>2. QED
    BY <1>1, <2>1, GoesEffect DEF BeforeRefresh
<1>2. CASE /\ thread[t].todo # <<>>
           /\ Moves(t, "before", thread[t].new, thread[t].result, Tail(thread[t].todo))
           /\ gens' = IF Head(thread[t].todo) = "gens"
                        THEN [gens EXCEPT !.start = indexed] ELSE gens
           /\ maps' = IF Head(thread[t].todo) = "live"
                        THEN [current |-> 0, old |-> maps.current] ELSE maps
           /\ UNCHANGED <<lock, failures>>
  <2>1. /\ OnlyMoves(t) /\ thread'[t].pc = "before" /\ thread'[t].new = thread[t].new
        /\ thread'[t].todo = Tail(thread[t].todo)
    BY <1>2, ThreadTypes, SMT DEF TypeOK, Moves, ThreadState, OnlyMoves, Inside
  <2>2. QED
    BY <1>2, <2>1, Zenon DEF BeforeRefresh
<1>3. CASE MayFail /\ Leave(t, "err") /\ UNCHANGED <<gens, maps>>
  BY <1>3, LeaveEffect DEF BeforeRefresh, MayFail
<1>4. QED
  BY <1>1, <1>2, <1>3, Zenon DEF BeforeRefresh

LEMMA RefreshIfNeededEffect ==
  ASSUME TypeOK, NEW t \in Refreshers, RefreshIfNeeded(t)
  PROVE  /\ OnlyMoves(t) /\ thread[t].pc = "open" /\ thread'[t].todo = thread[t].todo
         /\ \/ /\ UNCHANGED failures /\ thread'[t].new = indexed
               /\ thread'[t].pc = IF indexed = thread[t].new THEN "listen" ELSE "swap"
            \/ failures' = failures + 1 /\ thread'[t].pc = "listen"
<1>1. CASE /\ Moves(t, IF indexed = thread[t].new THEN "listen" ELSE "swap", indexed,
                    thread[t].result, thread[t].todo)
           /\ UNCHANGED failures
  BY <1>1, ThreadTypes, SMT DEF RefreshIfNeeded, TypeOK, Moves, ThreadState, OnlyMoves, Inside
<1>2. CASE MayFail /\ Moves(t, "listen", thread[t].new, "err", thread[t].todo)
  BY <1>2, ThreadTypes, SMT DEF RefreshIfNeeded, MayFail, TypeOK, Moves, ThreadState, OnlyMoves,
                                Inside
<1>3. QED
  BY <1>1, <1>2, Zenon DEF RefreshIfNeeded

LEMMA SwapEffect ==
  ASSUME TypeOK, NEW t \in Refreshers, swap_reference(t)
  PROVE  /\ OnlyMoves(t) /\ thread[t].pc = "swap" /\ thread'[t].pc = "listen"
         /\ thread'[t].todo = thread[t].todo
         /\ current' = IF current # Closed THEN thread[t].new ELSE current
  BY ThreadTypes, SMT DEF swap_reference, Swappable, TypeOK, Moves, ThreadState, OnlyMoves, Inside

LEMMA ListenEffect ==
  ASSUME TypeOK, NEW t \in Refreshers, Listen(t)
  PROVE  /\ OnlyMoves(t) /\ thread[t].pc = "listen" /\ thread'[t].pc = "after"
         /\ thread'[t].todo = listeners
  BY ThreadTypes, SMT DEF Listen, TypeOK, Moves, ThreadState, OnlyMoves, Inside

LEMMA AfterRefreshEffect ==
  ASSUME TypeOK, NEW t \in Refreshers, AfterRefresh(t)
  PROVE  /\ OnlyMoves(t) /\ thread[t].pc = "after"
         /\ \/ /\ lock' = None /\ UNCHANGED <<gens, waiter, maps>>
               /\ failures' \in {failures, failures + 1}
               /\ thread'[t].pc \in {"idle", "sleep", "dead"} /\ thread'[t].todo = <<>>
            \/ /\ lock' = lock /\ UNCHANGED failures
               /\ thread'[t].pc = "after"
               /\ thread[t].todo # <<>> /\ thread'[t].todo = Tail(thread[t].todo)
               /\ \/ gens' = [gens EXCEPT !.searching = gens.start] /\ waiter' = Notified
                  \/ UNCHANGED <<gens, waiter>>
               /\ maps' \in {maps, [maps EXCEPT !.old = 0]}
<1>1. CASE Leave(t, thread[t].result) /\ UNCHANGED <<gens, waiter, maps, failures>>
  BY <1>1, LeaveEffect, ThreadTypes DEF AfterRefresh
<1>2. CASE /\ thread[t].todo # <<>>
           /\ Moves(t, "after", thread[t].new, thread[t].result, Tail(thread[t].todo))
           /\ IF Head(thread[t].todo) = "gens"
                THEN gens' = [gens EXCEPT !.searching = SearchingAfter] /\ waiter' = Notified
                ELSE UNCHANGED <<gens, waiter>>
           /\ maps' = IF Head(thread[t].todo) = "live" THEN MapsAfter ELSE maps
           /\ UNCHANGED <<lock, failures>>
  <2>1. /\ OnlyMoves(t) /\ thread'[t].pc = "after" /\ thread'[t].todo = Tail(thread[t].todo)
    BY <1>2, ThreadTypes, SMT DEF TypeOK, Moves, ThreadState, OnlyMoves, Inside
  <2>2. maps' \in {maps, [maps EXCEPT !.old = 0]}
    BY <1>2, Zenon DEF MapsAfter
  <2>3. \/ gens' = [gens EXCEPT !.searching = gens.start] /\ waiter' = Notified
        \/ UNCHANGED <<gens, waiter>>
    BY <1>2, Zenon DEF SearchingAfter
  <2>4. QED
    BY <1>2, <2>1, <2>2, <2>3, Zenon DEF AfterRefresh
<1>3. CASE MayFail /\ Leave(t, "err") /\ UNCHANGED <<gens, waiter, maps>>
  BY <1>3, LeaveEffect DEF AfterRefresh, MayFail
<1>4. QED
  BY <1>1, <1>2, <1>3, Zenon DEF AfterRefresh

LEMMA StartEffect ==
  ASSUME TypeOK, Start
  PROVE  /\ Reopen \in Refreshers /\ OnlyMoves(Reopen) /\ lock' = lock
         /\ thread[Reopen].pc \in Outside /\ thread'[Reopen].pc \in Outside
         /\ thread'[Reopen].todo = thread[Reopen].todo
<1>1. Reopen \in Refreshers /\ "off" \in Outside /\ "sleep" \in Outside
  BY Zenon DEF Refreshers, Outside
<1>2. QED
  BY <1>1, GoesEffect DEF Start

LEMMA RunEffect ==
  ASSUME TypeOK, Run
  PROVE  /\ Reopen \in Refreshers /\ OnlyMoves(Reopen) /\ lock' = lock
         /\ thread[Reopen].pc \in Outside /\ thread'[Reopen].pc \in Outside
         /\ thread'[Reopen].todo = thread[Reopen].todo
<1>1. Reopen \in Refreshers /\ {"done", "dead", "lock", "sleep"} \subseteq Outside
  BY Zenon DEF Refreshers, Outside
<1>2. PICK pc \in {"done", "dead", "lock"} : Goes(Reopen, pc)
  BY DEF Run
<1>3. QED
  BY <1>1, <1>2, GoesEffect DEF Run

LEMMA NotifiedType ==
  ASSUME TypeOK
  PROVE  /\ Notified \in [Waiters -> WaiterState]
         /\ \A w \in Waiters : /\ Notified[w].target = waiter[w].target
                               /\ Notified[w].pc = waiter[w].pc \/ Notified[w].pc = "awake"
  BY DEF TypeOK, Notified, WaiterState

LEMMA CloseThreadEffect ==
  ASSUME TypeOK, CloseThread
  PROVE  /\ gens' \in GenState /\ waiter' \in [Waiters -> WaiterState]
         /\ gens'.start = gens.start
         /\ \/ closer' = "join" /\ gens'.searching = gens.searching /\ waiter' = waiter
            \/ closer' = "closed"
<1>1. Forever \in 0..Forever
  BY GenerationAssumption DEF Forever
<1>2. CASE closer' = "join" /\ gens' = [gens EXCEPT !.finish = TRUE] /\ UNCHANGED waiter
  BY <1>2 DEF TypeOK, GenState
<1>3. CASE closer' = "closed" /\ gens' = [gens EXCEPT !.searching = Forever] /\ waiter' = Notified
  <2>1. gens' \in GenState /\ gens'.start = gens.start
    BY <1>1, <1>3 DEF TypeOK, GenState
  <2>2. QED
    BY <1>3, <2>1, NotifiedType, Zenon
<1>4. QED
  BY <1>2, <1>3, Zenon DEF CloseThread

LEMMA WaitForGenerationEffect ==
  ASSUME TypeOK, NEW w \in Waiters, WaitForGeneration(w)
  PROVE  /\ waiter' \in [Waiters -> WaiterState] /\ gens' \in GenState
         /\ \A v \in Waiters : v # w => waiter'[v] = waiter[v]
         /\ waiter'[w].pc = "true" => waiter'[w].target <= gens.searching
         /\ gens'.searching = gens.searching /\ gens'.start = gens.start
<1>1. PICK target \in 1..indexed, timed \in BOOLEAN :
        /\ waiter' = [waiter EXCEPT ![w] =
                        [pc |-> IF target > gens.searching THEN "asleep" ELSE "true",
                         target |-> target, timed |-> timed]]
        /\ gens' = IF target > gens.searching
                     THEN [gens EXCEPT !.waiting = Max({@, target})] ELSE gens
  BY DEF WaitForGeneration
<1>2. target \in 0..MaxGen
  BY GenerationAssumption DEF TypeOK
<1>3. /\ waiter' \in [Waiters -> WaiterState]
      /\ \A v \in Waiters : v # w => waiter'[v] = waiter[v]
      /\ waiter'[w].pc = "true" => waiter'[w].target <= gens.searching
  BY <1>1, <1>2, GenTypes, GenerationAssumption DEF TypeOK, WaiterState, Forever
<1>4. Max({gens.waiting, target}) \in {gens.waiting, target}
  BY <1>2, GenTypes, GenerationAssumption DEF Max
<1>5. gens' \in GenState /\ gens'.searching = gens.searching /\ gens'.start = gens.start
  BY <1>1, <1>2, <1>4 DEF TypeOK, GenState
<1>6. QED
  BY <1>3, <1>5, Zenon

LEMMA WaiterWakesEffect ==
  ASSUME TypeOK, NEW w \in Waiters, WaiterWakes(w)
  PROVE  /\ waiter' \in [Waiters -> WaiterState]
         /\ \A v \in Waiters : v # w => waiter'[v] = waiter[v]
         /\ waiter'[w].pc = "true" => waiter'[w].target <= gens.searching
<1>1. PICK pc \in {"asleep", "true", "false"} :
         /\ waiter' = [waiter EXCEPT ![w].pc = pc]
         /\ pc = "true" => ~(waiter[w].target > gens.searching)
  BY SMT DEF WaiterWakes
<1>2. /\ waiter' \in [Waiters -> WaiterState]
      /\ \A v \in Waiters : v # w => waiter'[v] = waiter[v]
      /\ waiter'[w].pc = pc /\ waiter'[w].target = waiter[w].target
      /\ waiter[w].target \in 0..MaxGen
  BY <1>1 DEF TypeOK, WaiterState
<1>3. QED
  BY <1>1, <1>2, GenTypes, GenerationAssumption DEF Forever

LEMMA GetEffect ==
  ASSUME TypeOK, NEW g \in Getters, Get(g)
  PROVE  /\ get' \in [Getters -> GetState]
         /\ \A h \in Getters : h # g => get'[h] = get[h]
         /\ \/ /\ maps.current # 0 \/ maps.old # 0
               /\ get'[g].pc = "done" /\ get'[g].floor = added
               /\ get'[g].got = IF maps.current # 0 THEN maps.current ELSE maps.old
            \/ /\ maps.current = 0 /\ maps.old = 0
               /\ get'[g].pc = "acquire" /\ get'[g].floor = added
            \/ /\ get[g].pc = "acquire" /\ current = Closed /\ get'[g].pc = "closed"
            \/ /\ get[g].pc = "acquire" /\ current # Closed /\ get'[g].pc = "done"
               /\ get'[g].floor = get[g].floor /\ get'[g].got = current
<1>1. CASE get' = [get EXCEPT ![g] = [pc |-> "done", floor |-> added, got |-> maps.current]]
           /\ maps.current # 0
  BY <1>1, GenTypes DEF TypeOK, GetState
<1>2. CASE get' = [get EXCEPT ![g] = [pc |-> "done", floor |-> added, got |-> maps.old]]
           /\ maps.current = 0 /\ maps.old # 0
  BY <1>2, GenTypes DEF TypeOK, GetState
<1>3. CASE get' = [get EXCEPT ![g] = [pc |-> "acquire", floor |-> added, got |-> maps.old]]
           /\ maps.current = 0 /\ maps.old = 0
  BY <1>3, GenTypes DEF TypeOK, GetState
<1>4. CASE /\ get[g].pc = "acquire"
           /\ get' = [get EXCEPT ![g] = [pc |-> IF current = Closed THEN "closed" ELSE "done",
                                         floor |-> @.floor,
                                         got |-> IF current = Closed THEN 0 ELSE current]]
  BY <1>4, GenerationAssumption DEF TypeOK, GetState
<1>5. QED
  BY <1>1, <1>2, <1>3, <1>4 DEF Get

-----------------------------------------------------------------------------
(* Types and the refresh lock *)

LEMMA Labels ==
  /\ Outside \intersect Inside = {}
  /\ {"idle", "sleep", "dead"} \subseteq Outside
  /\ {"acquire", "before", "open", "swap", "listen", "after"} = Inside
  BY Zenon DEF Outside, Inside

LEMMA LockKept ==
  ASSUME TypeOK, NEW t \in Refreshers, OnlyMoves(t),
         thread'[t].pc \in Inside <=> lock' = t,
         lock' = lock \/ (lock \in {t, None} /\ lock' \in {t, None})
  PROVE  \A u \in Refreshers : thread'[u].pc \in Inside <=> lock' = u
<1> SUFFICES ASSUME NEW u \in Refreshers, u # t PROVE thread'[u].pc \in Inside <=> lock' = u
  BY Zenon
<1>1. thread[u].pc \in Inside <=> lock = u
  BY Zenon DEF TypeOK
<1>2. u # None
  BY ThreadAssumption, Zenon DEF Refreshers
<1>3. thread'[u].pc = thread[u].pc
  BY Zenon DEF OnlyMoves
<1>4. QED
  BY <1>1, <1>2, <1>3, Zenon

(* The lock clause for a step that stays outside, one that stays inside and  *)
(* one that leaves.                                                          *)
LEMMA LockStays ==
  ASSUME TypeOK, NEW t \in Refreshers, OnlyMoves(t),
         \/ thread[t].pc \in Outside /\ thread'[t].pc \in Outside /\ lock' = lock
         \/ thread[t].pc \in Outside /\ thread'[t].pc \in Inside /\ lock = None /\ lock' = t
         \/ thread[t].pc \in Inside /\ thread'[t].pc \in Inside /\ lock' = lock
         \/ thread[t].pc \in Inside /\ thread'[t].pc \in Outside /\ lock' = None
  PROVE  /\ thread' \in [Refreshers -> ThreadState]
         /\ lock' \in Refreshers \union {None}
         /\ \A u \in Refreshers : thread'[u].pc \in Inside <=> lock' = u
<1>1. thread[t].pc \in Inside <=> lock = t
  BY Zenon DEF TypeOK
<1>2. t # None
  BY ThreadAssumption, Zenon DEF Refreshers
<1>3. /\ thread'[t].pc \in Inside <=> lock' = t
      /\ lock' = lock \/ (lock \in {t, None} /\ lock' \in {t, None})
  BY <1>1, <1>2, Labels, Zenon
<1>4. QED
  BY <1>3, LockKept, Zenon DEF TypeOK, OnlyMoves

LEMMA TypeStep ==
  ASSUME TypeOK, HoldsInv, [Next]_vars
  PROVE  TypeOK'
<1> USE Labels
<1>1. CASE UNCHANGED vars
  BY <1>1, Zenon DEF vars, TypeOK
<1>2. ASSUME NEW t \in Threads, Refresh(t) PROVE TypeOK'
  BY <1>2, RefreshEffect, LockStays DEF Refresh, TypeOK
<1>3. ASSUME NEW t \in Refreshers, Lock(t) PROVE TypeOK'
  BY <1>3, LockEffect, LockStays DEF Lock, TypeOK
<1>4. ASSUME NEW t \in Refreshers, Acquire(t) PROVE TypeOK'
  BY <1>4, AcquireEffect, LockStays DEF Acquire, TypeOK
<1>5. ASSUME NEW t \in Refreshers, BeforeRefresh(t) PROVE TypeOK'
  <2>1. gens' \in GenState
    BY <1>5, BeforeRefreshEffect DEF TypeOK, GenState
  <2>2. maps' \in LiveMaps
    BY <1>5, BeforeRefreshEffect, GenerationAssumption DEF TypeOK, LiveMaps
  <2>3. failures' \in Nat
    BY <1>5, BeforeRefreshEffect DEF TypeOK
  <2>4. /\ thread' \in [Refreshers -> ThreadState]
        /\ lock' \in Refreshers \union {None}
        /\ \A u \in Refreshers : thread'[u].pc \in Inside <=> lock' = u
    BY <1>5, BeforeRefreshEffect, LockStays, Zenon
  <2>5. QED
    BY <1>5, <2>1, <2>2, <2>3, <2>4 DEF BeforeRefresh, TypeOK
<1>6. ASSUME NEW t \in Refreshers, RefreshIfNeeded(t) PROVE TypeOK'
  <2>1. thread'[t].pc \in Inside
    BY <1>6, RefreshIfNeededEffect
  <2>2. failures' \in Nat
    BY <1>6, RefreshIfNeededEffect DEF TypeOK
  <2>3. QED
    BY <1>6, <2>1, <2>2, RefreshIfNeededEffect, LockStays DEF RefreshIfNeeded, TypeOK
<1>7. ASSUME NEW t \in Refreshers, swap_reference(t) PROVE TypeOK'
  <2>1. current' \in (0..MaxGen) \union {Closed}
    BY <1>7, SwapEffect DEF HoldsInv, TypeOK
  <2>2. QED
    BY <1>7, <2>1, SwapEffect, LockStays DEF swap_reference, TypeOK
<1>8. ASSUME NEW t \in Refreshers, Listen(t) PROVE TypeOK'
  BY <1>8, ListenEffect, LockStays DEF Listen, TypeOK
<1>9. ASSUME NEW t \in Refreshers, AfterRefresh(t) PROVE TypeOK'
  <2>1. gens' \in GenState
    BY <1>9, AfterRefreshEffect, GenerationAssumption DEF TypeOK, GenState, Forever
  <2>2. maps' \in LiveMaps
    BY <1>9, AfterRefreshEffect, GenerationAssumption DEF TypeOK, LiveMaps
  <2>3. failures' \in Nat
    BY <1>9, AfterRefreshEffect DEF TypeOK
  <2>4. waiter' \in [Waiters -> WaiterState]
    BY <1>9, AfterRefreshEffect, NotifiedType, Zenon DEF TypeOK
  <2>5. /\ thread' \in [Refreshers -> ThreadState]
        /\ lock' \in Refreshers \union {None}
        /\ \A u \in Refreshers : thread'[u].pc \in Inside <=> lock' = u
    BY <1>9, AfterRefreshEffect, LockStays, Zenon
  <2>6. QED
    BY <1>9, <2>1, <2>2, <2>3, <2>4, <2>5 DEF AfterRefresh, TypeOK
<1>10. CASE CloseManager
  BY <1>10 DEF CloseManager, TypeOK
<1>11. CASE Start
  <2>1. listeners' \in Seq(Listeners)
    BY <1>11 DEF Start, TypeOK, Listeners
  <2>2. QED
    BY <1>11, <2>1, StartEffect, LockStays DEF Start, TypeOK
<1>12. CASE Run
  BY <1>12, RunEffect, LockStays DEF Run, TypeOK
<1>13. CASE CloseThread
  BY <1>13, CloseThreadEffect DEF CloseThread, TypeOK
<1>14. ASSUME NEW w \in Waiters, WaitForGeneration(w) PROVE TypeOK'
  BY <1>14, WaitForGenerationEffect DEF WaitForGeneration, TypeOK
<1>15. ASSUME NEW w \in Waiters, WaiterWakes(w) PROVE TypeOK'
  BY <1>15, WaiterWakesEffect DEF WaiterWakes, TypeOK
<1>16. CASE NewLiveFieldValues
  <2>1. listeners' \in Seq(Listeners)
    BY <1>16 DEF NewLiveFieldValues, TypeOK, Listeners
  <2>2. QED
    BY <1>16, <2>1 DEF NewLiveFieldValues, TypeOK
<1>17. CASE CloseLiveFieldValues
  <2>1. listeners' \in Seq(Listeners)
    BY <1>17 DEF CloseLiveFieldValues, Without, TypeOK
  <2>2. QED
    BY <1>17, <2>1 DEF CloseLiveFieldValues, TypeOK
<1>18. CASE Index
  <2>1. indexed' \in 1..MaxGen
    BY <1>18, SetupAssumption, GenerationAssumption DEF Index, TypeOK
  <2>2. QED
    BY <1>18, <2>1 DEF Index, TypeOK
<1>19. CASE Add
  <2>1. maps' \in LiveMaps
    BY <1>19, GenerationAssumption DEF Add, TypeOK, LiveMaps
  <2>2. QED
    BY <1>19, <2>1, GenerationAssumption DEF Add, TypeOK
<1>20. ASSUME NEW g \in Getters, Get(g) PROVE TypeOK'
  BY <1>20, GetEffect DEF Get, TypeOK
<1>21. QED
  BY <1>1, <1>2, <1>3, <1>4, <1>5, <1>6, <1>7, <1>8, <1>9, <1>10, <1>11, <1>12, <1>13, <1>14,
     <1>15, <1>16, <1>17, <1>18, <1>19, <1>20, Zenon DEF Next, RefreshStep

-----------------------------------------------------------------------------
(* The searcher a refresh holds, and the current one *)

LEMMA Alone ==
  ASSUME TypeOK, NEW t \in Refreshers, NEW u \in Refreshers, thread[t].pc \in Inside, u # t
  PROVE  thread[u].pc \notin Inside
  BY Zenon DEF TypeOK

LEMMA ThreadSteps ==
  ASSUME [Next]_vars
  PROVE  \/ \E t \in Threads : Refresh(t)
         \/ \E t \in Refreshers : RefreshStep(t)
         \/ Start \/ Run
         \/ UNCHANGED thread
  BY Zenon DEF Next, vars, CloseManager, CloseThread, WaitForGeneration, WaiterWakes,
               NewLiveFieldValues, CloseLiveFieldValues, Index, Add, Get

LEMMA HoldsStep ==
  ASSUME TypeOK, HoldsInv, [Next]_vars
  PROVE  HoldsInv'
<1> DEFINE Holds(r) == r.pc \in {"before", "open", "swap"} => r.new \in 0..MaxGen
<1>1. ASSUME NEW t \in Refreshers, OnlyMoves(t), Holds(thread'[t]) PROVE HoldsInv'
  BY <1>1, Zenon DEF HoldsInv, OnlyMoves
<1>2. ASSUME NEW pc, pc \in Outside \union {"acquire", "listen", "after"}
      PROVE  pc \notin {"before", "open", "swap"}
  BY <1>2, Zenon DEF Outside
<1>3. ASSUME NEW t \in Threads, Refresh(t) PROVE HoldsInv'
  BY <1>1, <1>2, <1>3, RefreshEffect, Zenon
<1>4. ASSUME NEW t \in Refreshers, Lock(t) PROVE HoldsInv'
  BY <1>1, <1>2, <1>4, LockEffect, Zenon
<1>5. ASSUME NEW t \in Refreshers, Acquire(t) PROVE HoldsInv'
  BY <1>1, <1>2, <1>5, AcquireEffect, Labels, Zenon DEF TypeOK
<1>6. ASSUME NEW t \in Refreshers, BeforeRefresh(t) PROVE HoldsInv'
  <2>1. thread[t].new \in 0..MaxGen
    BY <1>6, BeforeRefreshEffect, Zenon DEF HoldsInv
  <2>2. QED
    BY <1>1, <1>2, <1>6, <2>1, BeforeRefreshEffect, Labels, Zenon
<1>7. ASSUME NEW t \in Refreshers, RefreshIfNeeded(t) PROVE HoldsInv'
  <2>1. thread'[t].new = indexed \/ thread'[t].pc = "listen"
    BY <1>7, RefreshIfNeededEffect, Zenon
  <2>2. QED
    BY <1>1, <1>2, <1>7, <2>1, RefreshIfNeededEffect, Zenon DEF TypeOK
<1>8. ASSUME NEW t \in Refreshers, swap_reference(t) PROVE HoldsInv'
  BY <1>1, <1>2, <1>8, SwapEffect, Zenon
<1>9. ASSUME NEW t \in Refreshers, Listen(t) PROVE HoldsInv'
  BY <1>1, <1>2, <1>9, ListenEffect, Zenon
<1>10. ASSUME NEW t \in Refreshers, AfterRefresh(t) PROVE HoldsInv'
  BY <1>1, <1>2, <1>10, AfterRefreshEffect, Labels, Zenon
<1>11. CASE Start
  BY <1>1, <1>2, <1>11, StartEffect, Zenon
<1>12. CASE Run
  BY <1>1, <1>2, <1>12, RunEffect, Zenon
<1>13. CASE UNCHANGED thread
  BY <1>13, Zenon DEF HoldsInv
<1>14. QED
  BY <1>3, <1>4, <1>5, <1>6, <1>7, <1>8, <1>9, <1>10, <1>11, <1>12, <1>13, ThreadSteps, Zenon
     DEF RefreshStep

(* An operation of the writer and a close of the manager disturb no refresh. *)
LEMMA OpenedStep ==
  ASSUME TypeOK, HoldsInv, OpenedInv, IndexedInv, [Next]_vars
  PROVE  OpenedInv'
<1> DEFINE Opens(r, c, n) ==
             /\ r.pc \in {"before", "open"} => c \in {r.new, Closed}
             /\ r.pc = "swap" => r.new <= n /\ (c # Closed => c <= r.new)
<1>0. ASSUME NEW r, NEW c, NEW n, r.pc \notin {"before", "open", "swap"} PROVE Opens(r, c, n)
  BY <1>0, Zenon
<1>1. ASSUME NEW t \in Refreshers, OnlyMoves(t), Opens(thread'[t], current, indexed),
             UNCHANGED <<current, indexed>>
      PROVE  OpenedInv'
  BY <1>1, Zenon DEF OpenedInv, OnlyMoves
<1>2. ASSUME NEW pc, pc \in Outside \union {"acquire", "listen", "after"}
      PROVE  pc \notin {"before", "open", "swap"}
  BY <1>2, Zenon DEF Outside
<1> HIDE DEF Opens
<1>3. ASSUME NEW t \in Threads, Refresh(t) PROVE OpenedInv'
  BY <1>0, <1>1, <1>2, <1>3, RefreshEffect, Zenon DEF Refresh
<1>4. ASSUME NEW t \in Refreshers, Lock(t) PROVE OpenedInv'
  BY <1>0, <1>1, <1>2, <1>4, LockEffect, Zenon DEF Lock
<1>5. ASSUME NEW t \in Refreshers, Acquire(t) PROVE OpenedInv'
  <2>1. CASE thread'[t].pc = "before" /\ thread'[t].new = current
    <3>1. Opens(thread'[t], current, indexed)
      BY <2>1, Zenon DEF Opens
    <3>2. QED
      BY <1>1, <1>5, <3>1, AcquireEffect, Zenon DEF Acquire
  <2>2. CASE thread'[t].pc \in {"idle", "sleep", "dead"}
    BY <1>0, <1>1, <1>2, <1>5, <2>2, AcquireEffect, Labels, Zenon DEF Acquire
  <2>3. QED
    BY <1>5, <2>1, <2>2, AcquireEffect, Zenon
<1>6. ASSUME NEW t \in Refreshers, BeforeRefresh(t) PROVE OpenedInv'
  <2>1. CASE thread'[t].pc \in {"before", "open"} /\ thread'[t].new = thread[t].new
    <3>1. Opens(thread'[t], current, indexed)
      BY <1>6, <2>1, BeforeRefreshEffect, Zenon DEF Opens, OpenedInv
    <3>2. QED
      BY <1>1, <1>6, <3>1, BeforeRefreshEffect, Zenon DEF BeforeRefresh
  <2>2. CASE thread'[t].pc \in {"idle", "sleep", "dead"}
    BY <1>0, <1>1, <1>2, <1>6, <2>2, BeforeRefreshEffect, Labels, Zenon DEF BeforeRefresh
  <2>3. QED
    BY <1>6, <2>1, <2>2, BeforeRefreshEffect, Zenon
<1>7. ASSUME NEW t \in Refreshers, RefreshIfNeeded(t) PROVE OpenedInv'
  <2>1. CASE thread'[t].pc = "swap" /\ thread'[t].new = indexed
    <3>1. current # Closed => current <= indexed
      BY DEF IndexedInv
    <3>2. indexed <= indexed
      BY DEF TypeOK
    <3>3. Opens(thread'[t], current, indexed)
      BY <2>1, <3>1, <3>2, Zenon DEF Opens
    <3>4. QED
      BY <1>1, <1>7, <3>3, RefreshIfNeededEffect, Zenon DEF RefreshIfNeeded
  <2>2. CASE thread'[t].pc = "listen"
    BY <1>0, <1>1, <1>2, <1>7, <2>2, RefreshIfNeededEffect, Zenon DEF RefreshIfNeeded
  <2>3. QED
    BY <1>7, <2>1, <2>2, RefreshIfNeededEffect
<1>8. ASSUME NEW t \in Refreshers, swap_reference(t) PROVE OpenedInv'
  <2>1. \A u \in Refreshers : thread'[u].pc \notin {"before", "open", "swap"}
    <3>1. ASSUME NEW u \in Refreshers, u # t PROVE thread'[u].pc \notin {"before", "open", "swap"}
      BY <1>8, <3>1, SwapEffect, Alone, Labels, Zenon DEF OnlyMoves
    <3>2. QED
      BY <1>8, <3>1, SwapEffect, Zenon
  <2>2. QED
    BY <2>1, Zenon DEF OpenedInv
<1>9. ASSUME NEW t \in Refreshers, Listen(t) PROVE OpenedInv'
  BY <1>0, <1>1, <1>2, <1>9, ListenEffect, Zenon DEF Listen
<1>10. ASSUME NEW t \in Refreshers, AfterRefresh(t) PROVE OpenedInv'
  BY <1>0, <1>1, <1>2, <1>10, AfterRefreshEffect, Labels, Zenon DEF AfterRefresh
<1>11. CASE Start
  BY <1>0, <1>1, <1>2, <1>11, StartEffect, Zenon DEF Start
<1>12. CASE Run
  BY <1>0, <1>1, <1>2, <1>12, RunEffect, Zenon DEF Run
<1>13. CASE UNCHANGED <<thread, current, indexed>>
  BY <1>13, Zenon DEF OpenedInv
<1>14. CASE CloseManager
  BY <1>14, Zenon DEF CloseManager, OpenedInv
<1>15. CASE Index
  <2>1. ASSUME NEW t \in Refreshers, thread[t].pc = "swap", thread[t].new <= indexed
        PROVE  thread[t].new <= indexed + 1
    <3>1. thread[t].new \in 0..MaxGen /\ indexed \in 0..MaxGen
      BY <2>1, Zenon DEF HoldsInv, TypeOK
    <3>2. QED
      BY <2>1, <3>1
  <2>2. QED
    BY <1>15, <2>1, Zenon DEF Index, OpenedInv
<1>16. QED
  BY <1>3, <1>4, <1>5, <1>6, <1>7, <1>8, <1>9, <1>10, <1>11, <1>12, <1>13, <1>14, <1>15, Zenon
     DEF Next, vars, RefreshStep, CloseThread, WaitForGeneration, WaiterWakes,
         NewLiveFieldValues, CloseLiveFieldValues, Add, Get

LEMMA IndexedStep ==
  ASSUME TypeOK, HoldsInv, OpenedInv, IndexedInv, [Next]_vars
  PROVE  IndexedInv'
<1>1. ASSUME NEW t \in Refreshers, BeforeRefresh(t) PROVE IndexedInv'
  <2>1. gens'.start \in {gens.start, indexed}
    BY <1>1, BeforeRefreshEffect DEF TypeOK, GenState
  <2>2. maps'.current \in {0, maps.current} /\ maps'.old \in {maps.current, maps.old}
    BY <1>1, BeforeRefreshEffect DEF TypeOK, LiveMaps
  <2>3. QED
    BY <1>1, <2>1, <2>2 DEF BeforeRefresh, IndexedInv, TypeOK
<1>2. ASSUME NEW t \in Refreshers, swap_reference(t) PROVE IndexedInv'
  <2>1. current' # Closed => current' <= indexed
    BY <1>2, SwapEffect DEF OpenedInv
  <2>2. QED
    BY <1>2, <2>1, Zenon DEF swap_reference, IndexedInv
<1>3. ASSUME NEW t \in Refreshers, AfterRefresh(t) PROVE IndexedInv'
  <2>1. gens'.start = gens.start
    BY <1>3, AfterRefreshEffect DEF TypeOK, GenState
  <2>2. maps'.current = maps.current /\ maps'.old \in {0, maps.old}
    BY <1>3, AfterRefreshEffect DEF TypeOK, LiveMaps
  <2>3. QED
    BY <1>3, <2>1, <2>2 DEF AfterRefresh, IndexedInv, TypeOK
<1>4. CASE CloseManager
  BY <1>4, Zenon DEF CloseManager, IndexedInv
<1>5. CASE CloseThread
  BY <1>5, CloseThreadEffect, Zenon DEF CloseThread, IndexedInv
<1>6. ASSUME NEW w \in Waiters, WaitForGeneration(w) PROVE IndexedInv'
  BY <1>6, WaitForGenerationEffect, Zenon DEF WaitForGeneration, IndexedInv
<1>7. CASE Index
  BY <1>7, GenTypes, GenerationAssumption DEF Index, IndexedInv, TypeOK
<1>8. CASE Add
  <2>1. maps'.current = adding /\ maps'.old = maps.old
    BY <1>8 DEF Add, TypeOK, LiveMaps
  <2>2. QED
    BY <1>8, <2>1, Zenon DEF Add, IndexedInv
<1>9. CASE UNCHANGED <<current, indexed, gens, added, maps, adding>>
  BY <1>9, Zenon DEF IndexedInv
<1>10. QED
  BY <1>1, <1>2, <1>3, <1>4, <1>5, <1>6, <1>7, <1>8, <1>9, Zenon
     DEF Next, vars, RefreshStep, Refresh, Lock, Acquire, RefreshIfNeeded, Listen, Start, Run,
         WaiterWakes, NewLiveFieldValues, CloseLiveFieldValues, Get

LEMMA Advances ==
  ASSUME TypeOK, HoldsInv, OpenedInv, [Next]_vars
  PROVE  current' = Closed \/ (current # Closed /\ current' >= current)
<1>1. ASSUME NEW t \in Refreshers, swap_reference(t)
      PROVE  current' = Closed \/ (current # Closed /\ current' >= current)
  <2>1. thread[t].pc = "swap" /\ thread[t].new \in 0..MaxGen
    BY <1>1, SwapEffect, Zenon DEF HoldsInv
  <2>2. CASE current = Closed
    BY <1>1, <2>2, SwapEffect
  <2>3. CASE current # Closed
    <3>1. current' = thread[t].new /\ current <= thread[t].new /\ current \in 0..MaxGen
      BY <1>1, <2>1, <2>3, SwapEffect DEF OpenedInv, TypeOK
    <3>2. QED
      BY <2>1, <2>3, <3>1
  <2>4. QED
    BY <2>2, <2>3
<1>2. CASE CloseManager
  BY <1>2, Zenon DEF CloseManager
<1>3. CASE current' = current
  BY <1>3 DEF TypeOK
<1>4. QED
  BY <1>1, <1>2, <1>3, Zenon
     DEF Next, vars, RefreshStep, Refresh, Lock, Acquire, BeforeRefresh, RefreshIfNeeded, Listen,
         AfterRefresh, Start, Run, CloseThread, WaitForGeneration, WaiterWakes,
         NewLiveFieldValues, CloseLiveFieldValues, Index, Add, Get

LEMMA FailuresGrow ==
  ASSUME TypeOK, [Next]_vars
  PROVE  failures' \in {failures, failures + 1}
<1>1. ASSUME NEW t \in Refreshers, BeforeRefresh(t) PROVE failures' \in {failures, failures + 1}
  BY <1>1, BeforeRefreshEffect, Zenon
<1>2. ASSUME NEW t \in Refreshers, RefreshIfNeeded(t) PROVE failures' \in {failures, failures + 1}
  BY <1>2, RefreshIfNeededEffect, Zenon
<1>3. ASSUME NEW t \in Refreshers, AfterRefresh(t) PROVE failures' \in {failures, failures + 1}
  BY <1>3, AfterRefreshEffect, Zenon
<1>4. CASE failures' = failures
  BY <1>4, Zenon
<1>5. QED
  BY <1>1, <1>2, <1>3, <1>4, Zenon
     DEF Next, vars, RefreshStep, Refresh, Lock, Acquire, swap_reference, Listen, CloseManager,
         Start, Run, CloseThread, WaitForGeneration, WaiterWakes,
         NewLiveFieldValues, CloseLiveFieldValues, Index, Add, Get

(* A step to a state with an open manager and no failure starts in one.     *)
LEMMA OpenBefore ==
  ASSUME TypeOK, HoldsInv, OpenedInv, [Next]_vars, current' # Closed, failures' = 0
  PROVE  /\ current # Closed /\ failures = 0 /\ failures # 0 + 1
         /\ current \in 0..MaxGen /\ current' \in 0..MaxGen /\ current <= current'
<1>1. failures = 0
  BY FailuresGrow DEF TypeOK
<1>2. current' \in (0..MaxGen) \union {Closed}
  BY TypeStep, Zenon DEF TypeOK
<1>3. QED
  BY <1>1, <1>2, Advances DEF TypeOK

-----------------------------------------------------------------------------
(* The generations a refresh makes searchable *)

LEMMA ShownInside ==
  ASSUME TypeOK, NEW t \in Refreshers, thread[t].pc \in Inside, OnlyMoves(t),
         lock' = None \/ thread'[t].pc \in {"acquire", "listen", "after"} =>
           gens'.start <= current' /\ maps'.old <= current',
         thread'[t].pc = "swap" => gens'.start <= thread'[t].new /\ maps'.old <= thread'[t].new,
         thread'[t].pc = "before" /\ HasLive(thread'[t].todo) => maps'.old <= current',
         closer' # "closed" => gens'.searching <= current'
  PROVE  ShownInv'
<1>1. ASSUME NEW u \in Refreshers, u # t
      PROVE  thread'[u].pc \notin {"acquire", "listen", "after", "swap", "before"}
  BY <1>1, Alone, Labels, Zenon DEF OnlyMoves
<1>2. QED
  BY <1>1, Zenon DEF ShownInv, Shown

LEMMA ShownOutside ==
  ASSUME TypeOK, ShownInv, NEW t \in Refreshers, thread[t].pc \in Outside,
         thread'[t].pc \in Outside, OnlyMoves(t),
         UNCHANGED <<lock, current, gens, maps, closer, failures>>
  PROVE  ShownInv'
<1>1. thread'[t].pc \notin {"acquire", "listen", "after", "swap", "before"}
  BY Labels, Zenon
<1>2. \A u \in Refreshers : u # t => thread'[u] = thread[u]
  BY Zenon DEF OnlyMoves
<1>3. QED
  BY <1>1, <1>2, Zenon DEF ShownInv, Shown

LEMMA ShownStep ==
  ASSUME TypeOK, HoldsInv, OpenedInv, IndexedInv, OnceInv, ShownInv, [Next]_vars
  PROVE  ShownInv'
<1> SUFFICES ASSUME current' # Closed, failures' = 0 PROVE ShownInv'
  BY Zenon DEF ShownInv
<1>0. /\ current # Closed /\ failures = 0 /\ failures # 0 + 1
      /\ current \in 0..MaxGen /\ current' \in 0..MaxGen /\ current <= current'
  BY OpenBefore
<1>a. /\ Shown(gens.start) /\ Shown(maps.old)
      /\ closer # "closed" => gens.searching <= current
      /\ \A t \in Refreshers :
           thread[t].pc = "before" /\ HasLive(thread[t].todo) => maps.old <= current
  BY <1>0, Zenon DEF ShownInv
<1>b. \A t \in Refreshers : thread[t].pc \in Inside => lock = t /\ t # None
  BY ThreadAssumption, Zenon DEF TypeOK, Refreshers
<1>1. ASSUME NEW t \in Threads, Refresh(t) PROVE ShownInv'
  BY <1>1, RefreshEffect, ShownOutside, Zenon DEF Refresh
<1>2. ASSUME NEW t \in Refreshers, Lock(t) PROVE ShownInv'
  <2>1. UNCHANGED <<current, gens, maps, closer, failures>> /\ OnlyMoves(t)
    BY <1>2, LockEffect, Zenon DEF Lock
  <2>2. CASE thread'[t].pc \in Outside /\ lock' = lock
    BY <1>2, <2>1, <2>2, LockEffect, ShownOutside, Zenon
  <2>3. CASE lock = None /\ lock' = t /\ thread'[t].pc = "acquire"
    <3>1. gens.start <= current /\ maps.old <= current
      BY <1>a, <2>3, Zenon DEF Shown
    <3>2. ASSUME NEW u \in Refreshers, u # t
          PROVE  thread'[u].pc \notin {"acquire", "listen", "after", "swap", "before"}
      <4>1. thread[u].pc \notin Inside
        BY <2>3, <1>b, <3>2, Zenon
      <4>2. QED
        BY <2>1, <3>2, <4>1, Labels, Zenon DEF OnlyMoves
    <3>3. QED
      BY <1>a, <2>1, <2>3, <3>1, <3>2, Zenon DEF ShownInv, Shown
  <2>4. QED
    BY <1>2, <2>2, <2>3, LockEffect, Zenon
<1>3. ASSUME NEW t \in Refreshers, Acquire(t) PROVE ShownInv'
  <2>1. /\ UNCHANGED <<current, gens, maps, closer>> /\ OnlyMoves(t) /\ thread[t].pc = "acquire"
        /\ thread'[t].pc = "before" /\ lock' = lock
    BY <1>0, <1>3, AcquireEffect, Zenon DEF Acquire
  <2>2. gens.start <= current /\ maps.old <= current
    BY <1>a, <2>1, Zenon DEF Shown
  <2>3. thread[t].pc \in Inside
    BY <2>1, Labels, Zenon
  <2>4. QED
    BY <1>a, <2>1, <2>2, <2>3, ShownInside, Zenon
<1>4. ASSUME NEW t \in Refreshers, BeforeRefresh(t) PROVE ShownInv'
  <2>1. /\ UNCHANGED <<current, closer>> /\ OnlyMoves(t) /\ thread[t].pc = "before"
        /\ lock' = lock /\ thread'[t].pc \in {"before", "open"}
    BY <1>0, <1>4, BeforeRefreshEffect, Zenon DEF BeforeRefresh
  <2>2. gens'.searching = gens.searching
    BY <1>4, BeforeRefreshEffect DEF TypeOK, GenState
  <2>3. thread[t].pc \in Inside /\ lock' # None
    BY <1>b, <2>1, Labels, Zenon
  <2>4. ASSUME thread'[t].pc = "before", HasLive(thread'[t].todo)
        PROVE  maps'.old <= current'
    <3>1. /\ thread[t].todo # <<>> /\ thread'[t].todo = Tail(thread[t].todo)
          /\ Head(thread[t].todo) # "live" => maps' = maps
      BY <1>0, <1>4, <2>4, BeforeRefreshEffect
    <3>2. PICK i \in 1..Len(Tail(thread[t].todo)) : Tail(thread[t].todo)[i] = "live"
      BY <2>4, <3>1 DEF HasLive
    <3>3. /\ i + 1 \in 1..Len(thread[t].todo) /\ thread[t].todo[i + 1] = "live"
          /\ 1 \in 1..Len(thread[t].todo) /\ i + 1 # 1
          /\ DOMAIN thread[t].todo = 1..Len(thread[t].todo)
      BY <3>1, <3>2, ThreadTypes
    <3>4. thread[t].todo[1] # "live"
      BY <3>3, Zenon DEF OnceInv, Once
    <3>5. maps' = maps
      BY <3>1, <3>4, ThreadTypes
    <3>6. HasLive(thread[t].todo)
      BY <3>3, Zenon DEF HasLive
    <3>7. QED
      BY <1>a, <2>1, <3>5, <3>6, Zenon
  <2>5. QED
    BY <1>a, <2>1, <2>2, <2>3, <2>4, ShownInside, Zenon
<1>5. ASSUME NEW t \in Refreshers, RefreshIfNeeded(t) PROVE ShownInv'
  <2>1. /\ UNCHANGED <<current, lock, gens, maps, closer>> /\ OnlyMoves(t)
        /\ thread[t].pc = "open" /\ thread'[t].new = indexed
        /\ \/ thread'[t].pc = "listen" /\ thread[t].new = indexed
           \/ thread'[t].pc = "swap"
    BY <1>0, <1>5, RefreshIfNeededEffect DEF RefreshIfNeeded
  <2>2. gens.start <= indexed /\ maps.old <= indexed
    BY Zenon DEF IndexedInv
  <2>3. thread'[t].pc = "listen" => current = indexed
    BY <1>0, <2>1, Zenon DEF OpenedInv
  <2>4. thread[t].pc \in Inside /\ lock' # None
    BY <1>b, <2>1, Labels, Zenon
  <2>5. QED
    BY <1>a, <2>1, <2>2, <2>3, <2>4, ShownInside, Zenon
<1>6. ASSUME NEW t \in Refreshers, swap_reference(t) PROVE ShownInv'
  <2>1. /\ UNCHANGED <<lock, gens, maps, closer>> /\ OnlyMoves(t) /\ current' = thread[t].new
        /\ thread[t].pc = "swap" /\ thread'[t].pc = "listen"
    BY <1>0, <1>6, SwapEffect DEF swap_reference
  <2>2. gens.start <= current' /\ maps.old <= current'
    BY <1>a, <2>1, Zenon DEF Shown
  <2>3. closer # "closed" => gens.searching <= current'
    BY <1>0, <1>a, GenTypes, GenerationAssumption DEF Forever
  <2>4. thread[t].pc \in Inside /\ lock' # None
    BY <1>b, <2>1, Labels, Zenon
  <2>5. QED
    BY <2>1, <2>2, <2>3, <2>4, ShownInside, Zenon
<1>7. ASSUME NEW t \in Refreshers, Listen(t) PROVE ShownInv'
  <2>1. /\ UNCHANGED <<current, lock, gens, maps, closer>> /\ OnlyMoves(t)
        /\ thread[t].pc = "listen" /\ thread'[t].pc = "after"
    BY <1>7, ListenEffect, Zenon DEF Listen
  <2>2. gens.start <= current /\ maps.old <= current
    BY <1>a, <2>1, Zenon DEF Shown
  <2>3. thread[t].pc \in Inside
    BY <2>1, Labels, Zenon
  <2>4. QED
    BY <1>a, <2>1, <2>2, <2>3, ShownInside, Zenon
<1>8. ASSUME NEW t \in Refreshers, AfterRefresh(t) PROVE ShownInv'
  <2>1. /\ UNCHANGED <<current, closer>> /\ OnlyMoves(t) /\ thread[t].pc = "after"
        /\ thread'[t].pc \in {"after", "idle", "sleep", "dead"}
    BY <1>8, AfterRefreshEffect, Zenon DEF AfterRefresh
  <2>2. gens.start <= current /\ maps.old <= current
    BY <1>a, <2>1, Zenon DEF Shown
  <2>3. gens'.start = gens.start /\ gens'.searching \in {gens.searching, gens.start}
    BY <1>8, AfterRefreshEffect DEF TypeOK, GenState
  <2>4. maps'.old \in {maps.old, 0}
    BY <1>8, AfterRefreshEffect DEF TypeOK, LiveMaps
  <2>5. maps'.old <= current
    BY <1>0, <2>2, <2>4
  <2>6. thread[t].pc \in Inside
    BY <2>1, Labels, Zenon
  <2>7. QED
    BY <1>a, <2>1, <2>2, <2>3, <2>5, <2>6, ShownInside, Zenon
<1>9. CASE Start
  BY <1>9, StartEffect, ShownOutside, Zenon DEF Start
<1>10. CASE Run
  BY <1>10, RunEffect, ShownOutside, Zenon DEF Run
<1>11. CASE CloseThread
  BY <1>a, <1>11, CloseThreadEffect, Zenon DEF CloseThread, ShownInv, Shown
<1>12. ASSUME NEW w \in Waiters, WaitForGeneration(w) PROVE ShownInv'
  BY <1>a, <1>12, WaitForGenerationEffect, Zenon DEF WaitForGeneration, ShownInv, Shown
<1>13. CASE Add
  <2>1. maps'.old = maps.old
    BY <1>13 DEF Add, TypeOK, LiveMaps
  <2>2. QED
    BY <1>a, <1>13, <2>1, Zenon DEF Add, ShownInv, Shown
<1>14. CASE UNCHANGED <<current, lock, thread, gens, maps, closer>>
  BY <1>a, <1>14, Zenon DEF ShownInv, Shown
<1>15. CASE CloseManager
  BY <1>15, Zenon DEF CloseManager
<1>16. QED
  BY <1>1, <1>2, <1>3, <1>4, <1>5, <1>6, <1>7, <1>8, <1>9, <1>10, <1>11, <1>12, <1>13, <1>14,
     <1>15, Zenon
     DEF Next, vars, RefreshStep, WaiterWakes, NewLiveFieldValues, CloseLiveFieldValues, Index, Get

-----------------------------------------------------------------------------
(* LiveFieldValues: it listens once, and its values are in the maps or shown *)

LEMMA OnceTail ==
  ASSUME NEW s \in Seq(Listeners), s # <<>>, Once(s)
  PROVE  Once(Tail(s))
<1> SUFFICES ASSUME NEW i \in DOMAIN Tail(s), NEW j \in DOMAIN Tail(s),
                    Tail(s)[i] = "live", Tail(s)[j] = "live"
             PROVE  i = j
  BY Zenon DEF Once
<1>1. /\ i \in Nat /\ j \in Nat /\ i + 1 \in DOMAIN s /\ j + 1 \in DOMAIN s
      /\ s[i + 1] = "live" /\ s[j + 1] = "live"
  OBVIOUS
<1>2. i + 1 = j + 1
  BY <1>1, Zenon DEF Once
<1>3. QED
  BY <1>1, <1>2

LEMMA OnceAppend ==
  ASSUME NEW s \in Seq(Listeners), Once(s), NEW l \in Listeners,
         l = "gens" \/ ~HasLive(s)
  PROVE  Once(Append(s, l))
<1> SUFFICES ASSUME NEW i \in DOMAIN Append(s, l), NEW j \in DOMAIN Append(s, l),
                    Append(s, l)[i] = "live", Append(s, l)[j] = "live"
             PROVE  i = j
  BY Zenon DEF Once
<1>1. /\ i \in 1..Len(s) + 1 /\ j \in 1..Len(s) + 1 /\ DOMAIN s = 1..Len(s) /\ Len(s) \in Nat
      /\ \A k \in 1..Len(s) : Append(s, l)[k] = s[k]
      /\ Append(s, l)[Len(s) + 1] = l
  OBVIOUS
<1>2. CASE l = "gens"
  <2>1. i \in 1..Len(s) /\ j \in 1..Len(s)
    BY <1>1, <1>2
  <2>2. QED
    BY <1>1, <2>1, Zenon DEF Once
<1>3. CASE ~HasLive(s)
  <2>1. \A k \in 1..Len(s) : s[k] # "live"
    BY <1>3 DEF HasLive
  <2>2. i \notin 1..Len(s) /\ j \notin 1..Len(s)
    BY <1>1, <2>1
  <2>3. QED
    BY <1>1, <2>2
<1>4. QED
  BY <1>2, <1>3

LEMMA OnceRemove ==
  ASSUME NEW s \in Seq(Listeners), Once(s), NEW i \in DOMAIN s, s[i] = "live"
  PROVE  Once(Without(s, i))
<1> DEFINE a == SubSeq(s, 1, i - 1)
           b == SubSeq(s, i + 1, Len(s))
<1>1. Len(s) \in Nat /\ DOMAIN s = 1..Len(s) /\ i \in 1..Len(s)
  OBVIOUS
<1>2. a \in Seq(Listeners) /\ Len(a) = i - 1 /\ \A k \in 1..(i - 1) : a[k] = s[k]
  BY <1>1
<1>3. b \in Seq(Listeners) /\ Len(b) = Len(s) - i /\ \A k \in 1..(Len(s) - i) : b[k] = s[k + i]
  BY <1>1
<1>4. Without(s, i) = a \o b
  BY Zenon DEF Without
<1> HIDE DEF a, b
<1>5. /\ DOMAIN (a \o b) = 1..(Len(a) + Len(b))
      /\ \A k \in 1..(Len(a) + Len(b)) : (a \o b)[k] = IF k <= Len(a) THEN a[k] ELSE b[k - Len(a)]
  BY ONLY <1>2, <1>3
<1>6. \A k \in 1..Len(s) : k # i => s[k] # "live"
  BY <1>1, Zenon DEF Once
<1>7. ASSUME NEW j \in 1..(Len(a) + Len(b)) PROVE (a \o b)[j] # "live"
  <2>1. CASE j <= Len(a)
    <3>1. j \in 1..(i - 1) /\ j \in 1..Len(s) /\ j # i
      BY <1>1, <1>2, <1>7, <2>1
    <3>2. QED
      BY <1>2, <1>5, <1>6, <2>1, <3>1, Zenon
  <2>2. CASE ~(j <= Len(a))
    <3>1. /\ j - Len(a) \in 1..(Len(s) - i)
          /\ j - Len(a) + i \in 1..Len(s) /\ j - Len(a) + i # i
      <4>1. Len(a) = i - 1 /\ Len(b) = Len(s) - i
        BY <1>2, <1>3, Zenon
      <4>2. j \in 1..(Len(s) - 1) /\ ~(j <= i - 1)
        BY ONLY <1>1, <1>7, <2>2, <4>1
      <4>3. /\ j - (i - 1) \in 1..(Len(s) - i)
            /\ j - (i - 1) + i \in 1..Len(s) /\ j - (i - 1) + i # i
        BY ONLY <1>1, <4>2
      <4>4. QED
        BY <4>1, <4>3, Zenon
    <3>2. QED
      BY <1>3, <1>5, <1>6, <2>2, <3>1, Zenon
  <2>3. QED
    BY <2>1, <2>2, Zenon
<1>8. QED
  BY <1>4, <1>5, <1>7, Zenon DEF Once

LEMMA OnceStep ==
  ASSUME TypeOK, OnceInv, [Next]_vars
  PROVE  OnceInv'
<1>0. listeners \in Seq(Listeners) /\ Once(listeners) /\ \A t \in Refreshers : Once(thread[t].todo)
  BY Zenon DEF TypeOK, OnceInv
<1>1. Once(<<>>)
  BY DEF Once
<1>2. ASSUME NEW t \in Refreshers, OnlyMoves(t), Once(thread'[t].todo), Once(listeners')
      PROVE  OnceInv'
  BY <1>0, <1>2, Zenon DEF OnceInv, OnlyMoves
<1>3. ASSUME NEW t \in Refreshers, OnlyMoves(t), listeners' = listeners,
             \/ thread'[t].todo \in {<<>>, listeners, thread[t].todo}
             \/ thread[t].todo # <<>> /\ thread'[t].todo = Tail(thread[t].todo)
      PROVE  OnceInv'
  <2>1. Once(thread'[t].todo)
    BY <1>0, <1>1, <1>3, OnceTail, ThreadTypes, Zenon
  <2>2. QED
    BY <1>0, <1>2, <1>3, <2>1, Zenon
<1>4. ASSUME NEW t \in Threads, Refresh(t) PROVE OnceInv'
  BY <1>3, <1>4, RefreshEffect, Zenon DEF Refresh
<1>5. ASSUME NEW t \in Refreshers, Lock(t) PROVE OnceInv'
  BY <1>3, <1>5, LockEffect, Zenon DEF Lock
<1>6. ASSUME NEW t \in Refreshers, Acquire(t) PROVE OnceInv'
  BY <1>3, <1>6, AcquireEffect, Zenon DEF Acquire
<1>7. ASSUME NEW t \in Refreshers, BeforeRefresh(t) PROVE OnceInv'
  BY <1>3, <1>7, BeforeRefreshEffect, Zenon DEF BeforeRefresh
<1>8. ASSUME NEW t \in Refreshers, RefreshIfNeeded(t) PROVE OnceInv'
  BY <1>3, <1>8, RefreshIfNeededEffect, Zenon DEF RefreshIfNeeded
<1>9. ASSUME NEW t \in Refreshers, swap_reference(t) PROVE OnceInv'
  BY <1>3, <1>9, SwapEffect, Zenon DEF swap_reference
<1>10. ASSUME NEW t \in Refreshers, Listen(t) PROVE OnceInv'
  BY <1>3, <1>10, ListenEffect, Zenon DEF Listen
<1>11. ASSUME NEW t \in Refreshers, AfterRefresh(t) PROVE OnceInv'
  BY <1>3, <1>11, AfterRefreshEffect, Zenon DEF AfterRefresh
<1>12. CASE Start
  <2>1. Once(listeners')
    BY <1>0, <1>12, OnceAppend, Zenon DEF Start, Listeners
  <2>2. QED
    BY <1>0, <1>2, <1>12, <2>1, StartEffect, Zenon
<1>13. CASE Run
  BY <1>3, <1>13, RunEffect, Zenon DEF Run
<1>14. CASE NewLiveFieldValues
  <2>1. Once(listeners')
    BY <1>0, <1>14, OnceAppend, Zenon DEF NewLiveFieldValues, Listeners
  <2>2. QED
    BY <1>0, <1>14, <2>1, Zenon DEF NewLiveFieldValues, OnceInv
<1>15. CASE CloseLiveFieldValues
  <2>1. Once(listeners')
    BY <1>0, <1>15, OnceRemove, Zenon DEF CloseLiveFieldValues
  <2>2. QED
    BY <1>0, <1>15, <2>1, Zenon DEF CloseLiveFieldValues, OnceInv
<1>16. CASE UNCHANGED <<listeners, thread>>
  BY <1>16, Zenon DEF OnceInv
<1>17. QED
  BY <1>4, <1>5, <1>6, <1>7, <1>8, <1>9, <1>10, <1>11, <1>12, <1>13, <1>14, <1>15, <1>16, Zenon
     DEF Next, vars, RefreshStep, CloseManager, CloseThread, WaitForGeneration, WaiterWakes,
         Index, Add, Get

LEMMA MapsStep ==
  ASSUME TypeOK, HoldsInv, OpenedInv, ShownInv, MapsInv, [Next]_vars
  PROVE  MapsInv'
<1> DEFINE Newest(m, a) == /\ m.current # 0 => m.current = a
                           /\ m.current = 0 /\ m.old # 0 => m.old = a
           InMaps == maps'.current = 0 /\ maps'.old = 0 /\ current' # Closed /\ failures' = 0
                       => added' <= current'
           InGets == \A g \in Getters :
                       get'[g].pc = "acquire" /\ current' # Closed /\ failures' = 0
                         => get'[g].floor <= current'
<1>0. /\ added \in 0..MaxGen /\ maps.current \in 0..MaxGen /\ maps.old \in 0..MaxGen
      /\ Newest(maps, added)
  BY GenTypes, Zenon DEF TypeOK, MapsInv
<1>1. ASSUME current' # Closed, failures' = 0
      PROVE  /\ current # Closed /\ failures = 0 /\ failures # 0 + 1
             /\ current \in 0..MaxGen /\ current' \in 0..MaxGen /\ current <= current'
  BY <1>1, OpenBefore
<1>2. ASSUME get' = get PROVE InGets
  <2> SUFFICES ASSUME NEW g \in Getters, get[g].pc = "acquire", current' # Closed, failures' = 0
               PROVE  get[g].floor <= current'
    BY <1>2, Zenon
  <2>1. get[g].floor \in 0..MaxGen
    BY DEF TypeOK, GetState
  <2>2. get[g].floor <= current
    BY <1>1, Zenon DEF MapsInv
  <2>3. QED
    BY <1>1, <2>1, <2>2
<1>3. ASSUME maps' = maps, added' = added PROVE InMaps /\ Newest(maps', added')
  <2>1. ASSUME maps.current = 0, maps.old = 0, current' # Closed, failures' = 0
        PROVE  added <= current'
    <3>1. added <= current
      BY <1>1, <2>1, Zenon DEF MapsInv
    <3>2. QED
      BY <1>0, <1>1, <2>1, <3>1
  <2>2. QED
    BY <1>0, <1>3, <2>1, Zenon
<1>4. ASSUME Newest(maps', added'), InMaps, InGets PROVE MapsInv'
  BY <1>4, Zenon DEF MapsInv
<1> HIDE DEF InMaps, InGets, Newest
<1>5. ASSUME NEW t \in Refreshers, BeforeRefresh(t) PROVE MapsInv'
  <2>1. added' = added /\ current' = current /\ get' = get
    BY <1>5, Zenon DEF BeforeRefresh
  <2>2. CASE maps' = maps
    BY <1>2, <1>3, <1>4, <2>1, <2>2, Zenon
  <2>3. CASE /\ Head(thread[t].todo) = "live" /\ thread[t].todo # <<>> /\ thread[t].pc = "before"
             /\ maps' = [current |-> 0, old |-> maps.current]
    <3>1. maps'.current = 0 /\ maps'.old = maps.current
      BY <2>3
    <3>2. Newest(maps', added')
      BY <1>0, <2>1, <3>1, Zenon DEF Newest
    <3>3. HasLive(thread[t].todo)
      BY <2>3, ThreadTypes DEF HasLive
    <3>4. InMaps
      <4> SUFFICES ASSUME maps.current = 0, current # Closed, failures' = 0 PROVE added <= current
        BY <2>1, <3>1, Zenon DEF InMaps
      <4>0. failures = 0
        BY <1>1, <2>1, Zenon
      <4>1. CASE maps.old = 0
        BY <4>0, <4>1, Zenon DEF MapsInv
      <4>2. CASE maps.old # 0
        <5>1. maps.old = added
          BY <1>0, <4>2, Zenon DEF Newest
        <5>2. maps.old <= current
          BY <2>3, <3>3, <4>0, Zenon DEF ShownInv
        <5>3. QED
          BY <5>1, <5>2, Zenon
      <4>3. QED
        BY <4>1, <4>2, Zenon
    <3>5. QED
      BY <1>2, <1>4, <2>1, <3>2, <3>4, Zenon
  <2>4. QED
    BY <1>5, <2>2, <2>3, BeforeRefreshEffect
<1>6. ASSUME NEW t \in Refreshers, AfterRefresh(t) PROVE MapsInv'
  <2>1. added' = added /\ current' = current /\ get' = get /\ thread[t].pc = "after"
    BY <1>6, Zenon DEF AfterRefresh
  <2>2. CASE maps' = maps
    BY <1>2, <1>3, <1>4, <2>1, <2>2, Zenon
  <2>3. CASE maps' = [maps EXCEPT !.old = 0]
    <3>1. maps'.current = maps.current /\ maps'.old = 0
      BY <2>3 DEF TypeOK, LiveMaps
    <3>2. Newest(maps', added')
      BY <1>0, <2>1, <3>1, Zenon DEF Newest
    <3>3. InMaps
      <4> SUFFICES ASSUME maps.current = 0, current # Closed, failures' = 0 PROVE added <= current
        BY <2>1, <3>1, Zenon DEF InMaps
      <4>0. failures = 0
        BY <1>1, <2>1, Zenon
      <4>1. CASE maps.old = 0
        BY <4>0, <4>1, Zenon DEF MapsInv
      <4>2. CASE maps.old # 0
        <5>1. maps.old = added
          BY <1>0, <4>2, Zenon DEF Newest
        <5>2. maps.old <= current
          BY <2>1, <4>0, Zenon DEF ShownInv, Shown
        <5>3. QED
          BY <5>1, <5>2, Zenon
      <4>3. QED
        BY <4>1, <4>2, Zenon
    <3>4. QED
      BY <1>2, <1>4, <2>1, <3>2, <3>3, Zenon
  <2>4. QED
    BY <1>6, <2>2, <2>3, AfterRefreshEffect, Zenon
<1>7. CASE Add
  <2>1. /\ maps'.current = adding /\ added' = adding /\ adding \in 1..MaxGen
        /\ get' = get
    BY <1>7 DEF Add, TypeOK, LiveMaps
  <2>2. maps'.current # 0
    BY <2>1, GenerationAssumption
  <2>3. QED
    BY <1>2, <1>4, <2>1, <2>2, Zenon DEF Newest, InMaps
<1>8. ASSUME NEW g \in Getters, Get(g) PROVE MapsInv'
  <2>1. maps' = maps /\ added' = added /\ current' = current /\ failures' = failures
    BY <1>8, Zenon DEF Get
  <2>2. InGets
    <3> SUFFICES ASSUME NEW h \in Getters, get'[h].pc = "acquire", current # Closed, failures = 0
                 PROVE  get'[h].floor <= current
      BY <2>1, Zenon DEF InGets
    <3>1. CASE h # g
      BY <1>8, <3>1, GetEffect, Zenon DEF MapsInv
    <3>2. CASE h = g
      BY <1>8, <3>2, GetEffect DEF MapsInv
    <3>3. QED
      BY <3>1, <3>2, Zenon
  <2>3. QED
    BY <1>3, <1>4, <2>1, <2>2, Zenon
<1>9. CASE UNCHANGED <<maps, added, get>>
  BY <1>2, <1>3, <1>4, <1>9, Zenon
<1>10. QED
  BY <1>5, <1>6, <1>7, <1>8, <1>9, Zenon
     DEF Next, vars, RefreshStep, Refresh, Lock, Acquire, RefreshIfNeeded, swap_reference,
         Listen, CloseManager, Start, Run, CloseThread, WaitForGeneration, WaiterWakes,
         NewLiveFieldValues, CloseLiveFieldValues, Index

-----------------------------------------------------------------------------
(* What the callers are told *)

LEMMA WaitersStep ==
  ASSUME TypeOK, HoldsInv, OpenedInv, ShownInv, WaitersSeeTheirGeneration, [Next]_vars
  PROVE  WaitersSeeTheirGeneration'
<1> SUFFICES ASSUME NEW w \in Waiters, waiter'[w].pc = "true", current' # Closed,
                    closer' # "closed", failures' = 0
             PROVE  waiter'[w].target <= current'
  BY Zenon DEF WaitersSeeTheirGeneration
<1>0. /\ current # Closed /\ failures = 0
      /\ current \in 0..MaxGen /\ current' \in 0..MaxGen /\ current <= current'
  BY OpenBefore
<1>1. waiter[w].target \in 0..MaxGen /\ waiter'[w].target \in 0..MaxGen
  <2>1. waiter' \in [Waiters -> WaiterState]
    BY TypeStep, Zenon DEF TypeOK
  <2>2. QED
    BY <2>1 DEF TypeOK, WaiterState
<1>2. closer # "closed"
  BY Zenon DEF Next, vars, RefreshStep, Refresh, Lock, Acquire, BeforeRefresh, RefreshIfNeeded,
               swap_reference, Listen, AfterRefresh, CloseManager, Start, Run, CloseThread,
               WaitForGeneration, WaiterWakes, NewLiveFieldValues, CloseLiveFieldValues, Index,
               Add, Get
<1>3. ASSUME waiter'[w].pc = waiter[w].pc, waiter'[w].target = waiter[w].target
      PROVE  waiter'[w].target <= current'
  <2>1. waiter[w].target <= current
    BY <1>0, <1>2, <1>3, Zenon DEF WaitersSeeTheirGeneration
  <2>2. QED
    BY <1>0, <1>1, <1>3, <2>1
<1>4. ASSUME NEW t \in Refreshers, AfterRefresh(t) PROVE waiter'[w].target <= current'
  <2>1. waiter' = waiter \/ waiter' = Notified
    BY <1>4, AfterRefreshEffect, Zenon
  <2>2. waiter'[w].pc = waiter[w].pc /\ waiter'[w].target = waiter[w].target
    BY <2>1, NotifiedType
  <2>3. QED
    BY <1>3, <2>2, Zenon
<1>5. CASE CloseThread
  <2>1. waiter' = waiter
    BY <1>5, CloseThreadEffect, Zenon
  <2>2. QED
    BY <1>3, <2>1, Zenon
<1>6. ASSUME NEW v \in Waiters, WaitForGeneration(v) \/ WaiterWakes(v)
      PROVE  waiter'[w].target <= current'
  <2>1. CASE v # w
    BY <1>3, <1>6, <2>1, WaitForGenerationEffect, WaiterWakesEffect, Zenon
  <2>2. CASE v = w
    <3>1. waiter'[w].target <= gens.searching
      BY <1>6, <2>2, WaitForGenerationEffect, WaiterWakesEffect, Zenon
    <3>2. gens.searching <= current
      BY <1>0, <1>2, Zenon DEF ShownInv
    <3>3. QED
      BY <1>0, <1>1, <3>1, <3>2, GenTypes, GenerationAssumption DEF Forever
  <2>3. QED
    BY <2>1, <2>2, Zenon
<1>7. CASE waiter' = waiter
  BY <1>3, <1>7, Zenon
<1>8. QED
  BY <1>4, <1>5, <1>6, <1>7, Zenon
     DEF Next, vars, RefreshStep, Refresh, Lock, Acquire, BeforeRefresh, RefreshIfNeeded,
         swap_reference, Listen, CloseManager, Start, Run, NewLiveFieldValues,
         CloseLiveFieldValues, Index, Add, Get

LEMMA LiveReadsStep ==
  ASSUME TypeOK, MapsInv, LiveReadsAreCurrent, [Next]_vars
  PROVE  LiveReadsAreCurrent'
<1> SUFFICES ASSUME NEW h \in Getters, get'[h].pc = "done", failures' = 0
             PROVE  get'[h].got >= get'[h].floor
  BY Zenon DEF LiveReadsAreCurrent
<1>0. failures = 0
  BY FailuresGrow DEF TypeOK
<1>1. CASE get'[h] = get[h]
  BY <1>0, <1>1, Zenon DEF LiveReadsAreCurrent
<1>2. ASSUME NEW g \in Getters, Get(g) PROVE get'[h].got >= get'[h].floor
  <2>1. CASE h # g
    BY <1>1, <1>2, <2>1, GetEffect, Zenon
  <2>2. CASE h = g
    <3>1. CASE /\ maps.current # 0 \/ maps.old # 0
               /\ get'[g].floor = added
               /\ get'[g].got = IF maps.current # 0 THEN maps.current ELSE maps.old
      <4>1. get'[g].got = added
        BY <3>1 DEF MapsInv
      <4>2. QED
        BY <2>2, <3>1, <4>1 DEF TypeOK
    <3>2. CASE /\ get[g].pc = "acquire" /\ current # Closed
               /\ get'[g].floor = get[g].floor /\ get'[g].got = current
      <4>1. get[g].floor <= current
        BY <1>0, <3>2, Zenon DEF MapsInv
      <4>2. get[g].floor \in 0..MaxGen /\ current \in 0..MaxGen
        BY <3>2 DEF TypeOK, GetState
      <4>3. QED
        BY <2>2, <3>2, <4>1, <4>2
    <3>3. QED
      BY <1>2, <2>2, <3>1, <3>2, GetEffect, Zenon
  <2>3. QED
    BY <2>1, <2>2, Zenon
<1>3. QED
  BY <1>1, <1>2, Zenon
     DEF Next, vars, RefreshStep, Refresh, Lock, Acquire, BeforeRefresh, RefreshIfNeeded,
         swap_reference, Listen, AfterRefresh, CloseManager, Start, Run, CloseThread,
         WaitForGeneration, WaiterWakes, NewLiveFieldValues, CloseLiveFieldValues, Index, Add

-----------------------------------------------------------------------------
LEMMA InitIInv == Init => IInv
<1> SUFFICES ASSUME Init PROVE IInv
  OBVIOUS
<1>1. TypeOK
  <2>1. thread \in [Refreshers -> ThreadState]
    BY DEF Init, ThreadState, Outside
  <2>2. gens \in GenState
    BY GenerationAssumption DEF Init, GenState, Forever
  <2>3. waiter \in [Waiters -> WaiterState]
    BY GenerationAssumption DEF Init, WaiterState
  <2>4. get \in [Getters -> GetState]
    BY GenerationAssumption DEF Init, GetState
  <2>5. maps \in LiveMaps
    BY GenerationAssumption DEF Init, LiveMaps
  <2>6. \A t \in Refreshers : thread[t].pc \in Inside <=> lock = t
    BY ThreadAssumption DEF Init, Inside, Refreshers
  <2>7. QED
    BY <2>1, <2>2, <2>3, <2>4, <2>5, <2>6, GenerationAssumption DEF Init, TypeOK
<1>2. \A t \in Refreshers : thread[t].pc \in {"off", "idle"} /\ thread[t].todo = <<>>
  BY DEF Init
<1>3. HoldsInv /\ OpenedInv
  BY <1>2, Zenon DEF HoldsInv, OpenedInv
<1>4. /\ gens.start = 0 /\ gens.searching = 0 /\ maps.current = 0 /\ maps.old = 0 /\ added = 0
      /\ current = 0 /\ indexed = 0 /\ adding = None /\ 0 <= 0
  BY DEF Init
<1>5. IndexedInv
  BY <1>4, Zenon DEF IndexedInv
<1>6. ShownInv
  BY <1>2, <1>4, Zenon DEF ShownInv, Shown
<1>7. OnceInv
  <2>1. Once(<<>>)
    BY DEF Once
  <2>2. QED
    BY <1>2, <2>1, Zenon DEF OnceInv, Init
<1>8. \A g \in Getters : get[g].pc = "idle"
  BY DEF Init
<1>9. MapsInv /\ LiveReadsAreCurrent
  BY <1>4, <1>8, Zenon DEF MapsInv, LiveReadsAreCurrent
<1>10. WaitersSeeTheirGeneration
  BY DEF Init, WaitersSeeTheirGeneration
<1>11. QED
  BY <1>1, <1>3, <1>5, <1>6, <1>7, <1>9, <1>10, Zenon DEF IInv

LEMMA Invariance == Spec => []IInv
<1>1. IInv /\ [Next]_vars => IInv'
  BY TypeStep, HoldsStep, OpenedStep, IndexedStep, ShownStep, OnceStep, MapsStep, WaitersStep,
     LiveReadsStep, Zenon DEF IInv
<1>2. QED
  BY InitIInv, <1>1, PTL DEF Spec

(* The variables keep their types and at most one thread is inside           *)
(* do_maybe_refresh, however many call maybe_refresh.                        *)
THEOREM RefreshLocked == Spec => []TypeOK
<1>1. IInv => TypeOK
  BY Zenon DEF IInv
<1>2. QED
  BY <1>1, Invariance, PTL

(* swap_reference never puts an older searcher in, and a manager once closed *)
(* stays closed, whoever refreshes and whatever fails.                       *)
THEOREM OnlyAdvance == Spec => SearchersOnlyAdvance
<1>1. IInv /\ [Next]_vars => [current' = Closed \/ (current # Closed /\ current' >= current)]_vars
  BY Advances, Zenon DEF IInv
<1>2. QED
  BY <1>1, Invariance, PTL DEF Spec, SearchersOnlyAdvance

(* A caller to whom wait_for_generation says true finds the generation in    *)
(* the current searcher, whoever's refresh announced it: after_refresh       *)
(* announces what before_refresh took, and no refresh swaps out of order.    *)
THEOREM WaitersServed == Spec => []WaitersSeeTheirGeneration
<1>1. IInv => WaitersSeeTheirGeneration
  BY Zenon DEF IInv
<1>2. QED
  BY <1>1, Invariance, PTL

(* LiveFieldValues::get misses no value added before it was called: at every *)
(* moment the value is in a map or in the searcher acquired after them.      *)
THEOREM LiveReads == Spec => []LiveReadsAreCurrent
<1>1. IInv => LiveReadsAreCurrent
  BY Zenon DEF IInv
<1>2. QED
  BY <1>1, Invariance, PTL
=============================================================================
