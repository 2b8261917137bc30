------------------------- MODULE MCReferenceManager -------------------------
(* ReferenceManager on small instances. *)
EXTENDS ReferenceManager, TLC

CONSTANTS t1, w1, g1

\* Waiting for a generation while a thread and the reopen thread refresh, refreshes
\* fail, and the manager or the reopen thread is closed.
Waits == [ops |-> {"refresh", "close_manager", "start", "close_thread"}, gens |-> 2, failures |-> 1]

\* Reading live values while threads refresh, with failures, and a close.
Lives == [ops |-> {"refresh", "close_manager", "live"}, gens |-> 3, failures |-> 1]

\* Both listeners on one manager.
Both == [ops |-> {"refresh", "start", "live"}, gens |-> 2, failures |-> 0]

AllSetups == {Waits, Lives, Both}

\* Uses on which the code does not do what its text says.
CloseSetups == {[ops |-> {"refresh", "start", "close_thread"}, gens |-> 1, failures |-> 0]}
FailedWaitSetups == {[ops |-> {"start"}, gens |-> 1, failures |-> 1]}
FailedLiveSetups == {[ops |-> {"refresh", "live"}, gens |-> 1, failures |-> 1]}
=============================================================================
