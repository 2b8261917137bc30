----------------------------- MODULE MCPageCache -----------------------------
(* PageCache on small instances. *)
EXTENDS PageCache

CONSTANTS f1, f2, r1, r2

\* Two classes of slots, of one and two units.
TwoClasses == <<1, 2>>

\* Readers of one file with read-ahead and runs of at most two pages.
Sharing == [files |-> {f1}, disk |-> TRUE, lens |-> <<1, 1, 1>>, budget |-> 9, window |-> 3,
            request |-> 2, pinned |-> {}, most |-> 3, calls |-> 2, forgets |-> 0, failures |-> 0]

\* No disk tier: pages live only in the fetches, one of which fails.
Memory == [Sharing EXCEPT !.disk = FALSE, !.failures = 1]

\* A budget of two units, a large page or two small ones, for two files of a large and
\* a small page: one file may be pinned, and a file forgotten while its pages are read
\* and written.
Evicting == [files |-> {f1, f2}, disk |-> TRUE, lens |-> <<2, 1>>, budget |-> 2, window |-> 1,
             request |-> 2, pinned |-> {f2}, most |-> 1, calls |-> 3, forgets |-> 1,
             failures |-> 0]

\* A budget of three units, and a disk read, a disk write or a request that fails.
Failing == [Evicting EXCEPT !.budget = 3, !.most = 2, !.calls = 2, !.forgets = 0, !.failures = 1]

AllSetups == {Sharing, Memory, Evicting, Failing}
=============================================================================
