------------------------- MODULE MCConcurrentWriter -------------------------
(* ConcurrentWriter on small instances. *)
EXTENDS ConcurrentWriter, TLC

\* The threads are interchangeable in every safety property.
ThreadSymmetry == Permutations(Threads)
=============================================================================
