----------------------------- MODULE DeleteLog -----------------------------
(***************************************************************************)
(* The concurrent writer's delete log (`DeleteLog` in concurrent_writer.rs,*)
(* Java's DocumentsWriterDeleteQueue): one append-only list of deletes     *)
(* behind its own lock, which also hands out the sequence numbers of every *)
(* indexing operation.                                                     *)
(*                                                                         *)
(* A delete is named by its sequence number.  Which documents its terms or *)
(* queries match is left out: the model records which documents a delete   *)
(* is applied to, whatever it matches there.                               *)
(*                                                                         *)
(* `log` keeps the entries already dropped from the front too; the entries *)
(* the program still holds are those after `base`, and no definition reads *)
(* an entry at or before it.  Positions are absolute: position p of the    *)
(* code is log[p + 1].                                                     *)
(***************************************************************************)
EXTENDS Integers, Sequences

CONSTANTS
    MaxOps,     \* bound: how many operations are started
    NumSlots    \* how many indexing slots the writer has

ASSUME LogAssumption ==
    /\ MaxOps \in Nat
    /\ NumSlots \in Nat \ {0}

VARIABLES
    log,        \* every delete appended, oldest first
    base,       \* how many entries were dropped from the front
    handed,     \* how many entries the control plane has taken
    next_seq,   \* the next operation's sequence number
    slices      \* each slot's advertised position, readable without its lock

logVars == <<log, base, handed, next_seq, slices>>

Slots == 1..NumSlots

\* What an empty slot advertises: beyond every position of the log, which an
\* operation lengthens by one entry at most.
EMPTY_SLOT == MaxOps + 1

LogInit ==
    /\ log = <<>>
    /\ base = 0
    /\ handed = 0
    /\ next_seq = 1
    /\ slices = [i \in Slots |-> EMPTY_SLOT]

End == Len(log)

\* The entries from position `from` on, of those not yet dropped.
Since(from) == {log[p] : p \in (IF from > base THEN from ELSE base) + 1 .. End}

\* What the control plane has not taken yet (the global slice).
Unhanded == Since(handed)

TakeUnhanded == handed' = End

TakeSeq == next_seq' = next_seq + 1

\* How far each slot has applied the log and the control plane has taken it.
Applied == {slices[i] : i \in Slots} \union {handed}

\* `trim` drops what is behind the least of these positions.
Trim ==
    \E applied \in Applied :
      /\ \A p \in Applied : applied <= p
      /\ base' = IF applied > base THEN applied ELSE base

\* One hold of the log's lock by an operation: its delete, if it has one, is
\* appended and its sequence number taken, then the front is trimmed.
LogOperation(isDelete) ==
    /\ log' = IF isDelete THEN Append(log, next_seq) ELSE log
    /\ TakeSeq
    /\ Trim
    /\ UNCHANGED handed

\* `delete_all` and `rollback` forget every entry.
ClearLog ==
    /\ base' = End
    /\ handed' = End
    /\ UNCHANGED log

LogTypeOK ==
    /\ log \in Seq(Nat)
    /\ base \in Nat
    /\ handed \in Nat
    /\ next_seq \in Nat \ {0}
    /\ slices \in [Slots -> Nat]
=============================================================================
