------------------------------ MODULE CanonicalLog ------------------------------
(***************************************************************************)
(* What an event store promises: an append-only log of records whose       *)
(* sequences are contiguous from 1 (or, in a log that predates sequences,  *)
(* absent), of which a crash can only lose records that were never made    *)
(* durable.  JsonlEventStore.tla implements it; RunRecovery.tla relies on  *)
(* it.                                                                     *)
(***************************************************************************)
EXTENDS LogRecords

CONSTANT Records    \* [seq : Nat, ...]; seq 0 stands for no sequence

VARIABLES log, durable

vars == <<log, durable>>

-----------------------------------------------------------------------------
Init == log = <<>> /\ durable = 0

AppendRecord ==
    /\ \E r \in Records : Follows(log, r) /\ log' = Append(log, r)
    /\ UNCHANGED durable

Harden ==
    /\ durable' \in durable..Len(log)
    /\ UNCHANGED log

Crash ==
    \E n \in durable..Len(log) :
        /\ log' = SubSeq(log, 1, n)
        /\ durable' \in durable..n

Next == AppendRecord \/ Harden \/ Crash

Spec == Init /\ [][Next]_vars

LogTypeOK ==
    /\ log \in Seq(Records)
    /\ durable \in 0..Len(log)

\* The log is always contiguous.
LogIsContiguous == Contiguous(log)

\* A durable record is never lost or rewritten.
DurablePrefixIsStable ==
    [][SubSeq(log', 1, durable) = SubSeq(log, 1, durable) /\ durable' >= durable]_vars

=============================================================================
