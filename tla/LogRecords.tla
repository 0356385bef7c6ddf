------------------------------- MODULE LogRecords -------------------------------
(***************************************************************************)
(* Which record may follow a log, and the decision of reconcile            *)
(* (event-store/src/jsonl.rs): is the event whose append failed already in *)
(* the log, still missing, or in conflict with what the log holds?         *)
(*                                                                         *)
(* Records have the fields run, seq, type, call, approval and value; seq 0 *)
(* stands for a legacy record without a sequence.                          *)
(***************************************************************************)
EXTENDS Naturals, Sequences, SequencesExt

\* validate_append_sequence: what may be appended after these records.
Follows(records, r) ==
    \/ records = <<>> /\ r.seq \in {0, 1}
    \/ records # <<>> /\ Last(records).seq = 0 /\ r.seq = 0
    \/ records # <<>> /\ Last(records).seq # 0 /\ r.seq = Last(records).seq + 1

\* read_all_records_from: unsequenced throughout, or sequenced from 1.
Contiguous(records) ==
    \/ \A i \in 1..Len(records) : records[i].seq = 0
    \/ \A i \in 1..Len(records) : records[i].seq = i

\* Mutant: any two events of a kind are taken for the same step.
MutantSameDurableIdentity(a, b) == a.run = b.run /\ a.type = b.type

\* has_same_durable_identity: the lifecycle step an event records once per run.
\* Events without one (RunStarted, TurnStarted, ModelOutput, Error) never match.
SameDurableIdentity(a, b) ==
    /\ a.run = b.run
    /\ a.type = b.type
    /\ \/ a.type \in {"ToolCallRequested", "ToolResult"} /\ a.call = b.call
       \/ a.type \in {"ApprovalRequested", "ApprovalResolved"} /\ a.approval = b.approval
       \/ a.type = "RunFinished"

\* Mutant: a record is looked up by its sequence alone.
MutantPersisted(records, attempted, durability) ==
    {i \in 1..Len(records) : records[i].seq = attempted.seq}

\* The persisted records that claim the attempted event's place or identity.
Persisted(records, attempted, durability) ==
    {i \in 1..Len(records) :
        \/ records[i].seq = attempted.seq
        \/ durability = "Durable" /\ SameDurableIdentity(records[i], attempted)}

Verdict(records, attempted, durability) ==
    LET persisted == Persisted(records, attempted, durability)
    IN  IF \E i \in 1..Len(records) : records[i].seq = 0 THEN "conflict"
        ELSE IF \E i \in persisted : persisted = {i} /\ records[i] = attempted THEN "present"
        ELSE IF persisted = {} /\ attempted.seq = Len(records) + 1 THEN "missing"
        ELSE "conflict"

=============================================================================
