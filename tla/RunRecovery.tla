------------------------------ MODULE RunRecovery ------------------------------
(***************************************************************************)
(* A run and what comes after it: the caller reconciles an append whose    *)
(* outcome is unknown, the machine may lose power at any moment, and the   *)
(* surviving log is replayed to find out what the run did.  Composes       *)
(* AgentRuntime, the store's reconcile and EventReplay.                    *)
(***************************************************************************)
EXTENDS AgentRuntime, EventReplay, LogRecords

\* "no" stands for the end that a replayed run does not have.
ASSUME NoEndAssumption == "no" \notin Stops

VARIABLE phase    \* "running", "reconciling" after an append error, "crashed"

recoveryVars == <<terminal_status, cancellation, pc, token_owner, turn, received,
                  tool_calls, next_call, tool_call_seq, approval_seq, prepared, decision,
                  output, messages, proposed, log, synced, next_event_sequence, outcome,
                  executed, stop_pc, phase>>

RecoveryInit == Init /\ phase = "running"

RunStep ==
    /\ phase = "running"
    /\ Running \/ Awaiting \/ RequestStop
    /\ UNCHANGED phase

ReconcileVerdict == Verdict(log, outcome.event, outcome.durability)

\* The caller reconciles the exact event the run reported; it may retry, since
\* reconcile can fail like any append, and a retry must change nothing.
Reconcile ==
    /\ phase \in {"running", "reconciling"}
    /\ outcome.kind = "Indeterminate"
    /\ phase' = "reconciling"
    /\ \/ ReconcileVerdict = "missing" /\ log' = Append(log, outcome.event)
       \/ UNCHANGED log
    /\ synced' \in {synced} \cup (IF outcome.durability = "Durable" THEN {Len(log')} ELSE {})
    /\ UNCHANGED <<latch, pc, token_owner, stream, call, messages, proposed,
                   next_event_sequence, outcome, effects>>

\* Power is lost: the tail that no durable append has flushed may be gone.
PowerLoss ==
    /\ phase # "crashed"
    /\ phase' = "crashed"
    /\ \E n \in synced..Len(log) : log' = SubSeq(log, 1, n)
    /\ UNCHANGED <<latch, pc, token_owner, stream, call, messages, proposed,
                   synced, next_event_sequence, outcome, effects>>

RecoveryNext == RunStep \/ Reconcile \/ PowerLoss

RecoverySpec == RecoveryInit /\ [][RecoveryNext]_recoveryVars

-----------------------------------------------------------------------------
(* Properties *)

Replayed == Replay(log, "Strict")

\* Whatever the run did, however it stopped and wherever the log was cut, strict
\* replay accepts the log: the runtime never writes what replay would refuse.
EveryLogReplays == log # <<>> => Replayed.accepted

\* Recovery overlooks no side effect: a call whose handler ran has its result in
\* the surviving log or is listed as recovery work, even if the run was waiting
\* for another approval or reported its end.
RecoveryFindsEffects ==
    LET replay == Replayed
    IN  \A x \in ToSet(executed) : x.call \in replay.results \cup RecoveryWork(replay)

\* The end a reader of the log sees is the status the stop token kept, even when
\* the run itself could not tell whether it was recorded.
ReplayedEndIsTheTokens ==
    log # <<>> => Replayed.finished \in {"no", terminal_status}

\* The event a run reports as indeterminate never conflicts with its log, and
\* reconciling it any number of times leaves it there once.
ReconcileNeverConflicts ==
    outcome.kind = "Indeterminate" /\ phase # "crashed" =>
        /\ ReconcileVerdict # "conflict"
        /\ \A i, j \in 1..Len(log) : i # j =>
              log[i].seq # log[j].seq /\ ~SameDurableIdentity(log[i], log[j])

\* What the documentation of replay_events_for_recovery says: tool calls without
\* results of an unfinished, inactive run are marked as recovery work.
UnansweredCallsAreRecoveryWork ==
    LET replay == Replayed
    IN  phase = "crashed" /\ log # <<>> /\ replay.finished = "no" =>
            RecoveryWork(replay) = Unresolved(replay)

=============================================================================
