------------------------------ MODULE AgentRuntime ------------------------------
(***************************************************************************)
(* AgentRuntime::run_with_control_and_stop (agent-runtime/src/runtime.rs): *)
(* one run of the turn loop, which streams a model turn, drives the tool   *)
(* calls it asked for one at a time through approval and execution, and    *)
(* records every step in the event sink.  Another thread may request a     *)
(* stop at any moment through the run's RunStopToken.                      *)
(*                                                                         *)
(* The model client, the tool dispatcher, the approval handler and the     *)
(* checkpoint are the caller's: their answers are chosen freely.  The sink *)
(* may fail any append, with the event committed or not.                   *)
(***************************************************************************)
EXTENDS TerminalLatch, Naturals, Sequences, SequencesExt

CONSTANTS MaxTurns,      \* MAX_TURNS, 128 in the code
          MaxEvents,     \* bound: model events the streams of a run deliver
          ModelCallIds   \* the ids a model gives its tool calls

ASSUME BoundsAssumption ==
    /\ MaxTurns \in Nat \ {0}
    /\ MaxEvents \in Nat \ {0}
    /\ ModelCallIds \cap {"none", "Delta", "Completed", "Failed"} = {}

VARIABLES
    pc,                   \* where the run is
    token_owner,          \* the run the stop token is bound to
    turn,                 \* turn_number
    received,             \* model events taken so far, counted for the bound
    tool_calls,           \* the model tool calls collected this turn
    next_call,            \* index of the tool call being driven
    tool_call_seq,        \* RunSequences.tool_call
    approval_seq,         \* RunSequences.approval
    prepared,             \* the disposition of the prepared call
    decision,             \* the approval decision
    output,               \* the tool output
    messages,             \* the tool-call part of model_request.messages
    proposed,             \* the status given to finish
    log,                  \* the events committed to the sink
    synced,               \* how many of them a durable append has flushed
    next_event_sequence,
    outcome,              \* what run_with_control_and_stop returned
    executed,             \* tool calls whose handler ran, in order
    stop_pc               \* where the run was when another thread stopped it

sink == <<log, synced, next_event_sequence, outcome>>
stream == <<turn, received, tool_calls>>
call == <<next_call, tool_call_seq, approval_seq, prepared, decision, output>>
effects == <<executed, stop_pc>>

vars == <<terminal_status, cancellation, pc, token_owner, turn, received, tool_calls,
          next_call, tool_call_seq, approval_seq, prepared, decision, output,
          messages, proposed, log, synced, next_event_sequence, outcome, executed, stop_pc>>

-----------------------------------------------------------------------------
(* Values *)

EventTypes == {"RunStarted", "TurnStarted", "ModelOutput", "ToolCallRequested",
               "ApprovalRequested", "ApprovalResolved", "ToolResult", "Error",
               "RunFinished"}

\* Started, TextDelta, ToolCallDelta and Usage all leave the control as it is;
\* a ToolCall event is represented by the model's id for the call.
ModelStreamEvents == {"Delta", "Completed", "Failed"} \cup ModelCallIds

Decisions == {"Approve", "Deny"}

\* Denied is the approval_denied failure, which only the runtime can produce.
Outputs == {"Success", "Failure", "Denied"}

EventValues == {"none", "recoverable", "fatal"} \cup ModelStreamEvents
               \cup Decisions \cup Outputs \cup TerminalRunStatus

\* An AgentEvent.  turn, call and approval are 0 where the event has none; the
\* value of a tool call or of an approval request stands for its payload, which
\* the model's id for the call identifies within a turn.
AgentEvents == [run : {"this_run"}, seq : Nat, type : EventTypes, turn : Nat,
                call : Nat, approval : Nat, value : EventValues]

Event(type, t, c, a, v) ==
    [run |-> "this_run", seq |-> next_event_sequence, type |-> type, turn |-> t,
     call |-> c, approval |-> a, value |-> v]

RunStarted == Event("RunStarted", 0, 0, 0, "none")
TurnStarted == Event("TurnStarted", turn, 0, 0, "none")
ModelOutput(e) == Event("ModelOutput", turn, 0, 0, e)
ToolCallRequested == Event("ToolCallRequested", turn, tool_call_seq + 1, 0, tool_calls[next_call])
ApprovalRequested == Event("ApprovalRequested", turn, tool_call_seq, approval_seq + 1,
                           tool_calls[next_call])
ApprovalResolved == Event("ApprovalResolved", turn, 0, approval_seq, decision)
ToolResult == Event("ToolResult", turn, tool_call_seq, 0, output)
RecoverableError == Event("Error", turn, 0, 0, "recoverable")
\* The turn limit is reported outside any turn.
FatalError == Event("Error", IF turn <= MaxTurns THEN turn ELSE 0, 0, 0, "fatal")
RunFinished(status) == Event("RunFinished", 0, 0, 0, status)

NoOutcome == [kind |-> "none"]

-----------------------------------------------------------------------------
(* Steps shared by the operations *)

\* The sink accepted the event; a durable append flushes everything before it.
Committed(event, durability) ==
    /\ log' = Append(log, event)
    /\ synced' = IF durability = "Durable" THEN Len(log) + 1 ELSE synced
    /\ next_event_sequence' = next_event_sequence + 1

\* Mutant: a durable append that failed is counted as flushed.
MutantIndeterminate(event, durability) ==
    /\ \/ log' = Append(log, event)
       \/ log' = log
    /\ outcome' = [kind |-> "Indeterminate", event |-> event, durability |-> durability]
    /\ pc' = "returned"
    /\ synced' = IF durability = "Durable" THEN Len(log) + 1 ELSE synced
    /\ UNCHANGED next_event_sequence

\* The sink reported an error: the event may or may not be in the log, and the
\* run returns at once.
Indeterminate(event, durability) ==
    /\ \/ log' = Append(log, event)
       \/ log' = log
    /\ outcome' = [kind |-> "Indeterminate", event |-> event, durability |-> durability]
    /\ pc' = "returned"
    /\ UNCHANGED <<synced, next_event_sequence>>

\* Mutant: an append error is swallowed and the run goes on.
MutantEmit(event, durability, next) ==
    /\ \/ Committed(event, durability)
       \/ UNCHANGED <<log, synced>> /\ next_event_sequence' = next_event_sequence + 1
    /\ pc' = next
    /\ UNCHANGED outcome

\* emit and emit_durable, continuing at next when the sink accepts.
Emit(event, durability, next) ==
    \/ Committed(event, durability) /\ pc' = next /\ UNCHANGED outcome
    \/ Indeterminate(event, durability)

\* A stop was requested: finish with its status.
StopNow ==
    /\ cancellation
    /\ pc' = "finish"
    /\ proposed' = terminal_status
    /\ UNCHANGED latch

\* if let Some(status) = stop.status() { return finish(status) }, else go on.
StoppedOr(next) ==
    \/ StopNow
    \/ ~cancellation /\ pc' = next /\ UNCHANGED <<latch, proposed>>

\* stopped_status(control.checkpoint(), stop): the caller's checkpoint may itself
\* ask for a stop.
Checkpoint(next) ==
    \/ StoppedOr(next)
    \/ \E stop \in Stops :
          /\ ResolveTerminal(stop)
          /\ pc' = "finish"
          /\ proposed' = Resolved(stop)

\* Mutant: only a successful call is answered.
MutantNextToolCall ==
    /\ messages' = IF output = "Success"
                   THEN Append(messages, [role |-> "tool", calls |-> <<tool_calls[next_call]>>])
                   ELSE messages
    /\ next_call' = next_call + 1

\* The model is told the call's output, and the next call is driven.
NextToolCall ==
    /\ messages' = Append(messages, [role |-> "tool", calls |-> <<tool_calls[next_call]>>])
    /\ next_call' = next_call + 1

-----------------------------------------------------------------------------
Init ==
    /\ LatchInit
    /\ pc = "new"
    /\ token_owner \in {"nobody", "another_run"}
    /\ turn = 1
    /\ received = 0
    /\ tool_calls = <<>>
    /\ next_call = 1
    /\ tool_call_seq = 0
    /\ approval_seq = 0
    /\ prepared = "none"
    /\ decision = "none"
    /\ output = "none"
    /\ messages = <<>>
    /\ proposed = "Undecided"
    /\ log = <<>>
    /\ synced = 0
    /\ next_event_sequence = 1
    /\ outcome = NoOutcome
    /\ executed = <<>>
    /\ stop_pc = "none"

\* A signal handler, the renderer or any other holder of the token.
RequestStop ==
    /\ \E stop \in Stops : ResolveTerminal(stop)
    /\ stop_pc' = IF terminal_status = "Undecided" THEN pc ELSE stop_pc
    /\ UNCHANGED <<pc, token_owner, stream, call, messages, proposed, sink, executed>>

\* A token bound to another run is refused before anything is recorded; the
\* runtime is still unused, and its caller may come back with a fresh token.
RejectBoundToken ==
    /\ pc = "new"
    /\ token_owner = "another_run"
    /\ outcome' = [kind |-> "StopTokenAlreadyBound"]
    /\ UNCHANGED <<latch, pc, token_owner, stream, call, messages, proposed,
                   log, synced, next_event_sequence, effects>>

FreshToken ==
    /\ outcome.kind = "StopTokenAlreadyBound"
    /\ token_owner' = "nobody"
    /\ terminal_status' = "Undecided"
    /\ cancellation' = FALSE
    /\ outcome' = NoOutcome
    /\ stop_pc' = "none"
    /\ UNCHANGED <<pc, stream, call, messages, proposed,
                   log, synced, next_event_sequence, executed>>

StartRun ==
    /\ pc = "new"
    /\ token_owner = "nobody"
    /\ token_owner' = "this_run"
    /\ Emit(RunStarted, "Buffered", "turn")
    /\ UNCHANGED <<latch, stream, call, messages, proposed, effects>>

\* A runtime that was used once refuses a second run and records nothing.
RejectSecondRun ==
    /\ pc = "returned"
    /\ UNCHANGED vars

-----------------------------------------------------------------------------
(* The turn loop *)

BeginTurn ==
    /\ pc = "turn"
    /\ turn <= MaxTurns
    /\ Checkpoint("start_turn")
    /\ UNCHANGED <<token_owner, stream, call, messages, sink, effects>>

TurnLimitReached ==
    /\ pc = "turn"
    /\ turn > MaxTurns
    /\ pc' = "fail"
    /\ UNCHANGED <<latch, token_owner, stream, call, messages, proposed, sink, effects>>

StartTurn ==
    /\ pc = "start_turn"
    /\ tool_calls' = <<>>
    /\ Emit(TurnStarted, "Buffered", "open_stream")
    /\ UNCHANGED <<latch, token_owner, turn, received, call, messages, proposed, effects>>

\* model_client.stream(): an error while a stop is requested is the stop.
OpenStream ==
    /\ pc = "open_stream"
    /\ \/ pc' = "stream" /\ UNCHANGED <<latch, proposed>>
       \/ StoppedOr("fail")
    /\ UNCHANGED <<token_owner, stream, call, messages, sink, effects>>

\* The stream yields an event; a stop drops it before it is recorded.
StreamYields ==
    /\ pc = "stream"
    /\ received < MaxEvents
    /\ received' = received + 1
    /\ Checkpoint("model_event")
    /\ UNCHANGED <<token_owner, turn, tool_calls, call, messages, sink, effects>>

\* The stream ends without Completed.
StreamEnds ==
    /\ pc = "stream"
    /\ StoppedOr("fail")
    /\ UNCHANGED <<token_owner, stream, call, messages, sink, effects>>

Duplicate(id) == id \in ToSet(tool_calls)

RecordModelEvent(e) ==
    /\ pc = "model_event"
    /\ Emit(ModelOutput(e), "Buffered",
            CASE e = "Completed" -> "collected"
              [] e = "Failed" \/ Duplicate(e) -> "fail"
              [] OTHER -> "stream")
    /\ tool_calls' = IF e \in ModelCallIds /\ ~Duplicate(e)
                     THEN Append(tool_calls, e) ELSE tool_calls
    /\ UNCHANGED <<latch, token_owner, turn, received, call, messages, proposed, effects>>

\* The turn completed: no tool calls ends the run, otherwise the assistant
\* message is sent back and the calls are driven in order.
TurnCollected ==
    /\ pc = "collected"
    /\ \/ StopNow /\ UNCHANGED <<messages, next_call>>
       \/ /\ ~cancellation
          /\ tool_calls = <<>>
          /\ pc' = "finish"
          /\ proposed' = "Completed"
          /\ UNCHANGED <<latch, messages, next_call>>
       \/ /\ ~cancellation
          /\ tool_calls # <<>>
          /\ pc' = "call"
          /\ messages' = Append(messages, [role |-> "assistant", calls |-> tool_calls])
          /\ next_call' = 1
          /\ UNCHANGED <<latch, proposed>>
    /\ UNCHANGED <<token_owner, stream, tool_call_seq, approval_seq, prepared,
                   decision, output, sink, effects>>

TurnDone ==
    /\ pc = "call"
    /\ next_call > Len(tool_calls)
    /\ turn' = turn + 1
    /\ pc' = "turn"
    /\ UNCHANGED <<latch, token_owner, received, tool_calls, call, messages,
                   proposed, sink, effects>>

-----------------------------------------------------------------------------
(* drive_tool_call *)

\* Mutant: the request is appended without waiting for the disk.
MutantRequestToolCall ==
    /\ pc = "call"
    /\ next_call <= Len(tool_calls)
    /\ tool_call_seq' = tool_call_seq + 1
    /\ Emit(ToolCallRequested, "Buffered", "prepare")
    /\ UNCHANGED <<latch, token_owner, stream, next_call, approval_seq, prepared,
                   decision, output, messages, proposed, effects>>

RequestToolCall ==
    /\ pc = "call"
    /\ next_call <= Len(tool_calls)
    /\ tool_call_seq' = tool_call_seq + 1
    /\ Emit(ToolCallRequested, "Durable", "prepare")
    /\ UNCHANGED <<latch, token_owner, stream, next_call, approval_seq, prepared,
                   decision, output, messages, proposed, effects>>

Prepare(disposition) ==
    /\ pc = "prepare"
    /\ prepared' = disposition
    /\ pc' = IF disposition = "RequiresApproval" THEN "ask" ELSE "authorize"
    /\ UNCHANGED <<latch, token_owner, stream, next_call, tool_call_seq, approval_seq,
                   decision, output, messages, proposed, sink, effects>>

RequestApproval ==
    /\ pc = "ask"
    /\ approval_seq' = approval_seq + 1
    /\ Emit(ApprovalRequested, "Durable", "decide")
    /\ UNCHANGED <<latch, token_owner, stream, next_call, tool_call_seq, prepared,
                   decision, output, messages, proposed, effects>>

\* A stop that arrived while the decision was pending discards it.
DecideApproval(d) ==
    /\ pc = "decide"
    /\ decision' = d
    /\ StoppedOr("resolve")
    /\ UNCHANGED <<token_owner, stream, next_call, tool_call_seq, approval_seq, prepared,
                   output, messages, sink, effects>>

\* Mutant: a denied call is recorded as an ordinary failure.
MutantResolveApproval ==
    /\ pc = "resolve"
    /\ Emit(ApprovalResolved, "Durable", IF decision = "Approve" THEN "authorize" ELSE "result")
    /\ output' = IF decision = "Approve" THEN output ELSE "Failure"
    /\ UNCHANGED <<latch, token_owner, stream, next_call, tool_call_seq, approval_seq,
                   prepared, decision, messages, proposed, effects>>

ResolveApproval ==
    /\ pc = "resolve"
    /\ Emit(ApprovalResolved, "Durable", IF decision = "Approve" THEN "authorize" ELSE "result")
    /\ output' = IF decision = "Approve" THEN output ELSE "Denied"
    /\ UNCHANGED <<latch, token_owner, stream, next_call, tool_call_seq, approval_seq,
                   prepared, decision, messages, proposed, effects>>

\* Mutant: an approved call runs without looking at the stop again.
MutantAuthorize ==
    /\ pc = "authorize"
    /\ pc' = "execute"
    /\ UNCHANGED <<latch, proposed, token_owner, stream, call, messages, sink, effects>>

\* The last checkpoint before the handler runs.
Authorize ==
    /\ pc = "authorize"
    /\ Checkpoint("execute")
    /\ UNCHANGED <<token_owner, stream, call, messages, sink, effects>>

\* execute_prepared: a rejected call fails without running its handler.
Execute(result) ==
    /\ pc = "execute"
    /\ prepared = "Reject" => result = "Failure"
    /\ output' = result
    /\ IF prepared = "Reject"
       THEN UNCHANGED effects
       ELSE /\ executed' = Append(executed, [call |-> tool_call_seq, disposition |-> prepared,
                                             stopped |-> stop_pc])
            /\ UNCHANGED stop_pc
    /\ pc' = "result"
    /\ UNCHANGED <<latch, token_owner, stream, next_call, tool_call_seq, approval_seq,
                   prepared, decision, messages, proposed, sink>>

\* Mutant: a stop is honoured before the result is recorded.
MutantRecordResult ==
    /\ pc = "result"
    /\ \/ StopNow /\ UNCHANGED sink
       \/ ~cancellation /\ Emit(ToolResult, "Durable", "recorded") /\ UNCHANGED <<latch, proposed>>
    /\ UNCHANGED <<token_owner, stream, call, messages, effects>>

RecordResult ==
    /\ pc = "result"
    /\ Emit(ToolResult, "Durable", "recorded")
    /\ UNCHANGED <<latch, token_owner, stream, call, messages, proposed, effects>>

\* A failed call is also reported as a recoverable error; the model gets the
\* output either way.
CallDone ==
    /\ pc = "recorded"
    /\ \/ StopNow /\ UNCHANGED <<messages, next_call, sink>>
       \/ /\ ~cancellation
          /\ NextToolCall
          /\ IF output = "Success"
             THEN pc' = "call" /\ UNCHANGED sink
             ELSE Emit(RecoverableError, "Buffered", "call")
          /\ UNCHANGED <<latch, proposed>>
    /\ UNCHANGED <<token_owner, stream, tool_call_seq, approval_seq, prepared, decision,
                   output, effects>>

-----------------------------------------------------------------------------
(* The end of the run *)

\* finish_agent_error and finish_model_error: the error is recorded first.
Fail ==
    /\ pc = "fail"
    /\ proposed' = "Failed"
    /\ Emit(FatalError, "Buffered", "finish")
    /\ UNCHANGED <<latch, token_owner, stream, call, messages, effects>>

\* Mutant: the proposed status is recorded, whatever the latch kept.
MutantFinish ==
    /\ pc = "finish"
    /\ ResolveTerminal(proposed)
    /\ Committed(RunFinished(proposed), "Durable")
    /\ pc' = "returned"
    /\ outcome' = [kind |-> "Finished", status |-> proposed]
    /\ UNCHANGED <<token_owner, stream, call, messages, proposed, effects>>

\* finish: the status the latch keeps, which may not be the proposed one, is
\* recorded and returned.
Finish ==
    /\ pc = "finish"
    /\ ResolveTerminal(proposed)
    /\ LET status == Resolved(proposed)
       IN \/ /\ Committed(RunFinished(status), "Durable")
             /\ pc' = "returned"
             /\ outcome' = [kind |-> "Finished", status |-> status]
          \/ Indeterminate(RunFinished(status), "Durable")
    /\ UNCHANGED <<token_owner, stream, call, messages, proposed, effects>>

-----------------------------------------------------------------------------
\* Steps that wait for the model, the approver or a tool, which need not answer
\* until the cancellation flag is raised.
Awaiting ==
    \/ OpenStream \/ StreamYields \/ StreamEnds
    \/ \E d \in Decisions : DecideApproval(d)
    \/ \E r \in {"Success", "Failure"} : Execute(r)

\* Steps the run takes by itself.
Running ==
    \/ StartRun \/ BeginTurn \/ TurnLimitReached \/ StartTurn
    \/ \E e \in ModelStreamEvents : RecordModelEvent(e)
    \/ TurnCollected \/ TurnDone
    \/ RequestToolCall
    \/ \E d \in {"Ready", "RequiresApproval", "Reject"} : Prepare(d)
    \/ RequestApproval \/ ResolveApproval \/ Authorize
    \/ RecordResult \/ CallDone
    \/ Fail \/ Finish

Next ==
    \/ Running
    \/ Awaiting
    \/ RequestStop
    \/ RejectBoundToken \/ FreshToken \/ RejectSecondRun

Spec == Init /\ [][Next]_vars

\* The traits' contract: providers, tools and approval handlers return once
\* the cancellation flag is raised; nothing is assumed of them before that.
Fairness == WF_vars(Running) /\ WF_vars(Awaiting /\ cancellation)

FairSpec == Spec /\ Fairness

-----------------------------------------------------------------------------
(* Properties *)

Dispositions == {"Ready", "RequiresApproval", "Reject"}

Labels == {"new", "turn", "start_turn", "open_stream", "stream", "model_event",
           "collected", "call", "prepare", "ask", "decide", "resolve", "authorize",
           "execute", "result", "recorded", "fail", "finish", "returned"}

Outcomes ==
    {NoOutcome, [kind |-> "StopTokenAlreadyBound"]}
    \cup [kind : {"Finished"}, status : TerminalRunStatus]
    \cup [kind : {"Indeterminate"}, event : AgentEvents, durability : {"Buffered", "Durable"}]

Messages == [role : {"assistant", "tool"}, calls : Seq(ModelCallIds)]

Executions == [call : Nat, disposition : Dispositions, stopped : Labels \cup {"none"}]

\* The types of the run's state; turn never passes MAX_TURNS by more than the
\* increment that ends the loop, and no more is flushed than was logged.
TypeOK ==
    /\ LatchTypeOK
    /\ pc \in Labels
    /\ token_owner \in {"nobody", "another_run", "this_run"}
    /\ turn \in 1..(MaxTurns + 1)
    /\ received \in 0..MaxEvents
    /\ tool_calls \in Seq(ModelCallIds)
    /\ next_call \in Nat \ {0}
    /\ tool_call_seq \in Nat
    /\ approval_seq \in Nat
    /\ prepared \in Dispositions \cup {"none"}
    /\ decision \in Decisions \cup {"none"}
    /\ output \in Outputs \cup {"none"}
    /\ messages \in Seq(Messages)
    /\ proposed \in TerminalRunStatus \cup {"Undecided"}
    /\ log \in Seq(AgentEvents)
    /\ synced \in 0..Len(log)
    /\ next_event_sequence \in Nat \ {0}
    /\ outcome \in Outcomes
    /\ executed \in Seq(Executions)
    /\ stop_pc \in Labels \cup {"none"}

Logged(n, type) == {i \in 1..n : log[i].type = type}

\* Write-ahead: whatever happens next, even a power loss, the log already
\* holds the request of every call whose handler ran and, when the call needs
\* approval, the approval that was granted for it.
EffectsAreWrittenAhead ==
    \A x \in ToSet(executed) :
        /\ \E i \in Logged(synced, "ToolCallRequested") : log[i].call = x.call
        /\ x.disposition = "RequiresApproval" =>
              \E i \in Logged(synced, "ApprovalRequested"), j \in Logged(synced, "ApprovalResolved") :
                  /\ log[i].call = x.call
                  /\ log[j].approval = log[i].approval
                  /\ log[j].value = "Approve"

\* A run that reports its end has recorded the result of every call that ran:
\* a stop after the handler returned cannot lose the result.
FinishAccountsForEffects ==
    Logged(Len(log), "RunFinished") # {} =>
        \A x \in ToSet(executed) :
            \E i \in Logged(Len(log), "ToolResult") :
                log[i].call = x.call /\ log[i].value # "Denied"

\* The caller, the log and the stop token agree on how the run ended: the
\* status returned is the one the token kept and the last event, already
\* durable.
OutcomeMatchesLog ==
    outcome.kind = "Finished" =>
        /\ outcome.status = terminal_status
        /\ synced = Len(log)
        /\ Logged(Len(log), "RunFinished") = {Len(log)}
        /\ log[Len(log)].value = outcome.status

\* After an append error the caller knows exactly what to reconcile: the event
\* is the next one of the log, or already its last, and nothing follows it.
IndeterminateIsExact ==
    /\ \A i \in 1..Len(log) : log[i].seq = i
    /\ outcome.kind = "Indeterminate" =>
        \/ outcome.event.seq = Len(log) + 1
        \/ Len(log) > 0 /\ log[Len(log)] = outcome.event

\* Once another thread has requested a stop no further handler runs, except
\* that of the one call that had already passed its last checkpoint.
NoEffectAfterStop ==
    \A i \in 1..Len(executed) :
        \/ executed[i].stopped = "none"
        \/ executed[i].stopped = "execute" /\ i = Len(executed)

\* Every request sent to the model answers each tool call of each assistant
\* message, in order, and nothing else, whether the call succeeded, failed or
\* was denied.
ConversationIsAnswered ==
    pc = "open_stream" =>
        \A i \in 1..Len(messages) :
            messages[i].role = "assistant" =>
                LET calls == messages[i].calls
                    after == i + Len(calls)
                IN  /\ after <= Len(messages)
                    /\ \A k \in 1..Len(calls) :
                          messages[i + k] = [role |-> "tool", calls |-> <<calls[k]>>]
                    /\ after < Len(messages) => messages[after + 1].role = "assistant"

\* The first terminal status of a run's token is final, and providers are not
\* cancelled by a completion or a failure.
TerminalStatusIsFinal ==
    [][token_owner = "this_run" =>
         /\ terminal_status # "Undecided" => terminal_status' = terminal_status
         /\ cancellation' => terminal_status' \in Stops]_vars

\* A stop ends the run, however many turns, events and calls are still to come
\* and even if the model, the approver or a tool would never have answered.
StopEndsTheRun ==
    (token_owner = "this_run" /\ terminal_status \in Stops) ~> pc = "returned"

=============================================================================
