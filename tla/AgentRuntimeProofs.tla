--------------------------- MODULE AgentRuntimeProofs ---------------------------
(***************************************************************************)
(* The run loop for any number of turns, model events, call ids and stop   *)
(* reasons.                                                                *)
(***************************************************************************)
EXTENDS AgentRuntime, TLAPS

InCall == {"prepare", "ask", "decide", "resolve", "authorize", "execute", "result", "recorded"}
TurnLabels == {"start_turn", "open_stream", "stream", "model_event", "collected", "call"} \cup InCall

\* What the control point says about the data: the part that makes TypeOK inductive.
ControlOK ==
    /\ cancellation => terminal_status \in Stops
    /\ pc \in TurnLabels => turn <= MaxTurns
    /\ pc \in InCall => next_call <= Len(tool_calls)
    /\ pc \in {"ask", "decide", "resolve"} => prepared = "RequiresApproval"
    /\ pc \in {"authorize", "execute"} => prepared \in Dispositions
    /\ pc = "finish" => proposed \in TerminalRunStatus

\* The part of TypeOK that an append touches.
SinkTypeOK ==
    /\ log \in Seq(AgentEvents)
    /\ synced \in 0..Len(log)
    /\ next_event_sequence \in Nat \ {0}
    /\ outcome \in Outcomes

TypeInv == TypeOK /\ ControlOK

\* The initial state satisfies the type invariant.
LEMMA InitTypeInv == Init => TypeInv
<1> SUFFICES ASSUME Init PROVE TypeInv
    OBVIOUS
<1> USE DEF Init, LatchInit
<1>1. TypeOK
    <2>1. SinkTypeOK
        BY DEF SinkTypeOK, Outcomes
    <2>2. messages \in Seq(Messages)
        OBVIOUS
    <2>3. executed \in Seq(Executions)
        OBVIOUS
    <2>4. tool_calls \in Seq(ModelCallIds)
        OBVIOUS
    <2>5. LatchTypeOK
        BY DEF LatchTypeOK
    <2>6. outcome \in Outcomes /\ log \in Seq(AgentEvents) /\ synced \in 0..Len(log)
        BY <2>1 DEF SinkTypeOK
    <2> HIDE DEF Init, LatchInit
    <2>7. /\ pc = "new" /\ token_owner \in {"nobody", "another_run"} /\ turn = 1 /\ received = 0
          /\ next_call = 1 /\ tool_call_seq = 0 /\ approval_seq = 0 /\ prepared = "none"
          /\ decision = "none" /\ output = "none" /\ proposed = "Undecided"
          /\ next_event_sequence = 1 /\ stop_pc = "none"
        BY DEF Init
    <2> QED
        BY <2>2, <2>3, <2>4, <2>5, <2>6, <2>7, BoundsAssumption DEF TypeOK, Labels
<1>2. ControlOK
    BY DEF ControlOK, InCall, TurnLabels
<1> QED
    BY <1>1, <1>2 DEF TypeInv

\* Every event the run loop builds is an AgentEvent.
LEMMA EventIsTyped ==
    ASSUME TypeOK, NEW type \in EventTypes, NEW t \in Nat, NEW c \in Nat, NEW a \in Nat,
           NEW v \in EventValues
    PROVE  Event(type, t, c, a, v) \in AgentEvents
    BY DEF TypeOK, Event, AgentEvents

\* So are the events of each operation, at the point where it builds them.
LEMMA EventsAreTyped ==
    ASSUME TypeInv
    PROVE  /\ {RunStarted, TurnStarted, ApprovalResolved, ToolResult, RecoverableError, FatalError}
                  \subseteq AgentEvents
           /\ \A e \in ModelStreamEvents : ModelOutput(e) \in AgentEvents
           /\ next_call <= Len(tool_calls) =>
                  {ToolCallRequested, ApprovalRequested} \subseteq AgentEvents
           /\ \A status \in TerminalRunStatus : RunFinished(status) \in AgentEvents
<1>1. TypeOK
    BY DEF TypeInv
<1>2. /\ ModelStreamEvents \cup Decisions \cup Outputs \cup TerminalRunStatus \subseteq EventValues
      /\ {"none", "recoverable", "fatal"} \subseteq EventValues
    BY DEF EventValues
<1>3. {turn, tool_call_seq, tool_call_seq + 1, approval_seq, approval_seq + 1} \subseteq Nat
    BY <1>1, BoundsAssumption DEF TypeOK
<1>4. decision \in EventValues /\ output \in EventValues
    BY <1>1, <1>2 DEF TypeOK
<1>5. next_call <= Len(tool_calls) => tool_calls[next_call] \in EventValues
    BY <1>1, <1>2 DEF TypeOK, ModelStreamEvents
<1> USE <1>1, <1>2, <1>3, EventIsTyped DEF EventTypes
<1>6. {RunStarted, TurnStarted, RecoverableError, FatalError} \subseteq AgentEvents
    BY DEF RunStarted, TurnStarted, RecoverableError, FatalError
<1>7. {ApprovalResolved, ToolResult} \subseteq AgentEvents
    BY <1>4 DEF ApprovalResolved, ToolResult
<1>8. \A e \in ModelStreamEvents : ModelOutput(e) \in AgentEvents
    BY DEF ModelOutput
<1>9. next_call <= Len(tool_calls) => {ToolCallRequested, ApprovalRequested} \subseteq AgentEvents
    BY <1>5 DEF ToolCallRequested, ApprovalRequested
<1>10. \A status \in TerminalRunStatus : RunFinished(status) \in AgentEvents
    BY DEF RunFinished
<1> QED
    BY <1>6, <1>7, <1>8, <1>9, <1>10

\* An append, accepted or not, leaves the sink's state well formed.
LEMMA EmitIsTyped ==
    ASSUME TypeOK, NEW event \in AgentEvents, NEW durability \in {"Buffered", "Durable"},
           NEW next, Emit(event, durability, next)
    PROVE  SinkTypeOK' /\ pc' \in {next, "returned"}
<1> USE DEF SinkTypeOK
<1>1. CASE Committed(event, durability) /\ pc' = next /\ UNCHANGED outcome
    BY <1>1 DEF TypeOK, Committed
<1>2. CASE Indeterminate(event, durability)
    <2>1. log' \in Seq(AgentEvents) /\ Len(log') >= Len(log)
        <3>1. CASE log' = Append(log, event)
            BY <3>1 DEF TypeOK
        <3>2. CASE log' = log
            BY <3>2 DEF TypeOK
        <3> QED
            BY <1>2, <3>1, <3>2 DEF Indeterminate
    <2>2. outcome' \in Outcomes
        BY <1>2 DEF Indeterminate, Outcomes
    <2> QED
        BY <1>2, <2>1, <2>2 DEF TypeOK, Indeterminate
<1> QED
    BY <1>1, <1>2 DEF Emit

\* A checkpoint sends the run to next, or to finish with a status.
LEMMA CheckpointIsTyped ==
    ASSUME TypeInv, NEW next \in Labels \ {"finish"}, Checkpoint(next)
    PROVE  /\ LatchTypeOK'
           /\ cancellation' => terminal_status' \in Stops
           /\ pc' \in {next, "finish"}
           /\ proposed' \in TerminalRunStatus \cup {"Undecided"}
           /\ pc' = "finish" => proposed' \in TerminalRunStatus
<1> USE DEF TypeInv, TypeOK, ControlOK, LatchTypeOK, TerminalRunStatus
<1>1. CASE StoppedOr(next)
    BY <1>1 DEF StoppedOr, StopNow, latch
<1>2. ASSUME NEW stop \in Stops, ResolveTerminal(stop), pc' = "finish", proposed' = Resolved(stop)
      PROVE  /\ LatchTypeOK'
             /\ cancellation' => terminal_status' \in Stops
             /\ proposed' \in TerminalRunStatus
    BY <1>2, StopsAssumption DEF ResolveTerminal, Resolved
<1> QED
    BY <1>1, <1>2 DEF Checkpoint

\* Each operation of the run keeps the type invariant.
LEMMA StepTypeInv == TypeInv /\ [Next]_vars => TypeInv'
<1> SUFFICES ASSUME TypeInv, [Next]_vars PROVE TypeInv'
    OBVIOUS
<1>a. TypeOK
    BY DEF TypeInv
<1> USE BoundsAssumption, StopsAssumption
    DEF TypeInv, TypeOK, SinkTypeOK, LatchTypeOK, ControlOK, InCall, TurnLabels, Labels,
        TerminalRunStatus, Dispositions, latch, stream, call, sink, effects
<1>1. CASE RequestStop
    BY <1>1 DEF RequestStop, ResolveTerminal, Resolved
<1>2. CASE RejectBoundToken
    BY <1>2 DEF RejectBoundToken, Outcomes
<1>3. CASE FreshToken
    <2>1. outcome' \in Outcomes
        BY <1>3 DEF FreshToken, Outcomes
    <2>2. /\ token_owner' = "nobody" /\ terminal_status' = "Undecided"
          /\ ~cancellation' /\ cancellation' \in BOOLEAN /\ stop_pc' = "none"
          /\ UNCHANGED <<pc, stream, call, messages, proposed, log, synced,
                         next_event_sequence, executed>>
        BY <1>3 DEF FreshToken
    <2> QED
        BY <2>1, <2>2
<1>4. CASE StartRun
    <2>1. RunStarted \in AgentEvents
        BY EventsAreTyped
    <2>2. SinkTypeOK' /\ pc' \in {"turn", "returned"}
        BY <1>4, <1>a, <2>1, EmitIsTyped DEF StartRun
    <2> QED
        BY <1>4, <2>2 DEF StartRun
<1>5. CASE BeginTurn
    BY <1>5, CheckpointIsTyped DEF BeginTurn
<1>6. CASE TurnLimitReached
    BY <1>6 DEF TurnLimitReached
<1>7. CASE StartTurn
    <2>1. TurnStarted \in AgentEvents
        BY EventsAreTyped
    <2>2. SinkTypeOK' /\ pc' \in {"open_stream", "returned"}
        BY <1>7, <1>a, <2>1, EmitIsTyped DEF StartTurn
    <2> QED
        BY <1>7, <2>2 DEF StartTurn
<1>8. CASE OpenStream
    BY <1>8 DEF OpenStream, StoppedOr, StopNow
<1>9. CASE StreamYields
    BY <1>9, CheckpointIsTyped DEF StreamYields
<1>10. CASE StreamEnds
    BY <1>10 DEF StreamEnds, StoppedOr, StopNow
<1>11. ASSUME NEW e \in ModelStreamEvents, RecordModelEvent(e) PROVE TypeInv'
    <2>1. ModelOutput(e) \in AgentEvents
        BY EventsAreTyped
    <2>2. SinkTypeOK' /\ pc' \in {"collected", "fail", "stream", "returned"}
        BY <1>11, <1>a, <2>1, EmitIsTyped DEF RecordModelEvent
    <2>3. tool_calls' \in Seq(ModelCallIds)
        BY <1>11 DEF RecordModelEvent
    <2>4. /\ pc = "model_event"
          /\ UNCHANGED <<latch, token_owner, turn, received, call, messages, proposed, effects>>
        BY <1>11 DEF RecordModelEvent
    <2>5. TypeOK'
        BY ONLY TypeInv, <2>2, <2>3, <2>4
    <2>6. ControlOK'
        BY ONLY TypeInv, <2>2, <2>4
    <2> QED
        BY <2>5, <2>6
<1>12. CASE TurnCollected
    <2>1. messages' \in Seq(Messages)
        <3> DEFINE message == [role |-> "assistant", calls |-> tool_calls]
        <3>1. message \in Messages
            BY DEF Messages
        <3>2. messages' = messages \/ messages' = Append(messages, message)
            BY <1>12 DEF TurnCollected
        <3> HIDE DEF message
        <3>3. Append(messages, message) \in Seq(Messages)
            BY <3>1
        <3> QED
            BY <3>2, <3>3
    <2>2. next_call' \in Nat \ {0}
        BY <1>12 DEF TurnCollected
    <2>3. /\ pc' \in {"finish", "call"}
          /\ proposed' \in TerminalRunStatus \cup {"Undecided"}
          /\ pc' = "finish" => proposed' \in TerminalRunStatus
          /\ UNCHANGED latch
        BY <1>12 DEF TurnCollected, StopNow
    <2> QED
        BY <1>12, <2>1, <2>2, <2>3 DEF TurnCollected
<1>13. CASE TurnDone
    BY <1>13 DEF TurnDone
<1>14. CASE RequestToolCall
    <2>1. ToolCallRequested \in AgentEvents
        BY <1>14, EventsAreTyped DEF RequestToolCall
    <2>2. SinkTypeOK' /\ pc' \in {"prepare", "returned"}
        BY <1>14, <1>a, <2>1, EmitIsTyped DEF RequestToolCall
    <2> QED
        BY <1>14, <2>2 DEF RequestToolCall
<1>15. ASSUME NEW d \in Dispositions, Prepare(d) PROVE TypeInv'
    BY <1>15 DEF Prepare
<1>16. CASE RequestApproval
    <2>1. ApprovalRequested \in AgentEvents
        BY <1>16, EventsAreTyped DEF RequestApproval
    <2>2. SinkTypeOK' /\ pc' \in {"decide", "returned"}
        BY <1>16, <1>a, <2>1, EmitIsTyped DEF RequestApproval
    <2> QED
        BY <1>16, <2>2 DEF RequestApproval
<1>17. ASSUME NEW d \in Decisions, DecideApproval(d) PROVE TypeInv'
    BY <1>17 DEF DecideApproval, StoppedOr, StopNow
<1>18. CASE ResolveApproval
    <2>1. ApprovalResolved \in AgentEvents
        BY EventsAreTyped
    <2>2. SinkTypeOK' /\ pc' \in {"authorize", "result", "returned"}
        BY <1>18, <1>a, <2>1, EmitIsTyped DEF ResolveApproval
    <2> QED
        BY <1>18, <2>2 DEF ResolveApproval, Outputs
<1>19. CASE Authorize
    BY <1>19, CheckpointIsTyped DEF Authorize
<1>20. ASSUME NEW r \in {"Success", "Failure"}, Execute(r) PROVE TypeInv'
    <2>1. /\ executed' \in Seq(Executions)
          /\ UNCHANGED stop_pc
        <3> DEFINE entry == [call |-> tool_call_seq, disposition |-> prepared, stopped |-> stop_pc]
        <3>1. entry \in Executions
            BY <1>20 DEF Execute, Executions
        <3>2. (executed' = executed \/ executed' = Append(executed, entry)) /\ UNCHANGED stop_pc
            BY <1>20 DEF Execute
        <3> HIDE DEF entry
        <3>3. Append(executed, entry) \in Seq(Executions)
            BY <3>1
        <3> QED
            BY <3>2, <3>3
    <2> QED
        BY <1>20, <2>1 DEF Execute, Outputs
<1>21. CASE RecordResult
    <2>1. ToolResult \in AgentEvents
        BY EventsAreTyped
    <2>2. SinkTypeOK' /\ pc' \in {"recorded", "returned"}
        BY <1>21, <1>a, <2>1, EmitIsTyped DEF RecordResult
    <2> QED
        BY <1>21, <2>2 DEF RecordResult
<1>22. CASE CallDone
    <2>1. RecoverableError \in AgentEvents
        BY EventsAreTyped
    <2>2. CASE StopNow /\ UNCHANGED <<messages, next_call, sink>>
        BY <1>22, <2>2 DEF CallDone, StopNow
    <2>3. CASE ~cancellation /\ NextToolCall /\ UNCHANGED <<latch, proposed>>
        <3>1. SinkTypeOK' /\ pc' \in {"call", "returned"}
            BY <1>22, <1>a, <2>1, <2>3, EmitIsTyped DEF CallDone, StopNow
        <3>2. messages' \in Seq(Messages)
            <4>1. [role |-> "tool", calls |-> <<tool_calls[next_call]>>] \in Messages
                BY <1>22 DEF CallDone, Messages
            <4>2. messages' = Append(messages, [role |-> "tool", calls |-> <<tool_calls[next_call]>>])
                BY <2>3 DEF NextToolCall
            <4> QED
                BY <4>1, <4>2
        <3> QED
            BY <1>22, <2>3, <3>1, <3>2 DEF CallDone, NextToolCall
    <2> QED
        BY <1>22, <2>2, <2>3 DEF CallDone
<1>23. CASE Fail
    <2>1. FatalError \in AgentEvents
        BY EventsAreTyped
    <2>2. SinkTypeOK' /\ pc' \in {"finish", "returned"}
        BY <1>23, <1>a, <2>1, EmitIsTyped DEF Fail
    <2> QED
        BY <1>23, <2>2 DEF Fail
<1>24. CASE Finish
    <2> DEFINE status == Resolved(proposed)
    <2>1. status \in TerminalRunStatus
        BY <1>24 DEF Finish, Resolved
    <2>2. RunFinished(status) \in AgentEvents
        BY <2>1, EventsAreTyped
    <2> HIDE DEF status
    <2>3. SinkTypeOK' /\ pc' = "returned"
        <3>1. CASE Committed(RunFinished(status), "Durable")
                   /\ pc' = "returned" /\ outcome' = [kind |-> "Finished", status |-> status]
            <4>1. outcome' \in Outcomes
                BY <2>1, <3>1 DEF Outcomes
            <4> QED
                BY <2>2, <3>1, <4>1 DEF Committed
        <3>2. CASE Indeterminate(RunFinished(status), "Durable")
            BY <1>a, <2>2, <3>2, EmitIsTyped DEF Emit
        <3> QED
            BY <1>24, <3>1, <3>2 DEF Finish, status
    <2>4. LatchTypeOK' /\ (cancellation' => terminal_status' \in Stops)
        <3>1. terminal_status' = status /\ cancellation' = (cancellation \/ status \in Stops)
            BY <1>24 DEF Finish, ResolveTerminal, status
        <3>2. cancellation => status = terminal_status
            BY DEF status, Resolved
        <3> QED
            BY <2>1, <3>1, <3>2
    <2> QED
        BY <1>24, <2>3, <2>4 DEF Finish
<1>25. CASE UNCHANGED vars
    BY <1>25 DEF vars
<1> QED
    BY <1>1, <1>2, <1>3, <1>4, <1>5, <1>6, <1>7, <1>8, <1>9, <1>10, <1>11, <1>12, <1>13, <1>14,
       <1>15, <1>16, <1>17, <1>18, <1>19, <1>20, <1>21, <1>22, <1>23, <1>24, <1>25
    DEF Next, Running, Awaiting, RejectSecondRun

\* The type invariant with its control part holds throughout.
LEMMA TypeInvariance == Spec => []TypeInv
<1> QED
    BY InitTypeInv, StepTypeInv, PTL DEF Spec

\* The run's state keeps its shape for every bound: in particular the turn
\* counter never passes MAX_TURNS + 1 and an append error is always reported
\* with the event it is about.
THEOREM TypeCorrect == Spec => []TypeOK
<1>1. TypeInv => TypeOK
    BY DEF TypeInv
<1> QED
    BY <1>1, TypeInvariance, PTL

-----------------------------------------------------------------------------
(* The conversation sent to the model. *)

Closed == {"new", "turn", "start_turn", "open_stream", "stream", "model_event", "collected"}
Driving == {"call"} \cup InCall

\* Every assistant message among the first n messages is followed, within them, by
\* the answers to its calls and then by the next assistant message.
Answered(ms, n) ==
    \A i \in 1..n :
        ms[i].role = "assistant" =>
            /\ i + Len(ms[i].calls) <= n
            /\ \A k \in 1..Len(ms[i].calls) :
                  ms[i + k] = [role |-> "tool", calls |-> <<ms[i].calls[k]>>]
            /\ i + Len(ms[i].calls) < n => ms[i + Len(ms[i].calls) + 1].role = "assistant"

\* While the calls of a turn are driven, the last assistant message holds them, the
\* ones already driven are answered and everything before it is.
TurnOpen ==
    LET a == Len(messages) - next_call + 1
    IN  /\ a >= 1
        /\ next_call <= Len(tool_calls) + 1
        /\ Answered(messages, a - 1)
        /\ messages[a] = [role |-> "assistant", calls |-> tool_calls]
        /\ \A k \in 1..(next_call - 1) :
              messages[a + k] = [role |-> "tool", calls |-> <<tool_calls[k]>>]

ConversationInv ==
    /\ pc \in Closed => Answered(messages, Len(messages))
    /\ pc \in Driving => TurnOpen

\* A step between two turns, or away from the loop, that sends nothing.
LEMMA ClosedStep ==
    ASSUME ConversationInv, pc \in Closed, pc' \notin Driving, messages' = messages
    PROVE  ConversationInv'
    BY DEF ConversationInv

\* A step inside a tool call that sends nothing.
LEMMA DrivingStep ==
    ASSUME ConversationInv, pc \in Driving, pc' \notin Closed,
           messages' = messages, next_call' = next_call, tool_calls' = tool_calls
    PROVE  ConversationInv'
<1>1. TurnOpen
    BY DEF ConversationInv
<1>2. TurnOpen'
    BY <1>1 DEF TurnOpen, Answered
<1> QED
    BY <1>2 DEF ConversationInv

\* The assistant message opens the turn's calls, none of which is answered yet.
LEMMA TurnOpens ==
    ASSUME TypeInv, Answered(messages, Len(messages)), next_call' = 1, tool_calls' = tool_calls,
           messages' = Append(messages, [role |-> "assistant", calls |-> tool_calls])
    PROVE  TurnOpen'
<1> DEFINE n == Len(messages)
           m == [role |-> "assistant", calls |-> tool_calls]
<1>1. messages \in Seq(Messages) /\ tool_calls \in Seq(ModelCallIds)
    BY DEF TypeInv, TypeOK
<1> HIDE DEF m
<1>2. /\ Len(messages') = n + 1 /\ messages'[n + 1] = m /\ n \in Nat
      /\ \A i \in 1..n : messages'[i] = messages[i]
    BY <1>1 DEF m
<1>3. Answered(messages', n)
    <2>1. ASSUME NEW i \in 1..n, messages[i].role = "assistant"
          PROVE  /\ i + Len(messages[i].calls) <= n
                 /\ \A k \in 1..Len(messages[i].calls) :
                       messages'[i + k] = [role |-> "tool", calls |-> <<messages[i].calls[k]>>]
                 /\ i + Len(messages[i].calls) < n =>
                       messages'[i + Len(messages[i].calls) + 1].role = "assistant"
        <3>1. Len(messages[i].calls) \in Nat
            BY <1>1, <1>2 DEF Messages
        <3>2. PICK w \in Nat : w = Len(messages[i].calls)
            BY <3>1
        <3>3. /\ i + w <= n
              /\ \A k \in 1..w : messages[i + k] = [role |-> "tool", calls |-> <<messages[i].calls[k]>>]
              /\ i + w < n => messages[i + w + 1].role = "assistant"
            BY <2>1, <3>2 DEF Answered
        <3>4. \A k \in 1..w : i + k \in 1..n
            BY <1>2, <3>3
        <3>5. i + w < n => i + w + 1 \in 1..n
            BY <1>2
        <3>6. /\ \A k \in 1..w : messages'[i + k] = messages[i + k]
              /\ i + w < n => messages'[i + w + 1] = messages[i + w + 1]
            BY <1>2, <3>4, <3>5
        <3> QED
            BY <3>2, <3>3, <3>6
    <2> QED
        BY <1>2, <2>1 DEF Answered
<1>4. Len(tool_calls) \in Nat
    BY <1>1
<1>5. (Len(messages') - next_call' + 1) = n + 1 /\ n + 1 - 1 = n
    BY <1>2
<1> QED
    BY <1>2, <1>3, <1>4, <1>5 DEF TurnOpen, m

\* An answer moves the turn on by one call.
LEMMA CallAnswered ==
    ASSUME TypeInv, TurnOpen, next_call <= Len(tool_calls), tool_calls' = tool_calls, NextToolCall
    PROVE  TurnOpen'
<1> DEFINE n == Len(messages)
           a == n - next_call + 1
           m == [role |-> "tool", calls |-> <<tool_calls[next_call]>>]
<1>1. /\ messages \in Seq(Messages) /\ tool_calls \in Seq(ModelCallIds)
      /\ next_call \in Nat \ {0} /\ n \in Nat /\ Len(tool_calls) \in Nat
    BY DEF TypeInv, TypeOK
<1>2. messages' = Append(messages, m) /\ next_call' = next_call + 1
    BY DEF NextToolCall
<1> HIDE DEF m
<1>3. /\ Len(messages') = n + 1 /\ messages'[n + 1] = m
      /\ \A i \in 1..n : messages'[i] = messages[i]
    BY <1>1, <1>2
<1>4. a \in 1..n /\ Len(messages') - next_call' + 1 = a /\ a + next_call = n + 1
    BY <1>1, <1>2, <1>3 DEF TurnOpen
<1> HIDE DEF n, a
<1>5. /\ Answered(messages, a - 1)
      /\ messages[a] = [role |-> "assistant", calls |-> tool_calls]
      /\ \A k \in 1..(next_call - 1) :
              messages[a + k] = [role |-> "tool", calls |-> <<tool_calls[k]>>]
    BY DEF TurnOpen, a, n
<1>6. Answered(messages', a - 1)
    <2>1. ASSUME NEW i \in 1..(a - 1), messages[i].role = "assistant"
          PROVE  /\ i + Len(messages[i].calls) <= a - 1
                 /\ \A k \in 1..Len(messages[i].calls) :
                       messages'[i + k] = [role |-> "tool", calls |-> <<messages[i].calls[k]>>]
                 /\ i + Len(messages[i].calls) < a - 1 =>
                       messages'[i + Len(messages[i].calls) + 1].role = "assistant"
        <3>1. Len(messages[i].calls) \in Nat
            BY <1>1, <1>4 DEF Messages, n
        <3>2. PICK w \in Nat : w = Len(messages[i].calls)
            BY <3>1
        <3>3. /\ i + w <= a - 1
              /\ \A k \in 1..w : messages[i + k] = [role |-> "tool", calls |-> <<messages[i].calls[k]>>]
              /\ i + w < a - 1 => messages[i + w + 1].role = "assistant"
            BY <1>5, <2>1, <3>2 DEF Answered
        <3>4. \A k \in 1..w : i + k \in 1..n
            BY <1>1, <1>4, <3>3
        <3>5. i + w < a - 1 => i + w + 1 \in 1..n
            BY <1>1, <1>4
        <3>6. /\ \A k \in 1..w : messages'[i + k] = messages[i + k]
              /\ i + w < a - 1 => messages'[i + w + 1] = messages[i + w + 1]
            BY <1>3, <3>4, <3>5
        <3> QED
            BY <3>2, <3>3, <3>6
    <2>2. \A i \in 1..(a - 1) : messages'[i] = messages[i]
        BY <1>1, <1>3, <1>4
    <2>3. \A i \in 1..(a - 1) : messages[i].role = "assistant" =>
             /\ i + Len(messages[i].calls) <= a - 1
             /\ \A k \in 1..Len(messages[i].calls) :
                   messages'[i + k] = [role |-> "tool", calls |-> <<messages[i].calls[k]>>]
             /\ i + Len(messages[i].calls) < a - 1 =>
                   messages'[i + Len(messages[i].calls) + 1].role = "assistant"
        BY <2>1
    <2> SUFFICES ASSUME NEW i \in 1..(a - 1), messages'[i].role = "assistant"
                 PROVE  /\ i + Len(messages'[i].calls) <= a - 1
                        /\ \A k \in 1..Len(messages'[i].calls) :
                              messages'[i + k] =
                                 [role |-> "tool", calls |-> <<messages'[i].calls[k]>>]
                        /\ i + Len(messages'[i].calls) < a - 1 =>
                              messages'[i + Len(messages'[i].calls) + 1].role = "assistant"
        BY DEF Answered
    <2>4. messages'[i] = messages[i]
        BY <2>2
    <2> QED
        BY <2>3, <2>4
<1>7. messages'[a] = [role |-> "assistant", calls |-> tool_calls]
    BY <1>3, <1>4, <1>5
<1>8. ASSUME NEW k \in 1..next_call
      PROVE  messages'[a + k] = [role |-> "tool", calls |-> <<tool_calls[k]>>]
    <2>1. CASE k = next_call
        BY <1>3, <1>4, <2>1 DEF m
    <2>2. CASE k \in 1..(next_call - 1)
        <3>1. a + k \in 1..n
            BY <1>1, <1>4, <2>2
        <3> QED
            BY <1>3, <1>5, <2>2, <3>1
    <2> QED
        BY <1>1, <2>1, <2>2
<1>9. /\ next_call' <= Len(tool_calls') + 1 /\ next_call' - 1 = next_call
      /\ Len(messages') - next_call' + 1 >= 1
    BY <1>1, <1>2, <1>4
<1> QED
    BY <1>4, <1>6, <1>7, <1>8, <1>9 DEF TurnOpen

\* When the last call is answered the conversation is whole again.
LEMMA TurnCloses ==
    ASSUME TypeInv, TurnOpen, next_call > Len(tool_calls)
    PROVE  Answered(messages, Len(messages))
<1> DEFINE n == Len(messages)
           a == n - next_call + 1
<1>1. /\ messages \in Seq(Messages) /\ tool_calls \in Seq(ModelCallIds)
      /\ next_call \in Nat \ {0} /\ n \in Nat /\ Len(tool_calls) \in Nat
    BY DEF TypeInv, TypeOK
<1>2. /\ a >= 1 /\ a \in 1..n /\ next_call = Len(tool_calls) + 1 /\ a + Len(tool_calls) = n
    <2>1. a >= 1 /\ next_call <= Len(tool_calls) + 1 /\ next_call > Len(tool_calls)
        BY DEF TurnOpen
    <2>2. next_call = Len(tool_calls) + 1
        BY ONLY <1>1, <2>1
    <2> HIDE DEF n
    <2> QED
        BY ONLY <1>1, <2>1, <2>2
<1>3. /\ Answered(messages, a - 1)
      /\ messages[a] = [role |-> "assistant", calls |-> tool_calls]
      /\ \A k \in 1..Len(tool_calls) :
              messages[a + k] = [role |-> "tool", calls |-> <<tool_calls[k]>>]
    BY <1>1, <1>2 DEF TurnOpen
<1> HIDE DEF a, n
<1>4. ASSUME NEW i \in 1..n, messages[i].role = "assistant"
      PROVE  /\ i + Len(messages[i].calls) <= n
             /\ \A k \in 1..Len(messages[i].calls) :
                   messages[i + k] = [role |-> "tool", calls |-> <<messages[i].calls[k]>>]
             /\ i + Len(messages[i].calls) < n =>
                   messages[i + Len(messages[i].calls) + 1].role = "assistant"
    <2>1. CASE i \in 1..(a - 1)
        <3>0. messages[i] \in Messages
            BY <1>1 DEF n
        <3>1. PICK w \in Nat : w = Len(messages[i].calls)
            BY <3>0 DEF Messages
        <3>2. /\ i + w <= a - 1
              /\ \A k \in 1..w : messages[i + k] = [role |-> "tool", calls |-> <<messages[i].calls[k]>>]
              /\ i + w < a - 1 => messages[i + w + 1].role = "assistant"
            BY <1>3, <1>4, <2>1, <3>1 DEF Answered
        <3>3. i + w = a - 1 => messages[i + w + 1].role = "assistant"
            <4>1. i + w = a - 1 => i + w + 1 = a
                BY <1>1, <1>2
            <4> QED
                BY <1>3, <4>1
        <3>4. i + w <= n
            BY <1>1, <1>2, <3>2
        <3>5. messages[i + w + 1].role = "assistant"
            BY <1>1, <1>2, <3>2, <3>3
        <3> QED
            BY <3>1, <3>2, <3>4, <3>5
    <2>2. CASE i = a
        <3>1. messages[i].calls = tool_calls /\ ~(i + Len(tool_calls) < n)
            BY <1>1, <1>2, <1>3, <2>2
        <3> QED
            BY <1>1, <1>2, <1>3, <2>2, <3>1
    <2>3. CASE i \in (a + 1)..n
        <3>1. i - a \in 1..Len(tool_calls) /\ i = a + (i - a)
            BY <1>1, <1>2, <2>3
        <3>2. PICK k \in 1..Len(tool_calls) : i = a + k
            BY <3>1
        <3>3. messages[i] = [role |-> "tool", calls |-> <<tool_calls[k]>>]
            BY <1>3, <3>2
        <3> QED
            BY <1>4, <3>3
    <2> QED
        BY <1>1, <1>2, <2>1, <2>2, <2>3
<1> QED
    BY <1>4 DEF Answered, n

\* Each operation of the run keeps the conversation in order.
LEMMA StepConversation == TypeInv /\ ConversationInv /\ [Next]_vars => ConversationInv'
<1> SUFFICES ASSUME TypeInv, ConversationInv, [Next]_vars PROVE ConversationInv'
    OBVIOUS
<1> USE DEF Closed, Driving, InCall, stream, call, sink
<1>1. CASE RequestStop \/ RejectBoundToken \/ FreshToken \/ UNCHANGED vars
    <2>1. UNCHANGED <<pc, messages, next_call, tool_calls>>
        BY <1>1 DEF RequestStop, RejectBoundToken, FreshToken, vars
    <2> QED
        BY <2>1, ClosedStep, DrivingStep DEF ConversationInv
<1>2. CASE StartRun \/ BeginTurn \/ TurnLimitReached \/ StartTurn
    <2>1. pc \in Closed /\ pc' \notin Driving /\ messages' = messages
        BY <1>2 DEF StartRun, BeginTurn, TurnLimitReached, StartTurn, Emit, Indeterminate,
                    Checkpoint, StoppedOr, StopNow
    <2> QED
        BY <2>1, ClosedStep
<1>3. CASE OpenStream \/ StreamYields \/ StreamEnds
    <2>1. pc \in Closed /\ pc' \notin Driving /\ messages' = messages
        BY <1>3 DEF OpenStream, StreamYields, StreamEnds, Checkpoint, StoppedOr, StopNow
    <2> QED
        BY <2>1, ClosedStep
<1>4. ASSUME NEW e \in ModelStreamEvents, RecordModelEvent(e) PROVE ConversationInv'
    <2>1. pc \in Closed /\ pc' \notin Driving /\ messages' = messages
        BY <1>4 DEF RecordModelEvent, Emit, Indeterminate
    <2> QED
        BY <2>1, ClosedStep
<1>5. CASE TurnCollected
    <2>1. CASE UNCHANGED messages /\ pc' = "finish"
        BY <1>5, <2>1, ClosedStep DEF TurnCollected
    <2>2. CASE /\ pc' = "call" /\ next_call' = 1
               /\ messages' = Append(messages, [role |-> "assistant", calls |-> tool_calls])
        <3>1. TurnOpen'
            BY <1>5, <2>2, TurnOpens DEF TurnCollected, ConversationInv
        <3> QED
            BY <2>2, <3>1 DEF ConversationInv
    <2> QED
        BY <1>5, <2>1, <2>2 DEF TurnCollected, StopNow
<1>6. CASE TurnDone
    <2>1. Answered(messages, Len(messages)) /\ messages' = messages /\ pc' = "turn"
        BY <1>6, TurnCloses DEF TurnDone, ConversationInv
    <2> QED
        BY <2>1 DEF ConversationInv
<1>7. CASE RequestToolCall \/ RequestApproval \/ ResolveApproval \/ Authorize \/ RecordResult
    <2>1. /\ pc \in Driving /\ pc' \notin Closed
          /\ UNCHANGED <<messages, next_call, tool_calls>>
        BY <1>7 DEF RequestToolCall, RequestApproval, ResolveApproval, Authorize, RecordResult,
                    Emit, Indeterminate, Checkpoint, StoppedOr, StopNow
    <2> QED
        BY <2>1, DrivingStep
<1>8. ASSUME NEW d \in Dispositions, Prepare(d) PROVE ConversationInv'
    BY <1>8, DrivingStep DEF Prepare
<1>9. ASSUME NEW d \in Decisions, DecideApproval(d) PROVE ConversationInv'
    BY <1>9, DrivingStep DEF DecideApproval, StoppedOr, StopNow
<1>10. ASSUME NEW r \in {"Success", "Failure"}, Execute(r) PROVE ConversationInv'
    BY <1>10, DrivingStep DEF Execute
<1>11. CASE CallDone
    <2>1. CASE StopNow /\ UNCHANGED <<messages, next_call>>
        BY <1>11, <2>1, DrivingStep DEF CallDone, StopNow
    <2>2. CASE NextToolCall /\ pc' \in {"call", "returned"}
        <3>1. TurnOpen /\ next_call <= Len(tool_calls) /\ tool_calls' = tool_calls
            BY <1>11 DEF CallDone, ConversationInv, TypeInv, ControlOK
        <3>2. TurnOpen'
            BY <2>2, <3>1, CallAnswered
        <3> QED
            BY <2>2, <3>2 DEF ConversationInv
    <2> QED
        BY <1>11, <2>1, <2>2 DEF CallDone, Emit, Indeterminate
<1>12. CASE Fail \/ Finish
    <2>1. pc' \notin Closed \cup Driving
        BY <1>12 DEF Fail, Finish, Emit, Indeterminate
    <2> QED
        BY <2>1 DEF ConversationInv
<1> QED
    BY <1>1, <1>2, <1>3, <1>4, <1>5, <1>6, <1>7, <1>8, <1>9, <1>10, <1>11, <1>12
    DEF Next, Running, Awaiting, RejectSecondRun, Dispositions

\* Every request the run sends to the model answers each tool call of each earlier
\* assistant message, once, in order and with nothing in between, for any number of
\* turns and of calls per turn.
THEOREM ConversationTheorem == Spec => []ConversationIsAnswered
<1>1. Init => ConversationInv
    BY DEF Init, ConversationInv, Closed, Driving, InCall, Answered
<1>2. ConversationInv => ConversationIsAnswered
    BY DEF ConversationInv, Closed, Answered, ConversationIsAnswered
<1> QED
    BY <1>1, <1>2, TypeInvariance, StepConversation, PTL DEF Spec

-----------------------------------------------------------------------------
(* What a stop requested by another thread does to a run. *)

\* While the run is going on the latch holds a stop or nothing, and its flag says
\* which; only finish can put Completed or Failed there.
LatchOK ==
    /\ terminal_status \in Stops => cancellation
    /\ terminal_status \in {"Completed", "Failed"} => pc = "returned"

\* A token is exchanged only before the run has started.
TokenOK ==
    /\ outcome.kind = "StopTokenAlreadyBound" => token_owner = "another_run"
    /\ token_owner = "another_run" => pc = "new"
    /\ pc = "new" => executed = <<>>

\* A stop seen at the point of execution arrived there, and a call that ran under
\* a stop is followed by no other.
ExecutionOK ==
    /\ stop_pc # "none" => cancellation
    /\ pc = "execute" /\ cancellation => stop_pc = "execute"
    /\ \A i \in 1..Len(executed) :
          executed[i].stopped # "none" => stop_pc # "none" /\ pc # "execute"

StopInv == LatchOK /\ TokenOK /\ ExecutionOK /\ NoEffectAfterStop

\* No stop has been requested before the run exists.
LEMMA InitStopInv == Init => StopInv
    BY StopsAssumption
    DEF Init, LatchInit, StopInv, LatchOK, TokenOK, ExecutionOK, NoEffectAfterStop, NoOutcome

\* What an append does to the control: on to next, or back to the caller.
LEMMA EmitControl ==
    ASSUME NEW event, NEW durability, NEW next, Emit(event, durability, next)
    PROVE  \/ pc' = next /\ outcome' = outcome
           \/ pc' = "returned" /\ outcome'.kind = "Indeterminate"
    BY DEF Emit, Indeterminate

\* A step of the run that neither executes, nor enters execute, nor touches the latch.
LEMMA QuietStep ==
    ASSUME TypeInv, StopInv, UNCHANGED <<latch, stop_pc, executed>>,
           token_owner' = token_owner \/ token_owner' = "this_run",
           token_owner # "another_run", pc # "returned", pc' \notin {"execute", "new"},
           outcome' = outcome \/ outcome'.kind = "Indeterminate"
    PROVE  StopInv'
<1> USE DEF StopInv, latch
<1>1. LatchOK'
    BY DEF LatchOK
<1>2. TokenOK'
    BY DEF TokenOK
<1>3. ExecutionOK'
    BY DEF ExecutionOK
<1>4. NoEffectAfterStop'
    BY DEF NoEffectAfterStop
<1> QED
    BY <1>1, <1>2, <1>3, <1>4

\* A checkpoint lets the run go on only when no stop is pending.
LEMMA CheckpointStop ==
    ASSUME TypeInv, StopInv, NEW next \in Labels \ {"finish", "new", "returned"}, Checkpoint(next),
           pc # "returned", pc # "new", UNCHANGED <<stop_pc, executed, token_owner, outcome>>
    PROVE  StopInv'
<1> USE DEF StopInv, latch, LatchOK, TokenOK, ExecutionOK, NoEffectAfterStop
<1>1. CASE StoppedOr(next)
    BY <1>1 DEF StoppedOr, StopNow
<1>2. ASSUME NEW stop \in Stops, ResolveTerminal(stop), pc' = "finish" PROVE StopInv'
    BY <1>2, StopsAssumption DEF ResolveTerminal, Resolved, TypeInv, TypeOK, LatchTypeOK, ControlOK, TerminalRunStatus
<1> QED
    BY <1>1, <1>2 DEF Checkpoint

\* Each operation of the run keeps the stop invariant.
LEMMA StepStopInv == TypeInv /\ StopInv /\ [Next]_vars => StopInv'
<1> SUFFICES ASSUME TypeInv, StopInv, [Next]_vars PROVE StopInv'
    OBVIOUS
<1>a. token_owner = "another_run" => pc = "new"
    BY DEF StopInv, TokenOK
<1> USE DEF stream, call, sink, effects
<1>1. CASE RequestStop
    <2>1. PICK stop \in Stops : ResolveTerminal(stop)
        BY <1>1 DEF RequestStop
    <2>2. /\ UNCHANGED <<pc, token_owner, outcome, executed>>
          /\ stop_pc' = IF terminal_status = "Undecided" THEN pc ELSE stop_pc
        BY <1>1 DEF RequestStop
    <2>3. LatchOK'
        BY <2>1, <2>2, StopsAssumption
        DEF StopInv, LatchOK, ResolveTerminal, Resolved, TypeInv, TypeOK, LatchTypeOK
    <2>4. ExecutionOK' /\ NoEffectAfterStop'
        BY <2>1, <2>2, StopsAssumption
        DEF StopInv, LatchOK, ExecutionOK, NoEffectAfterStop, ResolveTerminal, Resolved, TypeInv, TypeOK,
            LatchTypeOK, TerminalRunStatus, Labels
    <2> QED
        BY <2>2, <2>3, <2>4 DEF StopInv, TokenOK
<1>2. CASE RejectBoundToken
    BY <1>2 DEF RejectBoundToken, StopInv, LatchOK, TokenOK, ExecutionOK, NoEffectAfterStop, latch
<1>3. CASE FreshToken
    <2>1. pc = "new" /\ executed = <<>> /\ UNCHANGED <<pc, executed>>
        BY <1>3 DEF FreshToken, StopInv, TokenOK
    <2>2. /\ token_owner' = "nobody" /\ terminal_status' = "Undecided" /\ ~cancellation'
          /\ stop_pc' = "none" /\ outcome'.kind = "none"
        BY <1>3 DEF FreshToken, NoOutcome
    <2> QED
        BY <2>1, <2>2, StopsAssumption DEF StopInv, LatchOK, TokenOK, ExecutionOK, NoEffectAfterStop
<1>4. CASE StartRun
    BY <1>4, EmitControl, QuietStep DEF StartRun
<1>5. CASE BeginTurn
    BY <1>5, CheckpointStop DEF BeginTurn, Labels
<1>6. CASE TurnLimitReached
    BY <1>6, <1>a, QuietStep DEF TurnLimitReached
<1>7. CASE StartTurn
    BY <1>7, <1>a, EmitControl, QuietStep DEF StartTurn
<1>8. CASE OpenStream
    BY <1>8, <1>a, QuietStep DEF OpenStream, StoppedOr, StopNow
<1>9. CASE StreamYields
    BY <1>9, CheckpointStop DEF StreamYields, Labels
<1>10. CASE StreamEnds
    BY <1>10, <1>a, QuietStep DEF StreamEnds, StoppedOr, StopNow
<1>11. ASSUME NEW e \in ModelStreamEvents, RecordModelEvent(e) PROVE StopInv'
    BY <1>11, <1>a, EmitControl, QuietStep DEF RecordModelEvent
<1>12. CASE TurnCollected
    BY <1>12, <1>a, QuietStep DEF TurnCollected, StopNow
<1>13. CASE TurnDone
    BY <1>13, <1>a, QuietStep DEF TurnDone
<1>14. CASE RequestToolCall
    BY <1>14, <1>a, EmitControl, QuietStep DEF RequestToolCall
<1>15. ASSUME NEW d \in Dispositions, Prepare(d) PROVE StopInv'
    BY <1>15, <1>a, QuietStep DEF Prepare
<1>16. CASE RequestApproval
    BY <1>16, <1>a, EmitControl, QuietStep DEF RequestApproval
<1>17. ASSUME NEW d \in Decisions, DecideApproval(d) PROVE StopInv'
    BY <1>17, <1>a, QuietStep DEF DecideApproval, StoppedOr, StopNow
<1>18. CASE ResolveApproval
    BY <1>18, <1>a, EmitControl, QuietStep DEF ResolveApproval
<1>19. CASE Authorize
    BY <1>19, CheckpointStop DEF Authorize, Labels
<1>20. ASSUME NEW r \in {"Success", "Failure"}, Execute(r) PROVE StopInv'
    <2>1. pc = "execute" /\ pc' = "result" /\ UNCHANGED <<latch, stop_pc, token_owner, outcome>>
        BY <1>20 DEF Execute
    <2>2. CASE executed' = executed
        BY <2>1, <2>2, <1>a, QuietStep
    <2>3. CASE executed' = Append(executed, [call |-> tool_call_seq, disposition |-> prepared,
                                             stopped |-> stop_pc])
        <3>1. \A i \in 1..Len(executed) : executed[i].stopped = "none"
            BY <2>1 DEF StopInv, ExecutionOK
        <3>2. stop_pc \in {"none", "execute"}
            BY <2>1 DEF StopInv, ExecutionOK
        <3>3. /\ Len(executed') = Len(executed) + 1
              /\ \A i \in 1..Len(executed) : executed'[i].stopped = "none"
              /\ executed'[Len(executed')].stopped = stop_pc
            BY <2>3, <3>1 DEF TypeInv, TypeOK
        <3>4. Len(executed) \in Nat
            BY DEF TypeInv, TypeOK
        <3>5. NoEffectAfterStop'
            BY <3>2, <3>3, <3>4 DEF NoEffectAfterStop
        <3>6. ExecutionOK'
            BY <2>1, <3>2, <3>3, <3>4 DEF ExecutionOK, StopInv, latch
        <3> QED
            BY <2>1, <3>5, <3>6 DEF StopInv, LatchOK, TokenOK, latch
    <2> QED
        BY <1>20, <2>2, <2>3 DEF Execute
<1>21. CASE RecordResult
    BY <1>21, <1>a, EmitControl, QuietStep DEF RecordResult
<1>22. CASE CallDone
    BY <1>22, <1>a, EmitControl, QuietStep DEF CallDone, StopNow
<1>23. CASE Fail
    BY <1>23, <1>a, EmitControl, QuietStep DEF Fail
<1>24. CASE Finish
    <2>1. /\ pc = "finish" /\ pc' = "returned" /\ UNCHANGED <<token_owner, stop_pc, executed>>
          /\ outcome'.kind \in {"Finished", "Indeterminate"}
        BY <1>24 DEF Finish, Indeterminate
    <2>2. ResolveTerminal(proposed)
        BY <1>24 DEF Finish
    <2> QED
        BY <2>1, <2>2, <1>a
        DEF StopInv, LatchOK, TokenOK, ExecutionOK, NoEffectAfterStop, ResolveTerminal, Resolved,
            TypeInv, TypeOK, LatchTypeOK
<1>25. CASE UNCHANGED vars
    BY <1>25 DEF vars, StopInv, LatchOK, TokenOK, ExecutionOK, NoEffectAfterStop
<1> QED
    BY <1>1, <1>2, <1>3, <1>4, <1>5, <1>6, <1>7, <1>8, <1>9, <1>10, <1>11, <1>12, <1>13, <1>14,
       <1>15, <1>16, <1>17, <1>18, <1>19, <1>20, <1>21, <1>22, <1>23, <1>24, <1>25
    DEF Next, Running, Awaiting, RejectSecondRun, Dispositions

\* The stop invariant holds throughout.
LEMMA StopInvariance == Spec => [](TypeInv /\ StopInv)
<1>1. Init => TypeInv /\ StopInv
    BY InitTypeInv, InitStopInv
<1>2. TypeInv /\ StopInv /\ [Next]_vars => TypeInv' /\ StopInv'
    BY StepTypeInv, StepStopInv
<1> QED
    BY <1>1, <1>2, PTL DEF Spec

\* Once another thread has requested a stop no tool handler starts any more,
\* except that of the call that had passed its last checkpoint.
THEOREM NothingRunsAfterAStop == Spec => []NoEffectAfterStop
<1>1. StopInv => NoEffectAfterStop
    BY DEF StopInv
<1> QED
    BY <1>1, StopInvariance, PTL

-----------------------------------------------------------------------------
\* Only resolve_terminal writes the latch, once the token is the run's own.
LEMMA LatchIsResolved ==
    ASSUME StopInv, Next, token_owner = "this_run"
    PROVE  UNCHANGED latch \/ \E p : ResolveTerminal(p)
<1>1. ~FreshToken
    BY DEF FreshToken, StopInv, TokenOK
<1>2. CASE RequestStop
    BY <1>2 DEF RequestStop
<1>3. CASE RejectBoundToken \/ RejectSecondRun
    BY <1>3 DEF RejectBoundToken, RejectSecondRun, vars, latch
<1>4. CASE Running
    BY <1>4
    DEF Running, StartRun, BeginTurn, TurnLimitReached, StartTurn, RecordModelEvent, TurnCollected,
        TurnDone, RequestToolCall, Prepare, RequestApproval, ResolveApproval, Authorize,
        RecordResult, CallDone, Fail, Finish, Checkpoint, StoppedOr, StopNow
<1>5. CASE Awaiting
    BY <1>5
    DEF Awaiting, OpenStream, StreamYields, StreamEnds, DecideApproval, Execute,
        Checkpoint, StoppedOr, StopNow
<1> QED
    BY <1>1, <1>2, <1>3, <1>4, <1>5 DEF Next

\* The first terminal status of a run is final, and its flag is raised only for
\* a stop.
THEOREM FirstStatusWins == Spec => TerminalStatusIsFinal
<1> DEFINE Final == token_owner = "this_run" =>
                       /\ terminal_status # "Undecided" => terminal_status' = terminal_status
                       /\ cancellation' => terminal_status' \in Stops
<1>1. TypeInv /\ StopInv /\ TypeInv' /\ [Next]_vars => [Final]_vars
    <2> SUFFICES ASSUME StopInv, TypeInv', Next, token_owner = "this_run"
                 PROVE  /\ terminal_status # "Undecided" => terminal_status' = terminal_status
                        /\ cancellation' => terminal_status' \in Stops
        OBVIOUS
    <2>1. terminal_status # "Undecided" => terminal_status' = terminal_status
        BY LatchIsResolved DEF latch, ResolveTerminal, Resolved
    <2> QED
        BY <2>1 DEF TypeInv, ControlOK
<1> QED
    BY <1>1, StopInvariance, PTL DEF Spec, TerminalStatusIsFinal

-----------------------------------------------------------------------------
(* The end of the run *)

\* The log is numbered from 1, and a running run knows the next number.
SequenceOK ==
    /\ \A i \in 1..Len(log) : log[i].seq = i
    /\ pc # "returned" => next_event_sequence = Len(log) + 1

\* A run that has not returned has neither an outcome nor a RunFinished.
OpenOK ==
    pc # "returned" =>
        /\ outcome.kind \notin {"Finished", "Indeterminate"}
        /\ \A i \in 1..Len(log) : log[i].type # "RunFinished"

\* A finished run's status is in the token and alone at the durable end of the log.
FinishedOK ==
    outcome.kind = "Finished" =>
        /\ terminal_status # "Undecided"
        /\ outcome.status = terminal_status
        /\ Len(log) > 0
        /\ synced = Len(log)
        /\ log[Len(log)].type = "RunFinished"
        /\ log[Len(log)].value = outcome.status
        /\ \A i \in 1..(Len(log) - 1) : log[i].type # "RunFinished"

ReportOK ==
    outcome.kind = "Indeterminate" =>
        \/ outcome.event.seq = Len(log) + 1
        \/ Len(log) > 0 /\ log[Len(log)] = outcome.event

EndInv == SequenceOK /\ OpenOK /\ FinishedOK /\ ReportOK

\* A new run has an empty log and no outcome.
LEMMA InitEndInv == Init => EndInv
    BY DEF Init, EndInv, SequenceOK, OpenOK, FinishedOK, ReportOK, NoOutcome

\* A step of a running run that leaves the sink alone.
LEMMA QuietEnd ==
    ASSUME EndInv, UNCHANGED <<log, synced, next_event_sequence, outcome>>,
           pc # "returned", pc' # "returned"
    PROVE  EndInv'
    BY DEF EndInv, SequenceOK, OpenOK, FinishedOK, ReportOK

\* What an append does to the log, in terms of the last element.
LEMMA EmitLog ==
    ASSUME TypeInv, NEW event \in AgentEvents, NEW durability, NEW next, Emit(event, durability, next)
    PROVE  /\ Len(log) \in Nat /\ synced \in 0..Len(log)
           /\ \/ /\ Len(log') = Len(log) + 1
                 /\ log'[Len(log')] = event
                 /\ \A i \in 1..Len(log) : log'[i] = log[i]
              \/ log' = log
           /\ \/ /\ pc' = next /\ outcome' = outcome
                 /\ next_event_sequence' = next_event_sequence + 1
                 /\ Len(log') = Len(log) + 1
                 /\ synced' = IF durability = "Durable" THEN Len(log') ELSE synced
              \/ /\ pc' = "returned" /\ outcome'.kind = "Indeterminate"
                 /\ outcome'.event = event
                 /\ synced' = synced
<1>1. Len(log) \in Nat /\ synced \in 0..Len(log) /\ log \in Seq(AgentEvents)
    BY DEF TypeInv, TypeOK
<1>2. /\ Len(Append(log, event)) = Len(log) + 1
      /\ Append(log, event)[Len(log) + 1] = event
      /\ \A i \in 1..Len(log) : Append(log, event)[i] = log[i]
    BY <1>1
<1>3. log' = Append(log, event) \/ log' = log
    BY DEF Emit, Committed, Indeterminate
<1>4. CASE Committed(event, durability) /\ pc' = next /\ UNCHANGED outcome
    BY <1>1, <1>2, <1>4 DEF Committed
<1>5. CASE Indeterminate(event, durability)
    BY <1>1, <1>2, <1>3, <1>5 DEF Indeterminate
<1> QED
    BY <1>4, <1>5 DEF Emit

\* An append by a running run, of anything but its end.
LEMMA EmitEnd ==
    ASSUME TypeInv, EndInv, NEW event \in AgentEvents, NEW durability, NEW next,
           Emit(event, durability, next), pc # "returned", next # "returned",
           event.seq = next_event_sequence, event.type # "RunFinished"
    PROVE  EndInv'
<1>1. SequenceOK'
    BY EmitLog DEF EndInv, SequenceOK
<1>2. OpenOK'
    BY EmitLog DEF EndInv, OpenOK
<1>3. FinishedOK'
    BY EmitLog DEF EndInv, OpenOK, FinishedOK
<1>4. ReportOK'
    BY EmitLog DEF EndInv, OpenOK, SequenceOK, ReportOK
<1> QED
    BY <1>1, <1>2, <1>3, <1>4 DEF EndInv

\* The numbering and the type of what a run appends before its end.
LEMMA EventsAreNumbered ==
    /\ \A event \in {RunStarted, TurnStarted, ToolCallRequested, ApprovalRequested,
                      ApprovalResolved, ToolResult, RecoverableError, FatalError} :
          event.seq = next_event_sequence /\ event.type # "RunFinished"
    /\ \A e : ModelOutput(e).seq = next_event_sequence /\ ModelOutput(e).type # "RunFinished"
    BY DEF RunStarted, TurnStarted, ToolCallRequested, ApprovalRequested, ApprovalResolved,
           ToolResult, RecoverableError, FatalError, ModelOutput, Event

\* Each operation of the run keeps the invariant about its end.
LEMMA StepEndInv == TypeInv /\ EndInv /\ [Next]_vars => EndInv'
<1> SUFFICES ASSUME TypeInv, EndInv, [Next]_vars PROVE EndInv'
    OBVIOUS
<1> USE DEF stream, call, sink, effects
<1>1. CASE RequestStop
    <2>1. UNCHANGED <<pc, log, synced, next_event_sequence, outcome>>
        BY <1>1 DEF RequestStop
    <2>2. terminal_status # "Undecided" => UNCHANGED terminal_status
        BY <1>1 DEF RequestStop, ResolveTerminal, Resolved
    <2> QED
        BY <2>1, <2>2 DEF EndInv, SequenceOK, OpenOK, FinishedOK, ReportOK
<1>2. CASE RejectBoundToken
    BY <1>2 DEF RejectBoundToken, EndInv, SequenceOK, OpenOK, FinishedOK, ReportOK
<1>3. CASE FreshToken
    <2>1. UNCHANGED <<pc, log, next_event_sequence>> /\ outcome'.kind = "none"
        BY <1>3 DEF FreshToken, NoOutcome
    <2> QED
        BY <2>1 DEF EndInv, SequenceOK, OpenOK, FinishedOK, ReportOK
<1>4. CASE BeginTurn \/ StreamYields \/ Authorize
    BY <1>4, QuietEnd DEF BeginTurn, StreamYields, Authorize, Checkpoint, StoppedOr, StopNow
<1>5. CASE TurnLimitReached \/ TurnCollected \/ TurnDone \/ OpenStream \/ StreamEnds
    BY <1>5, QuietEnd
    DEF TurnLimitReached, TurnCollected, TurnDone, OpenStream, StreamEnds, StoppedOr, StopNow
<1>6. ASSUME NEW d, Prepare(d) \/ DecideApproval(d) \/ Execute(d) PROVE EndInv'
    BY <1>6, QuietEnd DEF Prepare, DecideApproval, Execute, StoppedOr, StopNow
<1>7. CASE StartRun
    BY <1>7, EmitEnd, EventsAreTyped, EventsAreNumbered DEF StartRun
<1>8. CASE StartTurn
    BY <1>8, EmitEnd, EventsAreTyped, EventsAreNumbered DEF StartTurn
<1>9. ASSUME NEW e \in ModelStreamEvents, RecordModelEvent(e) PROVE EndInv'
    BY <1>9, EmitEnd, EventsAreTyped, EventsAreNumbered DEF RecordModelEvent
<1>10. CASE RequestToolCall
    BY <1>10, EmitEnd, EventsAreTyped, EventsAreNumbered DEF RequestToolCall
<1>11. CASE RequestApproval
    <2>1. next_call <= Len(tool_calls)
        BY <1>11 DEF RequestApproval, TypeInv, ControlOK, InCall
    <2> QED
        BY <1>11, <2>1, EmitEnd, EventsAreTyped, EventsAreNumbered DEF RequestApproval
<1>12. CASE ResolveApproval
    BY <1>12, EmitEnd, EventsAreTyped, EventsAreNumbered DEF ResolveApproval
<1>13. CASE RecordResult
    BY <1>13, EmitEnd, EventsAreTyped, EventsAreNumbered DEF RecordResult
<1>14. CASE CallDone
    <2>1. CASE UNCHANGED sink /\ pc' # "returned"
        BY <1>14, <2>1, QuietEnd DEF CallDone
    <2>2. CASE Emit(RecoverableError, "Buffered", "call")
        BY <1>14, <2>2, EmitEnd, EventsAreTyped, EventsAreNumbered DEF CallDone
    <2> QED
        BY <1>14, <2>1, <2>2 DEF CallDone, StopNow
<1>15. CASE Fail
    BY <1>15, EmitEnd, EventsAreTyped, EventsAreNumbered DEF Fail
<1>16. CASE Finish
    <2> DEFINE status == Resolved(proposed)
               event == RunFinished(status)
    <2>1. status \in TerminalRunStatus /\ terminal_status' = status
        BY <1>16 DEF Finish, ResolveTerminal, Resolved, TypeInv, TypeOK, LatchTypeOK, ControlOK
    <2>2. /\ event \in AgentEvents /\ event.seq = next_event_sequence
          /\ event.type = "RunFinished" /\ event.value = status
        BY <2>1, EventsAreTyped DEF RunFinished, Event
    <2>3. pc = "finish" /\ status # "Undecided"
        BY <1>16, <2>1, StopsAssumption DEF Finish, TerminalRunStatus
    <2> HIDE DEF status, event
    <2>4. CASE Committed(event, "Durable") /\ pc' = "returned"
               /\ outcome' = [kind |-> "Finished", status |-> status]
        <3>1. /\ Len(log) \in Nat /\ Len(log') = Len(log) + 1 /\ synced' = Len(log')
              /\ log'[Len(log')] = event
              /\ \A i \in 1..Len(log) : log'[i] = log[i]
            BY <2>2, <2>4 DEF Committed, TypeInv, TypeOK
        <3>2. outcome'.kind = "Finished" /\ outcome'.status = status
            BY <2>4
        <3>3. SequenceOK' /\ OpenOK' /\ ReportOK'
            BY <2>2, <2>3, <2>4, <3>1, <3>2 DEF EndInv, SequenceOK, OpenOK, ReportOK
        <3>4. FinishedOK'
            BY <2>1, <2>2, <2>3, <3>1, <3>2 DEF EndInv, OpenOK, FinishedOK
        <3> QED
            BY <3>3, <3>4 DEF EndInv
    <2>5. CASE Indeterminate(event, "Durable")
        <3>1. Emit(event, "Durable", "returned")
            BY <2>5 DEF Emit
        <3>2. pc' = "returned" /\ outcome'.kind = "Indeterminate" /\ outcome'.event = event
            BY <2>5 DEF Indeterminate
        <3> QED
            BY <2>2, <2>3, <3>1, <3>2, EmitLog
            DEF EndInv, SequenceOK, OpenOK, FinishedOK, ReportOK
    <2> QED
        BY <1>16, <2>4, <2>5 DEF Finish, status, event
<1>17. CASE UNCHANGED vars
    BY <1>17 DEF vars, EndInv, SequenceOK, OpenOK, FinishedOK, ReportOK
<1> QED
    BY <1>1, <1>2, <1>3, <1>4, <1>5, <1>6, <1>7, <1>8, <1>9, <1>10, <1>11, <1>12, <1>13, <1>14,
       <1>15, <1>16, <1>17
    DEF Next, Running, Awaiting, RejectSecondRun

\* The invariant about the end of the run holds throughout.
LEMMA EndInvariance == Spec => [](TypeInv /\ EndInv)
<1>1. Init => TypeInv /\ EndInv
    BY InitTypeInv, InitEndInv
<1>2. TypeInv /\ EndInv /\ [Next]_vars => TypeInv' /\ EndInv'
    BY StepTypeInv, StepEndInv
<1> QED
    BY <1>1, <1>2, PTL DEF Spec

\* A run that returns a status has recorded it, durably, as the last event and
\* once, and it is the status the token kept.
THEOREM OutcomeIsRecorded == Spec => []OutcomeMatchesLog
<1>1. TypeInv /\ EndInv => OutcomeMatchesLog
    <2> SUFFICES ASSUME TypeInv, FinishedOK, outcome.kind = "Finished"
                 PROVE  /\ outcome.status = terminal_status
                        /\ synced = Len(log)
                        /\ Logged(Len(log), "RunFinished") = {Len(log)}
                        /\ log[Len(log)].value = outcome.status
        BY DEF EndInv, OutcomeMatchesLog
    <2>1. Len(log) \in Nat \ {0}
        BY DEF TypeInv, TypeOK, FinishedOK
    <2> QED
        BY <2>1 DEF FinishedOK, Logged
<1> QED
    BY <1>1, EndInvariance, PTL

\* After an append error the event that reconcile must look for is the last of
\* the log or the next one, and the log is numbered without a gap.
THEOREM ReportIsExact == Spec => []IndeterminateIsExact
<1>1. EndInv => IndeterminateIsExact
    BY DEF EndInv, SequenceOK, ReportOK, IndeterminateIsExact
<1> QED
    BY <1>1, EndInvariance, PTL

-----------------------------------------------------------------------------
(* Effects and the log: a tool handler runs only after its request (and its
   approval) are durable, and a run that records its end has recorded the
   result of every handler that ran. *)

\* The first n events of log l hold the request of call c.
Requested(l, n, c) == \E i \in 1..n : l[i].type = "ToolCallRequested" /\ l[i].call = c

\* ... an approval request a for call c.
Asked(l, n, c, a) ==
    \E i \in 1..n : l[i].type = "ApprovalRequested" /\ l[i].call = c /\ l[i].approval = a

\* ... the decision to approve request a.
Granted(l, n, a) ==
    \E i \in 1..n : l[i].type = "ApprovalResolved" /\ l[i].approval = a /\ l[i].value = "Approve"

\* ... a result of call c that is not a denial.
HasResult(l, n, c) ==
    \E i \in 1..n : l[i].type = "ToolResult" /\ l[i].call = c /\ l[i].value # "Denied"

\* What is durable at each point of drive_tool_call.
CallOK ==
    /\ pc \in InCall => Requested(log, synced, tool_call_seq)
    /\ pc \in {"decide", "resolve"} => Asked(log, synced, tool_call_seq, approval_seq)
    /\ pc \in {"authorize", "execute"} /\ prepared = "RequiresApproval" =>
          Asked(log, synced, tool_call_seq, approval_seq) /\ Granted(log, synced, approval_seq)

\* What is durable, and what is recorded, of each handler that ran; the result of
\* the last one may still have to be recorded, or have failed to be.
EffectsOK ==
    \A x \in ToSet(executed) :
        /\ Requested(log, synced, x.call)
        /\ x.disposition = "RequiresApproval" => \E a \in Nat : Asked(log, synced, x.call, a) /\ Granted(log, synced, a)
        /\ \/ HasResult(log, Len(log), x.call)
           \/ pc = "result" /\ x.call = tool_call_seq /\ output # "Denied"
           \/ pc = "returned" /\ \A i \in 1..Len(log) : log[i].type # "RunFinished"

WriteAheadInv == CallOK /\ EffectsOK

\* Nothing has run yet.
LEMMA InitWriteAheadInv == Init => WriteAheadInv
<1> SUFFICES ASSUME Init PROVE WriteAheadInv
    OBVIOUS
<1>1. pc = "new" /\ ToSet(executed) = {}
    BY DEF Init, ToSet
<1> QED
    BY <1>1 DEF WriteAheadInv, CallOK, EffectsOK, InCall

\* The log only grows, and so does its durable part.
Grows ==
    /\ Len(log) \in Nat /\ Len(log') \in Nat /\ synced \in 0..Len(log) /\ synced' \in Nat
    /\ Len(log') >= Len(log) /\ synced' >= synced
    /\ \A i \in 1..Len(log) : log'[i] = log[i]

\* What is durable or recorded stays so.
LEMMA FactsAreStable ==
    ASSUME Grows
    PROVE  /\ \A c : Requested(log, synced, c) => Requested(log', synced', c)
           /\ \A c, a : Asked(log, synced, c, a) => Asked(log', synced', c, a)
           /\ \A a : Granted(log, synced, a) => Granted(log', synced', a)
           /\ \A c : HasResult(log, Len(log), c) => HasResult(log', Len(log'), c)
<1>1. /\ \A i \in 1..synced : i \in 1..synced' /\ log'[i] = log[i]
      /\ \A i \in 1..Len(log) : i \in 1..Len(log') /\ log'[i] = log[i]
    BY DEF Grows
<1>2. ASSUME NEW c, Requested(log, synced, c) PROVE Requested(log', synced', c)
    BY ONLY <1>1, <1>2, Zenon DEF Requested
<1>3. ASSUME NEW c, NEW a, Asked(log, synced, c, a) PROVE Asked(log', synced', c, a)
    BY ONLY <1>1, <1>3, Zenon DEF Asked
<1>4. ASSUME NEW a, Granted(log, synced, a) PROVE Granted(log', synced', a)
    BY ONLY <1>1, <1>4, Zenon DEF Granted
<1>5. ASSUME NEW c, HasResult(log, Len(log), c) PROVE HasResult(log', Len(log'), c)
    BY ONLY <1>1, <1>5, Zenon DEF HasResult
<1> QED
    BY ONLY <1>2, <1>3, <1>4, <1>5

\* An unchanged or an appended log has grown.
LEMMA QuietGrows == ASSUME TypeInv, UNCHANGED <<log, synced>> PROVE Grows
    BY DEF TypeInv, TypeOK, Grows

\* So has the log after an append, accepted or not.
LEMMA EmitGrows ==
    ASSUME TypeInv, NEW event \in AgentEvents, NEW durability, NEW next, Emit(event, durability, next)
    PROVE  Grows
    BY EmitLog DEF Grows

\* An append leads on to next or back to the caller.
LEMMA EmitControlPoint ==
    ASSUME NEW event, NEW durability, NEW next, Emit(event, durability, next)
    PROVE  pc' \in {next, "returned"}
    BY DEF Emit, Indeterminate

\* Outside of execute and result, every handler that ran is already answered.
LEMMA EffectsStay ==
    ASSUME EffectsOK, Grows, UNCHANGED executed, pc \notin {"result", "returned"}
    PROVE  EffectsOK'
    BY FactsAreStable DEF EffectsOK

\* A step of the run that leaves drive_tool_call or stays out of it.
LEMMA OutsideCall ==
    ASSUME WriteAheadInv, Grows, UNCHANGED executed, pc \notin {"result", "returned"},
           pc' \notin InCall
    PROVE  WriteAheadInv'
    BY EffectsStay DEF WriteAheadInv, CallOK, InCall

\* The fields of the events the write-ahead rule is about.
LEMMA CallEventFields ==
    /\ ToolCallRequested.type = "ToolCallRequested" /\ ToolCallRequested.call = tool_call_seq + 1
    /\ ApprovalRequested.type = "ApprovalRequested" /\ ApprovalRequested.call = tool_call_seq
    /\ ApprovalRequested.approval = approval_seq + 1
    /\ ApprovalResolved.type = "ApprovalResolved" /\ ApprovalResolved.approval = approval_seq
    /\ ApprovalResolved.value = decision
    /\ ToolResult.type = "ToolResult" /\ ToolResult.call = tool_call_seq /\ ToolResult.value = output
    BY DEF ToolCallRequested, ApprovalRequested, ApprovalResolved, ToolResult, Event

\* Appending adds one element to the set of a sequence's elements.
LEMMA ToSetOfAppend ==
    ASSUME NEW S, NEW s \in Seq(S), NEW e
    PROVE  ToSet(Append(s, e)) = ToSet(s) \cup {e}
<1>1. /\ DOMAIN s = 1..Len(s) /\ Len(s) \in Nat
      /\ DOMAIN Append(s, e) = 1..(Len(s) + 1)
      /\ \A i \in 1..Len(s) : Append(s, e)[i] = s[i]
      /\ Append(s, e)[Len(s) + 1] = e
    OBVIOUS
<1> QED
    BY <1>1 DEF ToSet

\* Each operation of the run keeps the write-ahead invariant.
LEMMA StepWriteAheadInv ==
    TypeInv /\ EndInv /\ WriteAheadInv /\ [Next]_vars => WriteAheadInv'
<1> SUFFICES ASSUME TypeInv, EndInv, WriteAheadInv, [Next]_vars PROVE WriteAheadInv'
    OBVIOUS
<1>a. UNCHANGED <<pc, log, synced, tool_call_seq, approval_seq, prepared, output, executed>>
          => WriteAheadInv'
    BY DEF WriteAheadInv, CallOK, EffectsOK, Requested, Asked, Granted, HasResult
<1>b. tool_call_seq \in Nat /\ approval_seq \in Nat
    BY DEF TypeInv, TypeOK
<1> USE DEF stream, call, sink, effects
<1>1. CASE RequestStop \/ RejectBoundToken \/ FreshToken \/ UNCHANGED vars
    BY <1>1, <1>a DEF RequestStop, RejectBoundToken, FreshToken, vars
<1>2. CASE StartRun
    BY <1>2, EmitControlPoint, EmitGrows, EventsAreTyped, OutsideCall DEF StartRun, InCall
<1>3. CASE BeginTurn \/ StreamYields
    BY <1>3, QuietGrows, OutsideCall DEF BeginTurn, StreamYields, Checkpoint, StoppedOr, StopNow, InCall
<1>4. CASE TurnLimitReached \/ TurnCollected \/ TurnDone \/ OpenStream \/ StreamEnds
    BY <1>4, QuietGrows, OutsideCall
    DEF TurnLimitReached, TurnCollected, TurnDone, OpenStream, StreamEnds, StoppedOr, StopNow, InCall
<1>5. CASE StartTurn
    BY <1>5, EmitControlPoint, EmitGrows, EventsAreTyped, OutsideCall DEF StartTurn, InCall
<1>6. ASSUME NEW e \in ModelStreamEvents, RecordModelEvent(e) PROVE WriteAheadInv'
    BY <1>6, EmitControlPoint, EmitGrows, EventsAreTyped, OutsideCall DEF RecordModelEvent, InCall
<1>7. CASE RequestToolCall
    <2>1. /\ pc = "call" /\ Emit(ToolCallRequested, "Durable", "prepare")
          /\ ToolCallRequested \in AgentEvents /\ UNCHANGED executed
          /\ tool_call_seq' = tool_call_seq + 1
        BY <1>7, EventsAreTyped DEF RequestToolCall
    <2>2. EffectsOK'
        BY <2>1, EmitGrows, EffectsStay DEF WriteAheadInv
    <2>3. pc' = "prepare" => Requested(log', synced', tool_call_seq')
        BY <2>1, EmitLog, CallEventFields DEF Requested
    <2>4. pc' \in {"prepare", "returned"}
        BY <2>1, EmitControlPoint
    <2> QED
        BY <2>2, <2>3, <2>4 DEF WriteAheadInv, CallOK, InCall
<1>8. ASSUME NEW d \in Dispositions, Prepare(d) PROVE WriteAheadInv'
    <2>1. /\ pc = "prepare" /\ UNCHANGED <<log, synced, executed, tool_call_seq>>
          /\ prepared' = d /\ pc' = IF d = "RequiresApproval" THEN "ask" ELSE "authorize"
        BY <1>8 DEF Prepare
    <2>2. EffectsOK'
        BY <2>1, QuietGrows, EffectsStay DEF WriteAheadInv
    <2> QED
        BY <2>1, <2>2 DEF WriteAheadInv, CallOK, InCall, Requested
<1>9. CASE RequestApproval
    <2>1. /\ pc = "ask" /\ Emit(ApprovalRequested, "Durable", "decide") /\ UNCHANGED executed
          /\ approval_seq' = approval_seq + 1 /\ UNCHANGED tool_call_seq
        BY <1>9 DEF RequestApproval
    <2>2. ApprovalRequested \in AgentEvents
        BY <2>1, EventsAreTyped DEF TypeInv, ControlOK, InCall
    <2>3. EffectsOK'
        BY <2>1, <2>2, EmitGrows, EffectsStay DEF WriteAheadInv
    <2>4. pc' = "decide" => Asked(log', synced', tool_call_seq', approval_seq')
        BY <2>1, <2>2, EmitLog, CallEventFields DEF Asked
    <2>5. Requested(log', synced', tool_call_seq')
        BY <2>1, <2>2, EmitGrows, FactsAreStable DEF WriteAheadInv, CallOK, InCall
    <2>6. pc' \in {"decide", "returned"}
        BY <2>1, EmitControlPoint
    <2> QED
        BY <2>3, <2>4, <2>5, <2>6 DEF WriteAheadInv, CallOK, InCall
<1>10. ASSUME NEW d \in Decisions, DecideApproval(d) PROVE WriteAheadInv'
    <2>1. /\ pc = "decide" /\ pc' \in {"resolve", "finish"}
          /\ UNCHANGED <<log, synced, executed, tool_call_seq, approval_seq>>
        BY <1>10 DEF DecideApproval, StoppedOr, StopNow
    <2>2. EffectsOK'
        BY <2>1, QuietGrows, EffectsStay DEF WriteAheadInv
    <2> QED
        BY <2>1, <2>2 DEF WriteAheadInv, CallOK, InCall, Requested, Asked
<1>11. CASE ResolveApproval
    <2>1. /\ pc = "resolve" /\ ApprovalResolved \in AgentEvents
          /\ Emit(ApprovalResolved, "Durable", IF decision = "Approve" THEN "authorize" ELSE "result")
          /\ UNCHANGED <<executed, tool_call_seq, approval_seq>>
        BY <1>11, EventsAreTyped DEF ResolveApproval
    <2>2. EffectsOK'
        BY <2>1, EmitGrows, EffectsStay DEF WriteAheadInv
    <2>3. Requested(log', synced', tool_call_seq') /\ Asked(log', synced', tool_call_seq', approval_seq')
        BY <2>1, EmitGrows, FactsAreStable DEF WriteAheadInv, CallOK, InCall
    <2>4. pc' = "authorize" => Granted(log', synced', approval_seq')
        BY <2>1, EmitLog, CallEventFields DEF Granted
    <2>5. pc' \in {"authorize", "result", "returned"}
        BY <2>1, EmitControlPoint
    <2> QED
        BY <2>2, <2>3, <2>4, <2>5 DEF WriteAheadInv, CallOK, InCall
<1>12. CASE Authorize
    <2>1. /\ pc = "authorize" /\ pc' \in {"execute", "finish"}
          /\ UNCHANGED <<log, synced, executed, tool_call_seq, approval_seq, prepared>>
        BY <1>12 DEF Authorize, Checkpoint, StoppedOr, StopNow
    <2>2. EffectsOK'
        BY <2>1, QuietGrows, EffectsStay DEF WriteAheadInv
    <2> QED
        BY <2>1, <2>2 DEF WriteAheadInv, CallOK, InCall, Requested, Asked, Granted
<1>13. ASSUME NEW r \in {"Success", "Failure"}, Execute(r) PROVE WriteAheadInv'
    <2> DEFINE entry == [call |-> tool_call_seq, disposition |-> prepared, stopped |-> stop_pc]
    <2>1. /\ pc = "execute" /\ pc' = "result" /\ output' # "Denied"
          /\ UNCHANGED <<log, synced, tool_call_seq, approval_seq, prepared>>
          /\ executed' = executed \/ executed' = Append(executed, entry)
        BY <1>13 DEF Execute
    <2>2. entry.call = tool_call_seq /\ entry.disposition = prepared
        OBVIOUS
    <2> HIDE DEF entry
    <2>3. ToSet(executed') \subseteq ToSet(executed) \cup {entry}
        <3>1. executed \in Seq(Executions)
            BY DEF TypeInv, TypeOK
        <3>2. ToSet(Append(executed, entry)) = ToSet(executed) \cup {entry}
            BY <3>1, ToSetOfAppend
        <3> QED
            BY <2>1, <3>2
    <2>4. CallOK'
        BY <2>1 DEF WriteAheadInv, CallOK, InCall, Requested, Asked, Granted
    <2>5. ASSUME NEW x \in ToSet(executed)
          PROVE  /\ Requested(log', synced', x.call) /\ HasResult(log', Len(log'), x.call)
                 /\ x.disposition = "RequiresApproval" => \E a \in Nat : Asked(log', synced', x.call, a) /\ Granted(log', synced', a)
        BY <2>1, QuietGrows, FactsAreStable DEF WriteAheadInv, EffectsOK
    <2>6. /\ Requested(log', synced', entry.call)
          /\ entry.disposition = "RequiresApproval" =>
                \E a \in Nat : Asked(log', synced', entry.call, a) /\ Granted(log', synced', a)
        BY <1>b, <2>1, <2>2, QuietGrows, FactsAreStable DEF WriteAheadInv, CallOK, InCall
    <2>7. EffectsOK'
        BY <2>1, <2>2, <2>3, <2>5, <2>6 DEF EffectsOK
    <2> QED
        BY <2>4, <2>7 DEF WriteAheadInv
<1>14. CASE RecordResult
    <2>1. /\ pc = "result" /\ ToolResult \in AgentEvents /\ Emit(ToolResult, "Durable", "recorded")
          /\ UNCHANGED <<executed, tool_call_seq>>
        BY <1>14, EventsAreTyped DEF RecordResult
    <2>2. Grows /\ pc' \in {"recorded", "returned"}
        BY <2>1, EmitGrows, EmitControlPoint
    <2>3. CallOK'
        BY <2>1, <2>2, FactsAreStable DEF WriteAheadInv, CallOK, InCall
    <2>4. \/ output # "Denied" => HasResult(log', Len(log'), tool_call_seq')
          \/ pc' = "returned" /\ \A i \in 1..Len(log') : log'[i].type # "RunFinished"
        BY <2>1, EmitLog, CallEventFields DEF HasResult, EndInv, OpenOK
    <2>5. EffectsOK'
        BY <2>1, <2>2, <2>4, FactsAreStable DEF WriteAheadInv, EffectsOK
    <2> QED
        BY <2>3, <2>5 DEF WriteAheadInv
<1>15. CASE CallDone
    <2>1. pc = "recorded" /\ UNCHANGED executed
        BY <1>15 DEF CallDone
    <2>2. CASE UNCHANGED sink /\ pc' \in {"call", "finish"}
        BY <2>1, <2>2, QuietGrows, OutsideCall DEF InCall
    <2>3. CASE Emit(RecoverableError, "Buffered", "call")
        BY <2>1, <2>3, EmitControlPoint, EmitGrows, EventsAreTyped, OutsideCall DEF InCall
    <2> QED
        BY <1>15, <2>2, <2>3 DEF CallDone, StopNow
<1>16. CASE Fail
    BY <1>16, EmitControlPoint, EmitGrows, EventsAreTyped, OutsideCall DEF Fail, InCall
<1>17. CASE Finish
    <2> DEFINE status == Resolved(proposed)
    <2>1. status \in TerminalRunStatus
        BY <1>17 DEF Finish, Resolved, TypeInv, TypeOK, LatchTypeOK, ControlOK
    <2>2. RunFinished(status) \in AgentEvents
        BY <2>1, EventsAreTyped
    <2> HIDE DEF status
    <2>3. /\ pc = "finish" /\ pc' = "returned" /\ UNCHANGED executed
          /\ Committed(RunFinished(status), "Durable") \/ Indeterminate(RunFinished(status), "Durable")
        BY <1>17 DEF Finish, Indeterminate, status
    <2>4. Grows
        <3>1. CASE Committed(RunFinished(status), "Durable")
            BY <2>2, <3>1 DEF Committed, Grows, TypeInv, TypeOK
        <3>2. CASE Indeterminate(RunFinished(status), "Durable")
            BY <2>2, <3>2, EmitGrows DEF Emit
        <3> QED
            BY <2>3, <3>1, <3>2
    <2> QED
        BY <2>3, <2>4, OutsideCall DEF InCall
<1> QED
    BY <1>1, <1>2, <1>3, <1>4, <1>5, <1>6, <1>7, <1>8, <1>9, <1>10, <1>11, <1>12, <1>13, <1>14,
       <1>15, <1>16, <1>17
    DEF Next, Running, Awaiting, RejectSecondRun, Dispositions

\* The write-ahead invariant holds throughout.
LEMMA WriteAheadInvariance == Spec => [](TypeInv /\ EndInv /\ WriteAheadInv)
<1>1. Init => TypeInv /\ EndInv /\ WriteAheadInv
    BY InitTypeInv, InitEndInv, InitWriteAheadInv
<1>2. TypeInv /\ EndInv /\ WriteAheadInv /\ [Next]_vars => TypeInv' /\ EndInv' /\ WriteAheadInv'
    BY StepTypeInv, StepEndInv, StepWriteAheadInv
<1> QED
    BY <1>1, <1>2, PTL DEF Spec

\* At the moment a handler runs, and ever after, its request is durable and so
\* is the approval it needed.
THEOREM EffectsFollowTheirRecords == Spec => []EffectsAreWrittenAhead
<1>1. TypeInv /\ WriteAheadInv => EffectsAreWrittenAhead
    BY DEF WriteAheadInv, EffectsOK, EffectsAreWrittenAhead, Logged, Requested, Asked, Granted
<1> QED
    BY <1>1, WriteAheadInvariance, PTL

\* A run whose log has a RunFinished has recorded the result of every handler
\* that ran.
THEOREM EffectsAreAccountedFor == Spec => []FinishAccountsForEffects
<1>1. TypeInv /\ EndInv /\ WriteAheadInv => FinishAccountsForEffects
    BY DEF WriteAheadInv, EffectsOK, EndInv, OpenOK, FinishAccountsForEffects, Logged, HasResult
<1> QED
    BY <1>1, WriteAheadInvariance, PTL

=============================================================================
