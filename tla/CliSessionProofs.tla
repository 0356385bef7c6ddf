---------------------------- MODULE CliSessionProofs ----------------------------
(***************************************************************************)
(* What the user saw and answered, and what the process reports, for any   *)
(* number of turns, model events, typed lines and any limit on a line.     *)
(***************************************************************************)
EXTENDS CliSession, AgentRuntimeProofs, FiniteSetTheorems

(* What a step of the run does, as far as the terminal can tell. *)

\* The steps of RuntimeSteps and ProviderAnswers.
RunStep ==
    /\ Running \/ (Awaiting /\ pc # "decide")
    /\ pc \in {"turn", "authorize", "stream"} => UNCHANGED latch

\* Nothing is recorded and the run goes on.
Silent == UNCHANGED <<log, next_event_sequence, outcome>> /\ pc' \notin {"decide", "resolve", "returned"}

\* The event is in the log and its sequence number used.
Recorded(e) ==
    /\ log' = Append(log, e)
    /\ next_event_sequence' = next_event_sequence + 1
    /\ outcome'.kind # "Indeterminate"
    /\ pc' # "resolve"

\* The run is back at its caller, which cannot know whether the event is in the log.
Unknown(e) ==
    /\ log' = Append(log, e) \/ log' = log
    /\ UNCHANGED next_event_sequence
    /\ outcome'.kind = "Indeterminate"
    /\ pc' = "returned"

\* The event is the request of the approval that the run waits for next.
Asks(e) ==
    /\ e.type = "ApprovalRequested"
    /\ e.call = tool_call_seq
    /\ e.approval = approval_seq + 1

\* An append is recorded or its fate is unknown.
LEMMA EmitRecords ==
    ASSUME TypeInv, EndInv, NEW e, NEW durability, NEW next, Emit(e, durability, next),
           pc # "returned", next # "resolve"
    PROVE  (Recorded(e) /\ pc' = next) \/ Unknown(e)
<1>1. outcome.kind # "Indeterminate"
    BY DEF EndInv, OpenOK
<1> QED
    BY <1>1 DEF Emit, Committed, Indeterminate, Recorded, Unknown

\* Every step of the run is silent, recorded or unknown, and the one that leads
\* to decide records the request.
LEMMA RunStepLog ==
    ASSUME TypeInv, EndInv, RunStep
    PROVE  /\ pc \notin {"decide", "returned"}
           /\ \/ Silent
              \/ \E e \in AgentEvents :
                    \/ Recorded(e) /\ (pc' = "decide" => pc = "ask" /\ Asks(e))
                    \/ Unknown(e)
<1> DEFINE Goal == \/ Silent
                   \/ \E e \in AgentEvents :
                         \/ Recorded(e) /\ (pc' = "decide" => pc = "ask" /\ Asks(e))
                         \/ Unknown(e)
<1>1. pc \notin {"decide", "returned"}
    BY DEF RunStep, Running, Awaiting, StartRun, BeginTurn, TurnLimitReached, StartTurn, OpenStream,
           StreamYields, StreamEnds, RecordModelEvent, TurnCollected, TurnDone, RequestToolCall,
           Prepare, RequestApproval, ResolveApproval, Authorize, Execute, RecordResult, CallDone,
           Fail, Finish, DecideApproval
<1> SUFFICES Goal
    BY <1>1
<1>2. ASSUME NEW e \in AgentEvents, NEW durability, NEW next, Emit(e, durability, next),
             next \notin {"decide", "resolve"}
      PROVE  Goal
    BY <1>1, <1>2, EmitRecords
<1>3. CASE StartRun
    BY <1>2, <1>3, EventsAreTyped DEF StartRun
<1>4. CASE StartTurn
    BY <1>2, <1>4, EventsAreTyped DEF StartTurn
<1>5. ASSUME NEW m \in ModelStreamEvents, RecordModelEvent(m) PROVE Goal
    <2>1. ModelOutput(m) \in AgentEvents
        BY EventsAreTyped
    <2>2. PICK next \in {"collected", "fail", "stream"} : Emit(ModelOutput(m), "Buffered", next)
        BY <1>5 DEF RecordModelEvent
    <2> QED
        BY <1>2, <2>1, <2>2
<1>6. CASE RequestToolCall
    BY <1>2, <1>6, EventsAreTyped DEF RequestToolCall
<1>7. CASE RequestApproval
    <2>1. ApprovalRequested \in AgentEvents
        BY <1>7, EventsAreTyped DEF RequestApproval, TypeInv, ControlOK, InCall
    <2>2. Asks(ApprovalRequested)
        BY DEF Asks, ApprovalRequested, Event
    <2>3. Recorded(ApprovalRequested) \/ Unknown(ApprovalRequested)
        BY <1>1, <1>7, EmitRecords DEF RequestApproval
    <2> QED
        BY <1>7, <2>1, <2>2, <2>3 DEF RequestApproval
<1>8. CASE ResolveApproval
    <2>1. PICK next \in {"authorize", "result"} : Emit(ApprovalResolved, "Durable", next)
        BY <1>8 DEF ResolveApproval
    <2> QED
        BY <1>2, <2>1, EventsAreTyped
<1>9. CASE RecordResult
    BY <1>2, <1>9, EventsAreTyped DEF RecordResult
<1>10. CASE CallDone
    <2>1. CASE StopNow /\ UNCHANGED sink
        BY <2>1 DEF StopNow, Silent, sink
    <2>2. CASE pc' = "call" /\ UNCHANGED sink
        BY <2>2 DEF Silent, sink
    <2>3. CASE Emit(RecoverableError, "Buffered", "call")
        BY <1>2, <2>3, EventsAreTyped
    <2> QED
        BY <1>10, <2>1, <2>2, <2>3 DEF CallDone
<1>11. CASE Fail
    BY <1>2, <1>11, EventsAreTyped DEF Fail
<1>12. CASE Finish
    <2> DEFINE status == Resolved(proposed)
    <2>1. status \in TerminalRunStatus
        BY <1>12 DEF Finish, Resolved, TypeInv, TypeOK, LatchTypeOK, ControlOK
    <2>2. RunFinished(status) \in AgentEvents
        BY <2>1, EventsAreTyped
    <2>3. \/ Committed(RunFinished(status), "Durable") /\ pc' = "returned"
             /\ outcome' = [kind |-> "Finished", status |-> status]
          \/ Indeterminate(RunFinished(status), "Durable")
        BY <1>12 DEF Finish
    <2> HIDE DEF status
    <2>4. Recorded(RunFinished(status)) \/ Unknown(RunFinished(status))
        BY <2>3 DEF Committed, Indeterminate, Recorded, Unknown
    <2>5. pc' # "decide"
        BY <2>3 DEF Indeterminate
    <2> QED
        BY <2>2, <2>4, <2>5
<1>13. CASE BeginTurn \/ OpenStream \/ StreamYields \/ StreamEnds \/ Authorize
    BY <1>13 DEF BeginTurn, OpenStream, StreamYields, StreamEnds, Authorize, Checkpoint, StoppedOr,
                 StopNow, Silent, sink
<1>14. CASE TurnLimitReached \/ TurnCollected \/ TurnDone
    BY <1>14 DEF TurnLimitReached, TurnCollected, TurnDone, StopNow, Silent, sink
<1>15. ASSUME NEW d, Prepare(d) PROVE Goal
    BY <1>15 DEF Prepare, Silent, sink
<1>16. ASSUME NEW r, Execute(r) PROVE Goal
    BY <1>16 DEF Execute, Silent, sink
<1>17. ASSUME NEW d, DecideApproval(d) PROVE FALSE
    BY <1>1, <1>17 DEF DecideApproval
<1> QED
    BY <1>1, <1>3, <1>4, <1>5, <1>6, <1>7, <1>8, <1>9, <1>10, <1>11, <1>12, <1>13, <1>14, <1>15,
       <1>16, <1>17
    DEF RunStep, Running, Awaiting

\* What a step of the run does to the approval of the call it drives: only ask
\* counts an approval, only an approval or the same call's authorization leads to
\* a call that needed one, and only execute runs a handler.
LEMMA RunStepApproval ==
    ASSUME TypeInv, RunStep
    PROVE  /\ approval_seq' = approval_seq \/ (pc = "ask" /\ pc' \in {"decide", "returned"})
           /\ pc' = "decide" => tool_call_seq' = tool_call_seq /\ approval_seq' = approval_seq + 1
           /\ pc' \in {"authorize", "execute"} /\ prepared' = "RequiresApproval" =>
                 /\ UNCHANGED <<tool_call_seq, approval_seq>>
                 /\ \/ pc = "resolve" /\ decision = "Approve"
                    \/ pc = "authorize" /\ prepared = "RequiresApproval"
           /\ \/ executed' = executed
              \/ /\ pc = "execute"
                 /\ executed' = Append(executed, [call |-> tool_call_seq, disposition |-> prepared,
                                                  stopped |-> stop_pc])
<1> DEFINE Goal ==
        /\ approval_seq' = approval_seq \/ (pc = "ask" /\ pc' \in {"decide", "returned"})
        /\ pc' = "decide" => tool_call_seq' = tool_call_seq /\ approval_seq' = approval_seq + 1
        /\ pc' \in {"authorize", "execute"} /\ prepared' = "RequiresApproval" =>
              /\ UNCHANGED <<tool_call_seq, approval_seq>>
              /\ \/ pc = "resolve" /\ decision = "Approve"
                 \/ pc = "authorize" /\ prepared = "RequiresApproval"
        /\ \/ executed' = executed
           \/ /\ pc = "execute"
              /\ executed' = Append(executed, [call |-> tool_call_seq, disposition |-> prepared,
                                               stopped |-> stop_pc])
<1> SUFFICES Goal
    OBVIOUS
<1>1. ASSUME NEW event, NEW durability, NEW next, Emit(event, durability, next),
             next \notin {"decide", "authorize", "execute"},
             UNCHANGED <<approval_seq, executed>>
      PROVE  Goal
    BY <1>1, EmitControlPoint
<1>2. CASE StartRun \/ StartTurn \/ RequestToolCall \/ RecordResult \/ Fail
    BY <1>1, <1>2 DEF StartRun, StartTurn, RequestToolCall, RecordResult, Fail, call, effects
<1>3. ASSUME NEW m \in ModelStreamEvents, RecordModelEvent(m) PROVE Goal
    <2>1. PICK next \in {"collected", "fail", "stream"} : Emit(ModelOutput(m), "Buffered", next)
        BY <1>3 DEF RecordModelEvent
    <2> QED
        BY <1>1, <1>3, <2>1 DEF RecordModelEvent, call, effects
<1>4. CASE RequestApproval
    <2>1. pc' \in {"decide", "returned"}
        BY <1>4, EmitControlPoint DEF RequestApproval
    <2> QED
        BY <1>4, <2>1 DEF RequestApproval, effects
<1>5. CASE ResolveApproval
    <2>1. \/ pc' = "returned"
          \/ pc' = IF decision = "Approve" THEN "authorize" ELSE "result"
        BY <1>5, EmitControlPoint DEF ResolveApproval
    <2> QED
        BY <1>5, <2>1 DEF ResolveApproval, effects
<1>6. CASE CallDone
    <2>1. CASE pc' \in {"call", "finish"}
        BY <1>6, <2>1 DEF CallDone, effects
    <2>2. CASE Emit(RecoverableError, "Buffered", "call")
        BY <1>1, <1>6, <2>2 DEF CallDone, effects
    <2> QED
        BY <1>6, <2>1, <2>2 DEF CallDone, StopNow
<1>7. CASE Finish
    <2>1. pc' = "returned"
        BY <1>7 DEF Finish, Indeterminate
    <2> QED
        BY <1>7, <2>1 DEF Finish, call, effects
<1>8. CASE BeginTurn \/ OpenStream \/ StreamYields \/ StreamEnds \/ Authorize
    BY <1>8 DEF BeginTurn, OpenStream, StreamYields, StreamEnds, Authorize, Checkpoint, StoppedOr,
                StopNow, call, effects
<1>9. CASE TurnLimitReached \/ TurnCollected \/ TurnDone
    BY <1>9 DEF TurnLimitReached, TurnCollected, TurnDone, StopNow, call, effects
<1>10. ASSUME NEW d \in Dispositions, Prepare(d) PROVE Goal
    BY <1>10 DEF Prepare, effects
<1>11. ASSUME NEW r, Execute(r) PROVE Goal
    BY <1>11 DEF Execute, effects
<1>12. ASSUME NEW d, DecideApproval(d), pc # "decide" PROVE FALSE
    BY <1>12 DEF DecideApproval
<1> QED
    BY <1>2, <1>3, <1>4, <1>5, <1>6, <1>7, <1>8, <1>9, <1>10, <1>11, <1>12
    DEF RunStep, Running, Awaiting, Dispositions

\* A stop that the run proposes at its end is the one the token holds.
Proposal == pc = "finish" /\ proposed \in Stops => terminal_status = proposed

\* A step of the run leaves the latch as it is, but for finish, which keeps the
\* proposal or the stop that came before it.
LEMMA RunStepLatch ==
    ASSUME TypeInv, Proposal, RunStep
    PROVE  /\ Proposal'
           /\ terminal_status' = terminal_status \/ terminal_status' \notin Stops
<1> USE DEF Proposal, latch
<1>a. "Completed" \notin Stops /\ "Failed" \notin Stops /\ "Undecided" \notin Stops
    BY StopsAssumption
<1>1. ASSUME NEW event, NEW durability, NEW next, Emit(event, durability, next), next # "finish",
             UNCHANGED latch
      PROVE  Proposal' /\ terminal_status' = terminal_status
    BY <1>1, EmitControlPoint
<1>2. CASE StartRun \/ StartTurn \/ RequestToolCall \/ RequestApproval \/ RecordResult
    BY <1>1, <1>2 DEF StartRun, StartTurn, RequestToolCall, RequestApproval, RecordResult
<1>3. ASSUME NEW m \in ModelStreamEvents, RecordModelEvent(m)
      PROVE  Proposal' /\ terminal_status' = terminal_status
    <2>1. PICK next \in {"collected", "fail", "stream"} : Emit(ModelOutput(m), "Buffered", next)
        BY <1>3 DEF RecordModelEvent
    <2> QED
        BY <1>1, <1>3, <2>1 DEF RecordModelEvent
<1>4. CASE ResolveApproval
    <2>1. PICK next \in {"authorize", "result"} : Emit(ApprovalResolved, "Durable", next)
        BY <1>4 DEF ResolveApproval
    <2> QED
        BY <1>1, <1>4, <2>1 DEF ResolveApproval
<1>5. CASE CallDone
    <2>1. CASE pc' = "call"
        BY <1>5, <2>1 DEF CallDone, StopNow
    <2>2. CASE StopNow
        BY <2>2 DEF StopNow
    <2>3. CASE Emit(RecoverableError, "Buffered", "call") /\ UNCHANGED latch
        BY <1>1, <2>3
    <2> QED
        BY <1>5, <2>1, <2>2, <2>3 DEF CallDone
<1>6. CASE Fail
    BY <1>a, <1>6 DEF Fail
<1>7. CASE Finish
    <2>1. pc' = "returned" /\ terminal_status' = Resolved(proposed)
        BY <1>7 DEF Finish, Indeterminate, ResolveTerminal
    <2>2. terminal_status' = terminal_status \/ terminal_status' = proposed
        BY <2>1 DEF Resolved
    <2> QED
        BY <1>7, <2>1, <2>2 DEF Finish
<1>8. CASE BeginTurn \/ StreamYields \/ Authorize
    <2>1. UNCHANGED latch /\ pc # "finish"
        BY <1>8 DEF BeginTurn, StreamYields, Authorize, RunStep
    <2>2. PICK next \in {"start_turn", "model_event", "execute"} : Checkpoint(next)
        BY <1>8 DEF BeginTurn, StreamYields, Authorize
    <2>3. ASSUME NEW stop \in Stops, ResolveTerminal(stop), proposed' = Resolved(stop)
          PROVE  Proposal'
        BY <2>1, <2>3 DEF ResolveTerminal
    <2> QED
        BY <2>1, <2>2, <2>3 DEF Checkpoint, StoppedOr, StopNow
<1>9. CASE OpenStream \/ StreamEnds \/ TurnCollected
    BY <1>a, <1>9 DEF OpenStream, StreamEnds, TurnCollected, StoppedOr, StopNow
<1>10. CASE TurnLimitReached \/ TurnDone
    BY <1>10 DEF TurnLimitReached, TurnDone
<1>11. ASSUME NEW d \in Dispositions, Prepare(d)
       PROVE  Proposal' /\ terminal_status' = terminal_status
    BY <1>11 DEF Prepare
<1>12. ASSUME NEW r, Execute(r) PROVE Proposal' /\ terminal_status' = terminal_status
    BY <1>12 DEF Execute
<1>13. ASSUME NEW d, DecideApproval(d), pc # "decide" PROVE FALSE
    BY <1>13 DEF DecideApproval
<1> QED
    BY <1>2, <1>3, <1>4, <1>5, <1>6, <1>7, <1>8, <1>9, <1>10, <1>11, <1>12, <1>13
    DEF RunStep, Running, Awaiting, Dispositions

-----------------------------------------------------------------------------
(* The invariant of a session *)

OtherEntries == {Hint, [type |-> "Usage"], [type |-> "EventLogPath"]} \cup {Prompt(a) : a \in Nat}
Entries == AgentEvents \cup OtherEntries
Lines == [typed : Seq(STRING), number : Nat]
Inputs == [kind : {"TooLong", "Eof", "Error", "Line"}, line : Lines]
Readers == [kind : {"reading", "finished"}, line : Lines] \cup Inputs
Answers == [decision : Decisions, line : Lines]

SessionTypeOK ==
    /\ terminal_error \in BOOLEAN
    /\ screen \in Seq(Entries)
    /\ rendered \in Nat
    /\ reader \in Readers
    /\ lines_read \in Nat
    /\ input \in Seq(Inputs)
    /\ answers \in Seq(Answers)

\* The sink tries to show each event it accepted before the run goes on; an event
\* of unknown fate is not shown.
SinkOK ==
    /\ outcome.kind # "Indeterminate" => next_event_sequence = Len(log) + 1
    /\ next_event_sequence <= Len(log) + 1
    /\ rendered = next_event_sequence - 1 \/ rendered = next_event_sequence - 2

\* The exit status of a run that returned.
Reported ==
    /\ pc = "returned"
    /\ SinkReturned
    /\ \/ exit = "Runtime" /\ outcome.kind = "Indeterminate"
       \/ /\ outcome.kind = "Finished"
          /\ exit = IF terminal_error THEN "TerminalOutput" ELSE outcome.status

\* Before the run there is nothing to report, and the process ends once it was.
ProcessOK ==
    cli # "running" =>
        \/ pc = "new" /\ token_owner = "nobody"
        \/ cli = "exited" /\ Reported

\* While the terminal works only a signal stops a run.
SourceOK == ~terminal_error /\ terminal_status \in Stops => signalled /\ terminal_status = signal_action

\* Where the first i entries of s show an event, and a screen s that follows the log l.
EventsIn(s, i) == {j \in 1..i : s[j].type \in EventTypes}
Follows(s, l) ==
    \A i \in EventsIn(s, Len(s)) :
        Cardinality(EventsIn(s, i)) \in 1..Len(l) /\ s[i] = l[Cardinality(EventsIn(s, i))]

\* A terminal that works has shown every event the sink tried to show, and one
\* that failed misses at least the last event of a run that has finished.
ScreenOK ==
    /\ LET seen == Cardinality(EventsIn(screen, Len(screen)))
       IN  /\ seen <= rendered
           /\ ~terminal_error => seen = rendered
           /\ terminal_error /\ seen = rendered /\ SinkReturned =>
                 pc # "returned" \/ outcome.kind = "Indeterminate"
    /\ Follows(screen, log)

\* The request of approval a for call c is on the screen s at i.
RequestAt(s, i, c, a) ==
    /\ s[i].type = "ApprovalRequested"
    /\ s[i].call = c
    /\ s[i].approval = a

\* ... with its prompt right under it.
Prompted(s, c, a) ==
    \E i \in 1..(Len(s) - 1) : RequestAt(s, i, c, a) /\ s[i + 1] = Prompt(a)

\* The run waits for the approval it requested last, and for no other.
AskOK ==
    /\ prompt # "none" => pc = "decide" /\ SinkReturned /\ Prompted(screen, tool_call_seq, approval_seq)
    /\ pc = "decide" =>
          /\ Len(log) > 0
          /\ log[Len(log)].type = "ApprovalRequested"
          /\ log[Len(log)].call = tool_call_seq
          /\ log[Len(log)].approval = approval_seq
          /\ approval_seq = Len(answers) + 1
          /\ prompt = "none" /\ SinkReturned /\ ~terminal_error =>
                Len(screen) > 0 /\ RequestAt(screen, Len(screen), tool_call_seq, approval_seq)
    /\ pc \notin {"decide", "returned"} => approval_seq = Len(answers)

UsedBelow(n) == \A a \in 1..Len(answers) : answers[a].line.number < n

\* A line is in one place only: with the reader, in the channel or in the one
\* answer it gave; and it was cut nowhere.
KeyboardOK ==
    /\ reader.kind \in {"reading", "finished"} => UsedBelow(lines_read + 1)
    /\ reader.kind \notin {"reading", "finished"} =>
          /\ reader.line.number = lines_read
          /\ lines_read > 0
          /\ UsedBelow(lines_read)
          /\ reader.kind = "Line" => Len(reader.line.typed) <= MAX_APPROVAL_INPUT_BYTES
    /\ Len(input) <= 1
    /\ Len(input) = 1 =>
          /\ input[1].line.number \in 1..lines_read
          /\ reader.kind \notin {"reading", "finished"} => input[1].line.number < lines_read
          /\ UsedBelow(input[1].line.number)
          /\ input[1].kind = "Line" => Len(input[1].line.typed) <= MAX_APPROVAL_INPUT_BYTES

\* An approval came from a line that said yes, and no two answers from one line.
AnswersOK ==
    \A a \in 1..Len(answers) :
        /\ answers[a].decision = "Approve" =>
              /\ answers[a].line.number > 0
              /\ Trimmed(answers[a].line.typed) \in Yes
              /\ Len(answers[a].line.typed) <= MAX_APPROVAL_INPUT_BYTES
        /\ \A b \in 1..Len(answers) :
              b # a /\ answers[a].line.number > 0 =>
                  answers[b].line.number # answers[a].line.number

\* Approval a, which was prompted for on the screen s, was granted for call c.
Approved(s, given, c, a) ==
    /\ Prompted(s, c, a)
    /\ a \in 1..Len(given)
    /\ given[a].decision = "Approve"

\* From the answer to the handler, the call stays approved.
ApprovalOK ==
    /\ pc = "resolve" /\ decision = "Approve" => Approved(screen, answers, tool_call_seq, approval_seq)
    /\ pc \in {"authorize", "execute"} /\ prepared = "RequiresApproval" =>
          Approved(screen, answers, tool_call_seq, approval_seq)
    /\ \A m \in 1..Len(executed) :
          executed[m].disposition = "RequiresApproval" =>
              \E a \in Nat : Approved(screen, answers, executed[m].call, a)

RunInv == TypeInv /\ EndInv /\ StopInv

SessionInv ==
    /\ SessionTypeOK
    /\ SinkOK
    /\ ProcessOK
    /\ SourceOK
    /\ Proposal
    /\ ScreenOK
    /\ AskOK
    /\ KeyboardOK
    /\ AnswersOK
    /\ ApprovalOK

-----------------------------------------------------------------------------
(* Every step of a session is a step of the run or leaves it alone. *)

\* A decision is recorded nowhere yet and the run looks at the stop again.
LEMMA DecideFacts ==
    ASSUME NEW d, NEW line, Decide(d, line)
    PROVE  /\ pc = "decide"
           /\ pc' = "resolve" \/ (pc' = "finish" /\ proposed' = terminal_status)
           /\ UNCHANGED <<terminal_status, token_owner, tool_call_seq, approval_seq, prepared, sink, executed>>
           /\ decision' = d
           /\ prompt' = "none"
           /\ answers' = Append(answers, [decision |-> d, line |-> line])
    BY DEF Decide, DecideApproval, StoppedOr, StopNow, latch, sink, effects

\* The runtime's own invariants are those of a session.
LEMMA SessionKeepsRun == RunInv /\ [CliNext]_cliVars => RunInv'
<1> SUFFICES ASSUME RunInv, [CliNext]_cliVars PROVE RunInv'
    OBVIOUS
<1> SUFFICES [Next]_vars
    BY StepTypeInv, StepEndInv, StepStopInv DEF RunInv
<1> USE DEF Next
<1>1. CASE SetUp \/ InstallSignalHandler \/ CreateEventLog \/ Report \/ Exited
    BY <1>1 DEF SetUp, InstallSignalHandler, CreateEventLog, Report, Exited, cliVars
<1>2. CASE RuntimeSteps \/ ProviderAnswers
    BY <1>2 DEF RuntimeSteps, ProviderAnswers
<1>3. CASE Render \/ Signal
    BY <1>3 DEF Render, Signal
<1>4. CASE ApprovalSteps
    <2>1. ASSUME NEW d \in Decisions, NEW line, Decide(d, line) PROVE Next
        BY <2>1 DEF Decide, Awaiting
    <2>2. "Approve" \in Decisions /\ "Deny" \in Decisions
        BY DEF Decisions
    <2> QED
        BY <1>4, <2>1, <2>2 DEF ApprovalSteps, ShowPrompt, PollCancellation, ReceiveInput, ReceiveNothing
<1>5. CASE ReaderSteps
    BY <1>5 DEF ReaderSteps, SendInput, ReadInput
<1>6. CASE UNCHANGED cliVars
    BY <1>6 DEF cliVars
<1> QED
    BY <1>1, <1>2, <1>3, <1>4, <1>5, <1>6 DEF CliNext

\* What RuntimeSteps and ProviderAnswers have in common.
LEMMA RuntimeIsRunStep ==
    ASSUME RuntimeSteps \/ ProviderAnswers
    PROVE  RunStep /\ cli = "running" /\ SinkReturned /\ UNCHANGED session
<1>1. CASE RuntimeSteps
    <2>1. pc # "stream"
        BY <1>1 DEF RuntimeSteps, Running, StartRun, BeginTurn, TurnLimitReached, StartTurn,
               RecordModelEvent, TurnCollected, TurnDone, RequestToolCall, Prepare, RequestApproval,
               ResolveApproval, Authorize, RecordResult, CallDone, Fail, Finish
    <2> QED
        BY <1>1, <2>1 DEF RuntimeSteps, RunStep
<1>2. CASE ProviderAnswers
    <2>1. pc \notin {"turn", "authorize"}
        BY <1>2 DEF ProviderAnswers, Awaiting, OpenStream, StreamYields, StreamEnds, DecideApproval, Execute
    <2> QED
        BY <1>2, <2>1 DEF ProviderAnswers, RunStep
<1> QED
    BY <1>1, <1>2

-----------------------------------------------------------------------------
(* Types *)

\* Each step of a session keeps the types of its state.
LEMMA StepSessionTypeOK ==
    ASSUME RunInv, SessionTypeOK, SinkOK, AskOK, [CliNext]_cliVars
    PROVE  SessionTypeOK'
<1> USE DEF SessionTypeOK, terminal, keyboard, process
<1>1. ASSUME NEW entry \in OtherEntries, Line(entry) \/ LineFails
      PROVE  terminal_error' \in BOOLEAN /\ screen' \in Seq(Entries)
    <2>1. screen \in Seq(Entries) /\ entry \in Entries
        BY <1>1 DEF Entries
    <2>2. CASE Line(entry)
        BY <2>1, <2>2 DEF Line
    <2>3. CASE LineFails
        BY <2>3 DEF LineFails
    <2> QED
        BY <1>1, <2>2, <2>3
<1>2. {Hint, [type |-> "Usage"], [type |-> "EventLogPath"]} \subseteq OtherEntries
    BY DEF OtherEntries
<1>3. Prompt(approval_seq) \in OtherEntries
    BY DEF OtherEntries, RunInv, TypeInv, TypeOK
<1>4. NoLine \in Lines
    BY DEF NoLine, Lines
<1>5. ASSUME NEW d \in Decisions, NEW line \in Lines, Decide(d, line)
      PROVE  answers' \in Seq(Answers)
    <2>1. [decision |-> d, line |-> line] \in Answers
        BY DEF Answers
    <2>2. answers' = Append(answers, [decision |-> d, line |-> line])
        BY <1>5 DEF Decide
    <2> QED
        BY <2>1, <2>2
<1>6. "Approve" \in Decisions /\ "Deny" \in Decisions
    BY DEF Decisions
<1>7. CASE SetUp
    <2>1. screen' \in Seq(Entries) /\ terminal_error' \in BOOLEAN
        BY <1>1, <1>2, <1>7 DEF SetUp
    <2> QED
        BY <1>7, <2>1 DEF SetUp
<1>8. CASE InstallSignalHandler \/ Signal \/ Report \/ Exited
    BY <1>8 DEF InstallSignalHandler, Signal, Report, Exited, cliVars, session
<1>9. CASE CreateEventLog
    <2>1. screen' \in Seq(Entries) /\ terminal_error' \in BOOLEAN
        BY <1>1, <1>2, <1>9 DEF CreateEventLog
    <2> QED
        BY <1>9, <2>1 DEF CreateEventLog
<1>10. CASE RuntimeSteps \/ ProviderAnswers
    BY <1>10, RuntimeIsRunStep DEF session
<1>11. CASE Render
    <2>1. /\ rendered + 1 \in 1..Len(log)
          /\ log \in Seq(AgentEvents)
        BY <1>11 DEF Render, SinkReturned, SinkOK, RunInv, TypeInv, TypeOK
    <2>2. log[rendered + 1] \in Entries
        BY <2>1 DEF Entries
    <2>3. screen' \in Seq(Entries) /\ terminal_error' \in BOOLEAN
        <3>1. CASE LineFails
            BY <3>1 DEF LineFails
        <3>2. CASE render_event(log[rendered + 1])
            BY <2>2, <3>2 DEF render_event, Line
        <3> QED
            BY <1>11, <3>1, <3>2 DEF Render
    <2> QED
        BY <1>11, <2>3 DEF Render
<1>12. CASE ShowPrompt
    <2>1. screen' \in Seq(Entries) /\ terminal_error' \in BOOLEAN
        BY <1>1, <1>3, <1>12 DEF ShowPrompt
    <2>2. answers' \in Seq(Answers)
        BY <1>4, <1>5, <1>6, <1>12 DEF ShowPrompt
    <2> QED
        BY <1>12, <2>1, <2>2 DEF ShowPrompt
<1>13. CASE PollCancellation
    <2>1. answers' \in Seq(Answers)
        BY <1>4, <1>5, <1>6, <1>13 DEF PollCancellation
    <2> QED
        BY <1>13, <2>1 DEF PollCancellation
<1>14. CASE ReceiveNothing
    <2>1. answers' \in Seq(Answers)
        BY <1>4, <1>5, <1>6, <1>14 DEF ReceiveNothing
    <2> QED
        BY <1>14, <2>1 DEF ReceiveNothing
<1>15. CASE ReceiveInput
    <2>1. Head(input) \in Inputs
        BY <1>15 DEF ReceiveInput
    <2>2. Head(input).line \in Lines
        BY <2>1 DEF Inputs
    <2>3. answers' \in Seq(Answers)
        BY <1>4, <1>5, <1>6, <1>15, <2>2 DEF ReceiveInput
    <2>4. screen' \in Seq(Entries) /\ terminal_error' \in BOOLEAN
        BY <1>1, <1>2, <1>15 DEF ReceiveInput
    <2> QED
        BY <1>15, <2>3, <2>4 DEF ReceiveInput
<1>16. CASE SendInput
    <2>1. reader \in Inputs
        BY <1>16 DEF SendInput, Readers
    <2>2. reader' \in Readers
        BY <1>4, <1>16 DEF SendInput, ReaderState, Readers
    <2> QED
        BY <1>16, <2>1, <2>2 DEF SendInput
<1>17. ASSUME NEW text \in TypedInputs, ReadInput(text) PROVE SessionTypeOK'
    <2>1. [typed |-> text, number |-> lines_read + 1] \in Lines
        BY CliAssumption DEF Lines
    <2>2. read_approval_input(text) \in {"TooLong", "Eof", "Error", "Line"}
        BY DEF read_approval_input
    <2>3. reader' \in Readers
        BY <1>17, <2>1, <2>2 DEF ReadInput, ReaderState, Readers, Inputs
    <2> QED
        BY <1>17, <2>3 DEF ReadInput
<1>18. CASE UNCHANGED cliVars
    BY <1>18 DEF cliVars, session
<1> QED
    BY <1>7, <1>8, <1>9, <1>10, <1>11, <1>12, <1>13, <1>14, <1>15, <1>16, <1>17, <1>18
    DEF CliNext, ApprovalSteps, ReaderSteps

-----------------------------------------------------------------------------
(* The sink, the process and the stop *)

\* A step that records nothing.
LEMMA QuietSink ==
    ASSUME SinkOK, UNCHANGED <<log, next_event_sequence, rendered>>, outcome' = outcome
    PROVE  SinkOK'
    BY DEF SinkOK

\* What the other actions leave alone of the run.
LEMMA QuietRun ==
    ASSUME [CliNext]_cliVars, ~(RuntimeSteps \/ ProviderAnswers), AskOK
    PROVE  /\ UNCHANGED <<sink, token_owner, tool_call_seq, approval_seq, prepared, executed>>
           /\ pc' = pc \/ (pc = "decide" /\ pc' \in {"resolve", "finish"})
           /\ pc' = pc => UNCHANGED <<decision, proposed>>
           /\ pc' = "finish" /\ pc # "finish" => proposed' = terminal_status
           /\ pc' # pc => terminal_status' = terminal_status
<1> DEFINE Goal ==
        /\ UNCHANGED <<sink, token_owner, tool_call_seq, approval_seq, prepared, executed>>
        /\ pc' = pc \/ (pc = "decide" /\ pc' \in {"resolve", "finish"})
        /\ pc' = pc => UNCHANGED <<decision, proposed>>
        /\ pc' = "finish" /\ pc # "finish" => proposed' = terminal_status
        /\ pc' # pc => terminal_status' = terminal_status
<1> SUFFICES Goal
    OBVIOUS
<1>1. CASE UNCHANGED vars
    BY <1>1 DEF vars, sink
<1>2. CASE RequestStop
    BY <1>2 DEF RequestStop, sink, call
<1>3. ASSUME NEW d, NEW line, Decide(d, line) PROVE Goal
    BY <1>3, DecideFacts
<1>4. CASE SetUp \/ InstallSignalHandler \/ CreateEventLog \/ Report \/ Exited
    BY <1>1, <1>4 DEF SetUp, InstallSignalHandler, CreateEventLog, Report, Exited, cliVars
<1>5. CASE Render \/ Signal
    BY <1>1, <1>2, <1>5 DEF Render, Signal
<1>6. CASE ApprovalSteps
    BY <1>1, <1>3, <1>6 DEF ApprovalSteps, ShowPrompt, PollCancellation, ReceiveInput, ReceiveNothing
<1>7. CASE ReaderSteps
    BY <1>1, <1>7 DEF ReaderSteps, SendInput, ReadInput
<1>8. CASE UNCHANGED cliVars
    BY <1>1, <1>8 DEF cliVars
<1> QED
    BY <1>4, <1>5, <1>6, <1>7, <1>8 DEF CliNext

\* Only the sink's own step shows an event.
LEMMA RenderedChanges ==
    ASSUME [CliNext]_cliVars
    PROVE  \/ rendered' = rendered
           \/ Render /\ rendered' = rendered + 1
<1>1. CASE RuntimeSteps \/ ProviderAnswers
    BY <1>1, RuntimeIsRunStep DEF session
<1>2. CASE Render
    BY <1>2 DEF Render
<1> QED
    BY <1>1, <1>2 DEF CliNext, SetUp, InstallSignalHandler, CreateEventLog, Report, Exited, Signal,
       ApprovalSteps, ShowPrompt, PollCancellation, ReceiveInput, ReceiveNothing, ReaderSteps,
       SendInput, ReadInput, cliVars, session

\* Events are accepted one at a time and shown before the next.
LEMMA StepSinkOK ==
    ASSUME RunInv, SessionTypeOK, SinkOK, AskOK, [CliNext]_cliVars
    PROVE  SinkOK'
<1>1. log \in Seq(AgentEvents) /\ next_event_sequence \in Nat /\ rendered \in Nat
    BY DEF RunInv, TypeInv, TypeOK, SessionTypeOK
<1>2. CASE RuntimeSteps \/ ProviderAnswers
    <2>1. RunStep /\ rendered' = rendered /\ rendered = next_event_sequence - 1
        BY <1>2, RuntimeIsRunStep DEF session, SinkReturned
    <2>2. TypeInv /\ EndInv
        BY DEF RunInv
    <2>3. CASE Silent
        BY <2>1, <2>3, QuietSink DEF Silent
    <2>4. ASSUME NEW e \in AgentEvents, Recorded(e) PROVE SinkOK'
        <3>1. Len(log') = Len(log) + 1 /\ Len(log) \in Nat
            BY <1>1, <2>4 DEF Recorded
        <3>2. next_event_sequence = Len(log) + 1
            BY <2>1, <2>2, RunStepLog DEF EndInv, SequenceOK
        <3> QED
            BY <2>1, <2>4, <3>1, <3>2 DEF SinkOK, Recorded
    <2>5. ASSUME NEW e \in AgentEvents, Unknown(e) PROVE SinkOK'
        <3>1. Len(log') >= Len(log) /\ Len(log) \in Nat /\ Len(log') \in Nat
            BY <1>1, <2>5 DEF Unknown
        <3> QED
            BY <1>1, <2>1, <2>5, <3>1 DEF SinkOK, Unknown
    <2> QED
        BY <2>1, <2>2, <2>3, <2>4, <2>5, RunStepLog
<1>3. CASE ~(RuntimeSteps \/ ProviderAnswers)
    <2>1. UNCHANGED <<log, next_event_sequence, outcome>>
        BY <1>3, QuietRun DEF sink
    <2>2. CASE Render
        BY <1>1, <2>1, <2>2 DEF Render, SinkOK, SinkReturned
    <2>3. CASE rendered' = rendered
        BY <2>1, <2>3, QuietSink
    <2> QED
        BY <2>2, <2>3, RenderedChanges
<1> QED
    BY <1>2, <1>3

\* The process reports what its run reported, once, and nothing happens after.
LEMMA StepProcessOK ==
    ASSUME RunInv, ProcessOK, AskOK, [CliNext]_cliVars
    PROVE  ProcessOK'
<1>1. CASE RuntimeSteps \/ ProviderAnswers
    BY <1>1, RuntimeIsRunStep DEF ProcessOK, session
<1>2. CASE SetUp \/ InstallSignalHandler \/ CreateEventLog
    <2>1. cli \notin {"running", "exited"} /\ UNCHANGED <<pc, token_owner>>
        BY <1>2 DEF SetUp, InstallSignalHandler, CreateEventLog, vars
    <2> QED
        BY <2>1 DEF ProcessOK
<1>3. CASE Report
    <2>1. /\ UNCHANGED <<pc, outcome, rendered, next_event_sequence, terminal_error>>
          /\ pc = "returned" /\ SinkReturned /\ cli' = "exited"
          /\ \/ outcome.kind = "Indeterminate" /\ exit' = "Runtime"
             \/ /\ outcome.kind = "Finished"
                /\ exit' = IF terminal_error THEN "TerminalOutput" ELSE outcome.status
        BY <1>3 DEF Report, Exit, vars, terminal
    <2> QED
        BY <2>1 DEF ProcessOK, Reported, SinkReturned
<1>4. CASE Signal
    <2>1. cli \in {"event_log", "running"} /\ UNCHANGED <<pc, token_owner, cli>>
        BY <1>4 DEF Signal, RequestStop, process
    <2> QED
        BY <2>1 DEF ProcessOK
<1>5. CASE Render
    <2>1. /\ ~SinkReturned
          /\ UNCHANGED <<pc, token_owner, cli>>
        BY <1>5 DEF Render, RequestStop, process, vars
    <2> QED
        BY <2>1 DEF ProcessOK, Reported
<1>6. CASE ApprovalSteps
    <2>1. pc = "decide" /\ UNCHANGED cli
        BY <1>6 DEF ApprovalSteps, ShowPrompt, PollCancellation, ReceiveInput, ReceiveNothing, AskOK, process
    <2> QED
        BY <2>1 DEF ProcessOK, Reported
<1>7. CASE ReaderSteps
    BY <1>7 DEF ReaderSteps, SendInput, ReadInput, ProcessOK, process
<1>8. CASE Exited \/ UNCHANGED cliVars
    BY <1>8 DEF Exited, cliVars, vars, session, ProcessOK, Reported, SinkReturned
<1> QED
    BY <1>1, <1>2, <1>3, <1>4, <1>5, <1>6, <1>7, <1>8 DEF CliNext

\* A stop that is not a signal's is the one of a render that failed.
LEMMA StepSourceOK ==
    ASSUME RunInv, SessionTypeOK, SourceOK, Proposal, AskOK, [CliNext]_cliVars
    PROVE  SourceOK' /\ Proposal'
<1> USE DEF SourceOK, Proposal
<1>a. "Completed" \notin Stops /\ "Failed" \notin Stops /\ "Undecided" \notin Stops
    BY StopsAssumption
<1>1. CASE RuntimeSteps \/ ProviderAnswers
    <2>1. RunStep /\ UNCHANGED <<signalled, terminal_error>>
        BY <1>1, RuntimeIsRunStep DEF session
    <2> QED
        BY <2>1, RunStepLatch DEF RunInv
<1>2. CASE Signal
    <2>1. /\ signalled' = TRUE /\ UNCHANGED <<terminal_error, pc, proposed>>
          /\ terminal_status = "Undecided" => terminal_status' = signal_action
          /\ terminal_status # "Undecided" => terminal_status' = terminal_status
        BY <1>2 DEF Signal, RequestStop, ResolveTerminal, Resolved, terminal
    <2> QED
        BY <1>a, <2>1
<1>3. CASE Render
    <2>1. CASE LineFails /\ RequestStop
        <3>1. /\ terminal_error' = TRUE /\ UNCHANGED <<pc, proposed>>
              /\ terminal_status # "Undecided" => terminal_status' = terminal_status
            BY <2>1 DEF LineFails, RequestStop, ResolveTerminal, Resolved
        <3> QED
            BY <1>a, <3>1
    <2>2. CASE render_event(log[rendered + 1]) /\ UNCHANGED vars
        BY <1>3, <2>2 DEF Render, render_event, Line, vars
    <2> QED
        BY <1>3, <2>1, <2>2 DEF Render
<1>4. CASE ~(RuntimeSteps \/ ProviderAnswers \/ Signal \/ Render)
    <2>1. /\ pc' = pc \/ (pc = "decide" /\ pc' \in {"resolve", "finish"})
          /\ pc' = pc => UNCHANGED <<decision, proposed>>
          /\ pc' = "finish" /\ pc # "finish" => proposed' = terminal_status
        BY <1>4, QuietRun
    <2>2. terminal_status' = terminal_status
        <3>1. ASSUME NEW d, NEW line, Decide(d, line) PROVE terminal_status' = terminal_status
            BY <3>1, DecideFacts
        <3> QED
            BY <1>4, <3>1 DEF CliNext, SetUp, InstallSignalHandler, CreateEventLog, Report, Exited,
               ApprovalSteps, ShowPrompt, PollCancellation, ReceiveInput, ReceiveNothing,
               ReaderSteps, SendInput, ReadInput, vars, cliVars
    <2>3. signalled' = signalled
        BY <1>4 DEF CliNext, SetUp, InstallSignalHandler, CreateEventLog, Report, Exited,
           ApprovalSteps, ShowPrompt, PollCancellation, ReceiveInput, ReceiveNothing,
           ReaderSteps, SendInput, ReadInput, cliVars, session
    <2>4. terminal_error' = TRUE \/ terminal_error' = terminal_error
        BY <1>4 DEF CliNext, SetUp, InstallSignalHandler, CreateEventLog, Report, Exited,
           ApprovalSteps, ShowPrompt, PollCancellation, ReceiveInput, ReceiveNothing,
           ReaderSteps, SendInput, ReadInput, Line, LineFails, cliVars, session, terminal
    <2> QED
        BY <2>1, <2>2, <2>3, <2>4
<1> QED
    BY <1>1, <1>2, <1>3, <1>4

-----------------------------------------------------------------------------
(* The keyboard and the answers *)

\* The lines of the answers are numbered.
LEMMA AnswerNumbers ==
    ASSUME SessionTypeOK
    PROVE  \A a \in 1..Len(answers) : answers[a].line.number \in Nat
<1> TAKE a \in 1..Len(answers)
<1>1. answers \in Seq(Answers)
    BY DEF SessionTypeOK
<1>2. answers[a] \in Answers
    BY <1>1
<1>3. answers[a].line \in Lines
    BY <1>2 DEF Answers
<1> QED
    BY <1>3 DEF Lines

\* An answer more, whose line came after all that were used.
LEMMA AnswerOfALine ==
    ASSUME SessionTypeOK, AnswersOK, NEW d \in Decisions, NEW line \in Lines,
           answers' = Append(answers, [decision |-> d, line |-> line]),
           line.number = 0 \/ UsedBelow(line.number),
           d = "Approve" => /\ line.number > 0
                            /\ Trimmed(line.typed) \in Yes
                            /\ Len(line.typed) <= MAX_APPROVAL_INPUT_BYTES
    PROVE  /\ AnswersOK'
           /\ \A n \in Nat : UsedBelow(n) /\ n > line.number => UsedBelow(n)'
<1> DEFINE n == Len(answers)
           answer == [decision |-> d, line |-> line]
<1>1. answers \in Seq(Answers) /\ answer \in Answers
    BY DEF SessionTypeOK, Answers
<1>2. answer.decision = d /\ answer.line = line
    OBVIOUS
<1> HIDE DEF answer
<1>3. /\ n \in Nat /\ Len(answers') = n + 1 /\ answers'[n + 1] = answer
      /\ \A a \in 1..n : answers'[a] = answers[a]
    BY <1>1 DEF answer
<1>4. \A a \in 1..n : answers[a].line.number \in Nat
    BY AnswerNumbers
<1>5. line.number \in Nat
    BY DEF Lines
<1> HIDE DEF n
<1>6. \A a \in 1..(n + 1) : a \in 1..n \/ a = n + 1
    BY <1>3
<1>7. \A m \in Nat : UsedBelow(m) /\ m > line.number => UsedBelow(m)'
    BY <1>2, <1>3, <1>6 DEF UsedBelow, n
<1>8. \A a \in 1..(n + 1) : answers'[a].decision = "Approve" =>
          /\ answers'[a].line.number > 0
          /\ Trimmed(answers'[a].line.typed) \in Yes
          /\ Len(answers'[a].line.typed) <= MAX_APPROVAL_INPUT_BYTES
    BY <1>2, <1>3, <1>6 DEF AnswersOK, n
<1>9. \A a \in 1..(n + 1), b \in 1..(n + 1) :
          b # a /\ answers'[a].line.number > 0 =>
              answers'[b].line.number # answers'[a].line.number
    <2>1. line.number > 0 => \A a \in 1..n : answers[a].line.number < line.number
        BY DEF UsedBelow, n
    <2>2. \A a \in 1..n, b \in 1..n :
              b # a /\ answers[a].line.number > 0 => answers[b].line.number # answers[a].line.number
        BY DEF AnswersOK, n
    <2> QED
        BY <1>2, <1>3, <1>4, <1>5, <1>6, <2>1, <2>2
<1> QED
    BY <1>3, <1>7, <1>8, <1>9 DEF AnswersOK

\* A line that leaves the channel for an answer is used by no other.
LEMMA StepKeyboardOK ==
    ASSUME RunInv, SessionTypeOK, AskOK, KeyboardOK, AnswersOK, [CliNext]_cliVars
    PROVE  KeyboardOK' /\ AnswersOK'
<1> USE DEF keyboard
<1>1. "Approve" \in Decisions /\ "Deny" \in Decisions /\ "Approve" # "Deny"
    BY DEF Decisions
<1>2. NoLine \in Lines /\ NoLine.number = 0
    BY DEF NoLine, Lines
<1>3. /\ lines_read \in Nat /\ answers \in Seq(Answers) /\ input \in Seq(Inputs)
      /\ reader \in Readers
    BY DEF SessionTypeOK
<1>4. CASE UNCHANGED <<keyboard, answers>>
    BY <1>4 DEF KeyboardOK, AnswersOK, UsedBelow
<1>5. ASSUME Decide("Deny", NoLine), UNCHANGED keyboard PROVE KeyboardOK' /\ AnswersOK'
    <2>1. AnswersOK' /\ \A n \in Nat : UsedBelow(n) /\ n > 0 => UsedBelow(n)'
        BY <1>1, <1>2, <1>5, AnswerOfALine DEF Decide
    <2>2. Len(input) = 1 => input[1].line.number \in Nat /\ input[1].line.number > 0
        BY <1>3 DEF KeyboardOK
    <2>3. /\ reader.kind \in {"reading", "finished"} => UsedBelow(lines_read + 1)'
          /\ reader.kind \notin {"reading", "finished"} => UsedBelow(lines_read)'
          /\ Len(input) = 1 => UsedBelow(input[1].line.number)'
        <3>1. lines_read + 1 \in Nat /\ lines_read + 1 > 0
            BY <1>3
        <3>2. reader.kind \notin {"reading", "finished"} => lines_read > 0 /\ UsedBelow(lines_read)
            BY DEF KeyboardOK
        <3>3. reader.kind \in {"reading", "finished"} => UsedBelow(lines_read + 1)
            BY DEF KeyboardOK
        <3>4. Len(input) = 1 => UsedBelow(input[1].line.number)
            BY DEF KeyboardOK
        <3>5. UNCHANGED <<reader, input, lines_read>>
            BY <1>5
        <3> HIDE DEF keyboard
        <3>6. ASSUME NEW n \in Nat, n > 0, UsedBelow(n)
              PROVE  \A a \in 1..Len(answers') : answers'[a].line.number < n
            BY <2>1, <3>6 DEF UsedBelow
        <3>7. reader.kind \in {"reading", "finished"} => UsedBelow(lines_read + 1)'
            <4>1. reader.kind \in {"reading", "finished"} =>
                     \A a \in 1..Len(answers') : answers'[a].line.number < lines_read + 1
                BY ONLY <3>1, <3>3, <3>6
            <4> QED
                BY ONLY <3>5, <4>1 DEF UsedBelow
        <3>8. reader.kind \notin {"reading", "finished"} => UsedBelow(lines_read)'
            <4>1. reader.kind \notin {"reading", "finished"} =>
                     \A a \in 1..Len(answers') : answers'[a].line.number < lines_read
                BY ONLY <1>3, <3>2, <3>6
            <4> QED
                BY ONLY <3>5, <4>1 DEF UsedBelow
        <3>9. Len(input) = 1 => UsedBelow(input[1].line.number)'
            <4>1. Len(input) = 1 =>
                     \A a \in 1..Len(answers') : answers'[a].line.number < input[1].line.number
                BY ONLY <2>2, <3>4, <3>6
            <4> QED
                BY ONLY <3>5, <4>1 DEF UsedBelow
        <3> QED
            BY <3>7, <3>8, <3>9
    <2> QED
        BY <1>5, <2>1, <2>3 DEF KeyboardOK, UsedBelow
<1>6. CASE SetUp \/ InstallSignalHandler \/ CreateEventLog \/ Signal \/ Report \/ Exited \/ Render
    BY <1>4, <1>6 DEF SetUp, InstallSignalHandler, CreateEventLog, Signal, Report, Exited, Render,
       cliVars, session
<1>7. CASE RuntimeSteps \/ ProviderAnswers
    BY <1>4, <1>7, RuntimeIsRunStep DEF session
<1>8. CASE ShowPrompt \/ PollCancellation \/ ReceiveNothing
    BY <1>4, <1>5, <1>8 DEF ShowPrompt, PollCancellation, ReceiveNothing
<1>9. CASE ReceiveInput
    <2> DEFINE received_input == Head(input)
               word == Trimmed(received_input.line.typed)
    <2>1. input # <<>> /\ input' = <<>> /\ UNCHANGED <<reader, lines_read>>
        BY <1>9 DEF ReceiveInput
    <2>2. Len(input) = 1 /\ received_input = input[1] /\ received_input \in Inputs /\ Len(input') = 0
        <3>1. Len(input) \in Nat /\ Len(input) # 0
            BY <1>3, <2>1
        <3>2. Len(input) = 1
            BY <3>1 DEF KeyboardOK
        <3>3. received_input = input[1] /\ received_input \in Inputs
            BY <1>3, <2>1, <3>2
        <3> QED
            BY <2>1, <3>2, <3>3
    <2>3. /\ received_input.line \in Lines
          /\ received_input.line.number \in 1..lines_read
          /\ reader.kind \notin {"reading", "finished"} => received_input.line.number < lines_read
          /\ UsedBelow(received_input.line.number)
          /\ received_input.kind = "Line" => Len(received_input.line.typed) <= MAX_APPROVAL_INPUT_BYTES
        BY <2>2 DEF KeyboardOK, Inputs
    <2>4. \/ \E d \in Decisions :
               /\ Decide(d, received_input.line)
               /\ d = "Approve" => received_input.kind = "Line" /\ word \in Yes
          \/ Decide("Deny", NoLine)
          \/ UNCHANGED answers
        BY <1>1, <1>9 DEF ReceiveInput
    <2> HIDE DEF word, received_input
    <2>5. ASSUME AnswersOK', NEW number \in 0..lines_read,
                 reader.kind \notin {"reading", "finished"} => number < lines_read,
                 \A n \in Nat : UsedBelow(n) /\ n > number => UsedBelow(n)'
          PROVE  KeyboardOK'
        <3>1. /\ reader.kind \in {"reading", "finished"} => UsedBelow(lines_read + 1)'
              /\ reader.kind \notin {"reading", "finished"} => UsedBelow(lines_read)'
            BY <1>3, <2>1, <2>5 DEF KeyboardOK
        <3> QED
            BY <2>1, <2>2, <3>1 DEF KeyboardOK, UsedBelow
    <2>6. ASSUME NEW d \in Decisions, Decide(d, received_input.line),
                 d = "Approve" => received_input.kind = "Line" /\ word \in Yes
          PROVE  KeyboardOK' /\ AnswersOK'
        <3>1. d = "Approve" => /\ received_input.line.number > 0
                               /\ Trimmed(received_input.line.typed) \in Yes
                               /\ Len(received_input.line.typed) <= MAX_APPROVAL_INPUT_BYTES
            BY <2>3, <2>6 DEF word
        <3>2. /\ AnswersOK'
              /\ \A n \in Nat : UsedBelow(n) /\ n > received_input.line.number => UsedBelow(n)'
            BY <2>3, <2>6, <3>1, AnswerOfALine DEF Decide
        <3>3. received_input.line.number \in 0..lines_read
            BY <1>3, <2>3
        <3>4. KeyboardOK'
            BY <2>3, <2>5, <3>2, <3>3
        <3> QED
            BY <3>2, <3>4
    <2>7. CASE Decide("Deny", NoLine)
        <3>1. AnswersOK' /\ \A n \in Nat : UsedBelow(n) /\ n > 0 => UsedBelow(n)'
            BY <1>1, <1>2, <2>7, AnswerOfALine DEF Decide
        <3> QED
            BY <1>3, <2>3, <2>5, <3>1 DEF KeyboardOK
    <2>8. CASE UNCHANGED answers
        <3>1. AnswersOK' /\ \A n \in Nat : UsedBelow(n) /\ n > 0 => UsedBelow(n)'
            BY <2>8 DEF AnswersOK, UsedBelow
        <3> QED
            BY <1>3, <2>3, <2>5, <3>1 DEF KeyboardOK
    <2> QED
        BY <2>4, <2>6, <2>7, <2>8
<1>10. CASE SendInput
    <2>1. /\ reader.kind \notin {"reading", "finished"} /\ input' = <<reader>> /\ Len(input') = 1
          /\ input'[1] = reader /\ reader'.kind \in {"reading", "finished"}
          /\ UNCHANGED <<lines_read, answers>>
        BY <1>10 DEF SendInput, ReaderState
    <2>2. UsedBelow(lines_read + 1)' /\ UsedBelow(lines_read)'
        <3>1. \A a \in 1..Len(answers) : answers[a].line.number \in Nat
            BY AnswerNumbers
        <3> QED
            BY <1>3, <2>1, <3>1 DEF KeyboardOK, UsedBelow
    <2>3. KeyboardOK'
        BY <1>3, <2>1, <2>2 DEF KeyboardOK, UsedBelow
    <2> QED
        BY <2>1, <2>3 DEF AnswersOK
<1>11. ASSUME NEW text \in TypedInputs, ReadInput(text) PROVE KeyboardOK' /\ AnswersOK'
    <2>1. /\ reader.kind = "reading" /\ lines_read' = lines_read + 1
          /\ reader'.kind = read_approval_input(text)
          /\ reader'.line.number = lines_read + 1
          /\ reader'.line.typed = text
          /\ UNCHANGED <<input, answers>>
        BY <1>11 DEF ReadInput, ReaderState
    <2>2. read_approval_input(text) = "Line" => Len(text) <= MAX_APPROVAL_INPUT_BYTES
        <3>1. Len(text) \in Nat
            BY CliAssumption
        <3> QED
            BY <3>1, CliAssumption DEF read_approval_input
    <2>3. read_approval_input(text) \notin {"reading", "finished"}
        BY DEF read_approval_input
    <2>4. \A a \in 1..Len(answers') : answers'[a].line.number < lines_read'
        BY <2>1 DEF KeyboardOK, UsedBelow
    <2>5. Len(input) = 1 => input[1].line.number \in 1..lines_read
        BY DEF KeyboardOK
    <2>6. KeyboardOK'
        BY <1>3, <2>1, <2>2, <2>3, <2>4, <2>5 DEF KeyboardOK, UsedBelow
    <2> QED
        BY <2>1, <2>6 DEF AnswersOK
<1>12. CASE UNCHANGED cliVars
    BY <1>4, <1>12 DEF cliVars, session
<1> QED
    BY <1>6, <1>7, <1>8, <1>9, <1>10, <1>11, <1>12 DEF CliNext, ApprovalSteps, ReaderSteps

-----------------------------------------------------------------------------
(* The screen *)

\* The first i entries of a screen show a finite number of events.
LEMMA EventsAreFinite ==
    ASSUME NEW s, NEW i \in Nat
    PROVE  /\ IsFiniteSet(EventsIn(s, i))
           /\ Cardinality(EventsIn(s, i)) \in Nat
           /\ i \in EventsIn(s, i) => Cardinality(EventsIn(s, i)) >= 1
<1>1. IsFiniteSet(1..i)
    BY FS_Interval
<1>2. IsFiniteSet(EventsIn(s, i))
    BY <1>1, FS_Subset DEF EventsIn
<1>3. Cardinality(EventsIn(s, i)) \in Nat
    BY <1>2, FS_CardinalityType
<1>4. i \in EventsIn(s, i) => Cardinality(EventsIn(s, i)) # 0
    BY <1>2, FS_EmptySet
<1> QED
    BY <1>2, <1>3, <1>4

\* The screen of a session that follows the log, in those terms.
LEMMA ScreenIsFollowed ==
    SessionTypeOK =>
        /\ ShownUpTo(Len(screen)) = EventsIn(screen, Len(screen))
        /\ ScreenFollowsLog <=> Follows(screen, log)
<1> SUFFICES ASSUME SessionTypeOK
             PROVE  /\ ShownUpTo(Len(screen)) = EventsIn(screen, Len(screen))
                    /\ ScreenFollowsLog <=> Follows(screen, log)
    OBVIOUS
<1>1. Len(screen) \in Nat
    BY DEF SessionTypeOK
<1>2. \A i : ShownUpTo(i) = EventsIn(screen, i)
    BY DEF ShownUpTo, EventsIn
<1>3. \A i \in EventsIn(screen, Len(screen)) :
          Cardinality(EventsIn(screen, i)) \in Nat /\ Cardinality(EventsIn(screen, i)) >= 1
    <2> TAKE i \in EventsIn(screen, Len(screen))
    <2>1. i \in Nat /\ i \in EventsIn(screen, i)
        BY <1>1 DEF EventsIn
    <2> QED
        BY <2>1, EventsAreFinite
<1> QED
    BY <1>2, <1>3 DEF ScreenFollowsLog, Follows

\* What one entry more adds to a screen.
LEMMA EntryAdded ==
    ASSUME NEW S, NEW s \in Seq(S), NEW entry \in S
    PROVE  /\ \A i \in 0..Len(s) : EventsIn(Append(s, entry), i) = EventsIn(s, i)
           /\ entry.type \in EventTypes =>
                 Cardinality(EventsIn(Append(s, entry), Len(s) + 1)) = Cardinality(EventsIn(s, Len(s))) + 1
           /\ entry.type \notin EventTypes =>
                 EventsIn(Append(s, entry), Len(s) + 1) = EventsIn(s, Len(s))
<1> DEFINE t == Append(s, entry)
           n == Len(s)
<1>1. n \in Nat /\ t[n + 1] = entry /\ \A i \in 1..n : t[i] = s[i]
    OBVIOUS
<1> HIDE DEF t, n
<1>2. \A i \in 0..n : EventsIn(t, i) = EventsIn(s, i)
    BY <1>1 DEF EventsIn
<1>3. entry.type \notin EventTypes => EventsIn(t, n + 1) = EventsIn(s, n)
    BY <1>1 DEF EventsIn
<1>4. ASSUME entry.type \in EventTypes
      PROVE  Cardinality(EventsIn(t, n + 1)) = Cardinality(EventsIn(s, n)) + 1
    <2>1. EventsIn(t, n + 1) = EventsIn(s, n) \cup {n + 1}
        BY <1>1, <1>4 DEF EventsIn
    <2>2. n + 1 \notin EventsIn(s, n)
        BY <1>1 DEF EventsIn
    <2> QED
        BY <1>1, <2>1, <2>2, EventsAreFinite, FS_AddElement
<1> QED
    BY <1>2, <1>3, <1>4 DEF t, n

\* A screen that follows the log still does after the next event, or after an
\* entry that is none, and while the log grows.
LEMMA FollowsNext ==
    ASSUME NEW S, NEW s \in Seq(S), NEW entry \in S, NEW l, Len(l) \in Nat, Follows(s, l),
           \/ entry.type \notin EventTypes
           \/ /\ Cardinality(EventsIn(s, Len(s))) + 1 <= Len(l)
              /\ entry = l[Cardinality(EventsIn(s, Len(s))) + 1]
    PROVE  Follows(Append(s, entry), l)
<1> DEFINE t == Append(s, entry)
           n == Len(s)
<1>1. n \in Nat /\ Len(t) = n + 1 /\ t[n + 1] = entry /\ \A i \in 1..n : t[i] = s[i]
    OBVIOUS
<1>2. /\ \A i \in 0..n : EventsIn(t, i) = EventsIn(s, i)
      /\ entry.type \in EventTypes =>
            Cardinality(EventsIn(t, n + 1)) = Cardinality(EventsIn(s, n)) + 1
    BY EntryAdded
<1>3. Cardinality(EventsIn(s, n)) \in Nat
    BY <1>1, EventsAreFinite
<1>a. \/ entry.type \notin EventTypes
      \/ /\ Cardinality(EventsIn(s, n)) + 1 <= Len(l)
         /\ entry = l[Cardinality(EventsIn(s, n)) + 1]
    OBVIOUS
<1> HIDE DEF t, n
<1> SUFFICES ASSUME NEW i \in EventsIn(t, n + 1)
             PROVE  Cardinality(EventsIn(t, i)) \in 1..Len(l) /\ t[i] = l[Cardinality(EventsIn(t, i))]
    BY <1>1 DEF Follows, t
<1>4. i \in 1..(n + 1) /\ t[i].type \in EventTypes
    BY DEF EventsIn
<1>5. CASE i = n + 1
    BY <1>1, <1>2, <1>3, <1>4, <1>5, <1>a
<1>6. CASE i \in 1..n
    <2>1. i \in EventsIn(s, n) /\ EventsIn(t, i) = EventsIn(s, i) /\ t[i] = s[i]
        BY <1>1, <1>2, <1>4, <1>6 DEF EventsIn
    <2> QED
        BY <2>1 DEF Follows, n
<1> QED
    BY <1>1, <1>4, <1>5, <1>6

\* A log that grows is still followed.
LEMMA FollowsGrows ==
    ASSUME NEW s, NEW l, NEW m, Len(l) \in Nat, Len(m) \in Nat, Len(l) <= Len(m),
           \A i \in 1..Len(l) : m[i] = l[i], Follows(s, l)
    PROVE  Follows(s, m)
    BY DEF Follows

\* A line that shows no event, on a terminal that works.
LEMMA LineKeepsScreen ==
    ASSUME RunInv, SessionTypeOK, ScreenOK, NEW entry \in OtherEntries, Line(entry),
           UNCHANGED <<log, rendered>>
    PROVE  ScreenOK'
<1>1. /\ screen \in Seq(Entries) /\ entry \in Entries /\ Len(screen) \in Nat /\ Len(log) \in Nat
      /\ rendered \in Nat
    BY DEF SessionTypeOK, Entries, RunInv, TypeInv, TypeOK
<1>2. entry.type \notin EventTypes
    BY DEF OtherEntries, EventTypes, Hint, Prompt
<1>3. ~terminal_error /\ ~terminal_error' /\ screen' = Append(screen, entry) /\ Len(screen') = Len(screen) + 1
    BY <1>1 DEF Line
<1>4. EventsIn(screen', Len(screen')) = EventsIn(screen, Len(screen))
    BY <1>1, <1>2, <1>3, EntryAdded
<1>5. Follows(screen', log')
    BY <1>1, <1>2, <1>3, FollowsNext DEF ScreenOK
<1> QED
    BY <1>1, <1>3, <1>4, <1>5 DEF ScreenOK

\* A write that fails while the run has not returned.
LEMMA FailureKeepsScreen ==
    ASSUME ScreenOK, LineFails, UNCHANGED <<log, rendered>>, pc' # "returned"
    PROVE  ScreenOK'
    BY DEF ScreenOK, LineFails

\* A step that shows nothing and records nothing.
LEMMA SameScreen ==
    ASSUME ScreenOK, UNCHANGED <<log, next_event_sequence, outcome, rendered, terminal>>,
           pc' = pc \/ pc' # "returned"
    PROVE  ScreenOK'
    BY DEF ScreenOK, SinkReturned, terminal

\* The screen follows the log, and misses the end of a run once it failed.
LEMMA StepScreenOK ==
    ASSUME RunInv, SessionTypeOK, SinkOK, ProcessOK, ScreenOK, AskOK, [CliNext]_cliVars
    PROVE  ScreenOK'
<1>a. /\ screen \in Seq(Entries) /\ rendered \in Nat /\ terminal_error \in BOOLEAN
      /\ log \in Seq(AgentEvents) /\ Len(log) \in Nat /\ next_event_sequence \in Nat
    BY DEF SessionTypeOK, RunInv, TypeInv, TypeOK
<1>b. {Hint, [type |-> "Usage"], [type |-> "EventLogPath"], Prompt(approval_seq)} \subseteq OtherEntries
    BY DEF OtherEntries, RunInv, TypeInv, TypeOK
<1>1. CASE RuntimeSteps \/ ProviderAnswers
    <2>1. RunStep /\ UNCHANGED <<terminal, rendered>> /\ rendered = next_event_sequence - 1
        BY <1>1, RuntimeIsRunStep DEF session, SinkReturned, terminal
    <2>2. CASE Silent
        BY <2>1, <2>2, SameScreen DEF Silent
    <2>3. ASSUME NEW e \in AgentEvents, log' = log \/ log' = Append(log, e) PROVE Follows(screen', log')
        <3>1. Len(log') \in Nat /\ Len(log) <= Len(log') /\ \A i \in 1..Len(log) : log'[i] = log[i]
            BY <1>a, <2>3
        <3> QED
            BY <1>a, <2>1, <3>1, FollowsGrows DEF ScreenOK, terminal
    <2>4. ASSUME NEW e \in AgentEvents, Recorded(e) \/ Unknown(e) PROVE ScreenOK'
        <3>1. ~SinkReturned' \/ outcome'.kind = "Indeterminate"
            BY <1>a, <2>1, <2>4 DEF SinkReturned, Recorded, Unknown
        <3>2. Follows(screen', log')
            BY <2>3, <2>4 DEF Recorded, Unknown
        <3> QED
            BY <2>1, <3>1, <3>2 DEF ScreenOK, terminal
    <2> QED
        BY <2>1, <2>2, <2>4, RunStepLog DEF RunInv
<1>2. CASE Render
    <2> DEFINE event == log[rendered + 1]
               seen == Cardinality(EventsIn(screen, Len(screen)))
    <2>1. rendered' = rendered + 1 /\ rendered + 1 \in 1..Len(log) /\ seen \in Nat
        BY <1>a, <1>2, EventsAreFinite DEF Render, SinkReturned, SinkOK
    <2>2. CASE LineFails /\ RequestStop
        <3>1. terminal_error' = TRUE /\ screen' = screen /\ log' = log
            BY <2>2 DEF LineFails, RequestStop, sink
        <3>2. seen <= rendered
            BY DEF ScreenOK
        <3>3. seen < rendered'
            BY <1>a, <2>1, <3>2
        <3> QED
            BY <2>1, <3>1, <3>2, <3>3 DEF ScreenOK
    <2>3. CASE render_event(event) /\ UNCHANGED vars
        <3>1. event \in AgentEvents
            BY <1>a, <2>1
        <3>2. event.type \in EventTypes /\ event \in Entries
            BY <3>1 DEF AgentEvents, Entries
        <3>3. /\ ~terminal_error /\ ~terminal_error' /\ screen' = Append(screen, event)
              /\ Len(screen') = Len(screen) + 1 /\ log' = log
            BY <1>a, <2>3, <3>2 DEF render_event, Line, vars
        <3>4. seen = rendered
            BY <3>3 DEF ScreenOK
        <3> HIDE DEF event
        <3>5. Cardinality(EventsIn(screen', Len(screen'))) = seen + 1
            BY <1>a, <3>2, <3>3, EntryAdded
        <3>6. Follows(screen', log')
            BY <1>a, <2>1, <3>2, <3>3, <3>4, FollowsNext DEF ScreenOK, event
        <3> HIDE DEF seen
        <3> QED
            BY <1>a, <2>1, <3>3, <3>4, <3>5, <3>6 DEF ScreenOK
    <2> QED
        BY <1>2, <2>2, <2>3 DEF Render
<1>3. CASE SetUp \/ InstallSignalHandler \/ CreateEventLog
    <2>1. pc = "new" /\ UNCHANGED vars /\ UNCHANGED rendered
        BY <1>3 DEF ProcessOK, SetUp, InstallSignalHandler, CreateEventLog
    <2>2. pc' # "returned" /\ UNCHANGED <<log, next_event_sequence, outcome, rendered>>
        BY <2>1 DEF vars
    <2>3. \/ UNCHANGED terminal \/ LineFails
          \/ \E entry \in OtherEntries : Line(entry)
        BY <1>b, <1>3 DEF SetUp, InstallSignalHandler, CreateEventLog
    <2> QED
        BY <2>2, <2>3, LineKeepsScreen, FailureKeepsScreen, SameScreen
<1>4. CASE ApprovalSteps
    <2>1. /\ UNCHANGED <<log, next_event_sequence, outcome, rendered>>
          /\ pc' # "returned"
        <3>1. pc = "decide" /\ ~(RuntimeSteps \/ ProviderAnswers) /\ rendered' = rendered
            <4>1. pc = "decide"
                BY <1>4 DEF ApprovalSteps, ShowPrompt, PollCancellation, ReceiveInput, ReceiveNothing, AskOK
            <4>2. ~(RuntimeSteps \/ ProviderAnswers)
                BY <4>1, RuntimeIsRunStep, RunStepLog DEF RunInv
            <4> QED
                BY <1>4, <4>1, <4>2 DEF ApprovalSteps, ShowPrompt, PollCancellation, ReceiveInput, ReceiveNothing
        <3> QED
            BY <3>1, QuietRun DEF sink
    <2>2. \/ UNCHANGED terminal \/ LineFails
          \/ \E entry \in OtherEntries : Line(entry)
        BY <1>b, <1>4 DEF ApprovalSteps, ShowPrompt, PollCancellation, ReceiveInput, ReceiveNothing
    <2> QED
        BY <2>1, <2>2, LineKeepsScreen, FailureKeepsScreen, SameScreen
<1>5. CASE ReaderSteps \/ Signal \/ Report
    <2>1. UNCHANGED <<log, next_event_sequence, outcome, rendered, terminal, pc>>
        BY <1>5 DEF ReaderSteps, SendInput, ReadInput, Signal, Report, RequestStop, vars, sink, terminal
    <2> QED
        BY <2>1, SameScreen
<1>6. CASE Exited \/ UNCHANGED cliVars
    <2>1. UNCHANGED <<log, next_event_sequence, outcome, rendered, terminal, pc>>
        BY <1>6 DEF Exited, cliVars, vars, session, terminal
    <2> QED
        BY <2>1, SameScreen
<1> QED
    BY <1>1, <1>2, <1>3, <1>4, <1>5, <1>6 DEF CliNext

-----------------------------------------------------------------------------
(* The approval *)

\* Nothing is taken off the screen, and no answer back.
LEMMA SessionGrows ==
    ASSUME SessionTypeOK, [CliNext]_cliVars
    PROVE  /\ screen' = screen \/ \E entry : screen' = Append(screen, entry)
           /\ answers' = answers \/ \E answer : answers' = Append(answers, answer)
<1> DEFINE Goal == /\ screen' = screen \/ \E entry : screen' = Append(screen, entry)
                   /\ answers' = answers \/ \E answer : answers' = Append(answers, answer)
<1>1. CASE UNCHANGED <<screen, answers>>
    BY <1>1
<1>2. CASE RuntimeSteps \/ ProviderAnswers
    BY <1>1, <1>2, RuntimeIsRunStep DEF session
<1>3. CASE SetUp \/ InstallSignalHandler \/ CreateEventLog \/ Render
    BY <1>3 DEF SetUp, InstallSignalHandler, CreateEventLog, Render, render_event, Line, LineFails, terminal
<1>4. CASE ApprovalSteps
    BY <1>4 DEF ApprovalSteps, ShowPrompt, PollCancellation, ReceiveInput, ReceiveNothing, Line, LineFails,
       Decide, terminal
<1>5. CASE ReaderSteps \/ Signal \/ Report \/ Exited \/ UNCHANGED cliVars
    BY <1>5 DEF ReaderSteps, SendInput, ReadInput, Signal, Report, Exited, cliVars, session, terminal
<1> QED
    BY <1>2, <1>3, <1>4, <1>5 DEF CliNext

\* What was prompted for stays on the screen, and what was approved stays so.
LEMMA ApprovedStays ==
    ASSUME SessionTypeOK, [CliNext]_cliVars, NEW c, NEW a
    PROVE  /\ Prompted(screen, c, a) => Prompted(screen', c, a)
           /\ Approved(screen, answers, c, a) => Approved(screen', answers', c, a)
<1>1. /\ screen \in Seq(Entries) /\ Len(screen) \in Nat
      /\ answers \in Seq(Answers) /\ Len(answers) \in Nat
    BY DEF SessionTypeOK
<1>2. Len(screen') \in Nat /\ Len(screen') >= Len(screen) /\ \A i \in 1..Len(screen) : screen'[i] = screen[i]
    BY <1>1, SessionGrows
<1>3. Len(answers') \in Nat /\ Len(answers') >= Len(answers) /\ \A i \in 1..Len(answers) : answers'[i] = answers[i]
    BY <1>1, SessionGrows
<1>4. ASSUME Prompted(screen, c, a) PROVE Prompted(screen', c, a)
    <2>1. PICK i \in 1..(Len(screen) - 1) : RequestAt(screen, i, c, a) /\ screen[i + 1] = Prompt(a)
        BY <1>4 DEF Prompted
    <2>2. i \in 1..(Len(screen') - 1) /\ screen'[i] = screen[i] /\ screen'[i + 1] = screen[i + 1]
        BY <1>1, <1>2
    <2> QED
        BY <2>1, <2>2 DEF Prompted, RequestAt
<1> QED
    BY <1>1, <1>3, <1>4 DEF Approved

\* An answer ends the prompt, and it is the one of the approval requested last.
LEMMA DecisionAnswers ==
    ASSUME RunInv, SessionTypeOK, AskOK, [CliNext]_cliVars, NEW d, NEW line, Decide(d, line)
    PROVE  /\ AskOK'
           /\ approval_seq' \in 1..Len(answers') /\ answers'[approval_seq'].decision = d
<1>1. answers \in Seq(Answers) /\ Len(answers) \in Nat
    BY DEF SessionTypeOK
<1>2. /\ pc = "decide" /\ pc' \in {"resolve", "finish"} /\ approval_seq' = approval_seq /\ prompt' = "none"
      /\ answers' = Append(answers, [decision |-> d, line |-> line])
    BY DecideFacts
<1>3. approval_seq = Len(answers) + 1
    BY <1>2 DEF AskOK
<1>4. Len(answers') = Len(answers) + 1 /\ answers'[Len(answers) + 1] = [decision |-> d, line |-> line]
    BY <1>1, <1>2
<1> QED
    BY <1>1, <1>2, <1>3, <1>4 DEF AskOK

\* The prompt that is open is the one of the request the log ends with.
LEMMA StepAskOK ==
    ASSUME RunInv, SessionTypeOK, SinkOK, ProcessOK, AskOK, [CliNext]_cliVars
    PROVE  AskOK'
<1>a. /\ screen \in Seq(Entries) /\ Len(screen) \in Nat /\ rendered \in Nat
      /\ log \in Seq(AgentEvents) /\ Len(log) \in Nat /\ next_event_sequence \in Nat
    BY DEF SessionTypeOK, RunInv, TypeInv, TypeOK
<1>1. CASE UNCHANGED <<pc, log, next_event_sequence, tool_call_seq, approval_seq, prompt, answers,
                       rendered, terminal>>
    BY <1>1 DEF AskOK, SinkReturned, terminal
<1>2. ASSUME NEW d, NEW line, Decide(d, line) PROVE AskOK'
    BY <1>2, DecisionAnswers
<1>3. ASSUME pc = "decide", SinkReturned, prompt' # "none", Prompted(screen', tool_call_seq, approval_seq),
             UNCHANGED vars, UNCHANGED <<answers, rendered>>
      PROVE  AskOK'
    BY <1>3 DEF AskOK, SinkReturned, vars
<1>4. CASE RuntimeSteps \/ ProviderAnswers
    <2>1. RunStep /\ UNCHANGED session /\ rendered = next_event_sequence - 1
        BY <1>4, RuntimeIsRunStep DEF SinkReturned
    <2>2. pc \notin {"decide", "returned"} /\ prompt' = "none"
        BY <2>1, RunStepLog DEF RunInv, AskOK, session
    <2>3. approval_seq = Len(answers) /\ answers' = answers
        BY <2>1, <2>2 DEF AskOK, session
    <2>4. CASE pc' = "decide"
        <3>1. PICK e \in AgentEvents : Recorded(e) /\ pc = "ask" /\ Asks(e)
            BY <2>1, <2>4, RunStepLog DEF RunInv, Silent, Unknown
        <3>2. tool_call_seq' = tool_call_seq /\ approval_seq' = approval_seq + 1
            BY <2>1, <2>4, RunStepApproval DEF RunInv
        <3>3. Len(log') = Len(log) + 1 /\ log'[Len(log) + 1] = e
            BY <1>a, <3>1 DEF Recorded
        <3>4. ~SinkReturned'
            BY <1>a, <2>1, <3>1 DEF SinkReturned, Recorded, session
        <3> QED
            BY <1>a, <2>2, <2>3, <2>4, <3>1, <3>2, <3>3, <3>4 DEF AskOK, Asks
    <2>5. CASE pc' # "decide"
        <3>1. pc' # "returned" => approval_seq' = approval_seq
            BY <2>1, <2>5, RunStepApproval DEF RunInv
        <3> QED
            BY <2>2, <2>3, <2>5, <3>1 DEF AskOK
    <2> QED
        BY <2>4, <2>5
<1>5. CASE Render
    <2>1. /\ ~SinkReturned /\ rendered' = rendered + 1
          /\ UNCHANGED <<pc, log, next_event_sequence, tool_call_seq, approval_seq, prompt, answers>>
        BY <1>5 DEF Render, RequestStop, vars, call, sink
    <2>2. prompt' = "none"
        BY <2>1 DEF AskOK
    <2>3. ASSUME pc = "decide", SinkReturned', ~terminal_error'
          PROVE  Len(screen') > 0 /\ RequestAt(screen', Len(screen'), tool_call_seq, approval_seq)
        <3>1. next_event_sequence = Len(log) + 1
            BY <2>3 DEF RunInv, EndInv, SequenceOK
        <3>2. rendered + 1 = Len(log)
            BY <1>a, <2>1, <2>3, <3>1 DEF SinkReturned
        <3>3. screen' = Append(screen, log[Len(log)]) /\ log[Len(log)] \in Entries
            <4>1. screen' = Append(screen, log[rendered + 1])
                BY <1>5, <2>3 DEF Render, render_event, Line, LineFails
            <4>2. Len(log) \in 1..Len(log)
                BY <1>a, <3>2
            <4>3. log[Len(log)] \in AgentEvents
                BY <1>a, <4>2
            <4> QED
                BY <3>2, <4>1, <4>3 DEF Entries
        <3>4. Len(screen') = Len(screen) + 1 /\ screen'[Len(screen')] = log[Len(log)]
            BY <1>a, <3>3
        <3> QED
            BY <1>a, <2>3, <3>4 DEF AskOK, RequestAt
    <2> QED
        BY <2>1, <2>2, <2>3 DEF AskOK
<1>6. CASE ShowPrompt
    <2>1. CASE Line(Prompt(approval_seq)) /\ prompt' = "poll" /\ UNCHANGED <<vars, answers>>
        <3>1. Len(screen) > 0 /\ RequestAt(screen, Len(screen), tool_call_seq, approval_seq)
            BY <1>6, <2>1 DEF ShowPrompt, AskOK, Line
        <3>2. Prompt(approval_seq) \in Entries
            BY DEF Entries, OtherEntries, RunInv, TypeInv, TypeOK
        <3>3. screen' = Append(screen, Prompt(approval_seq))
            BY <2>1 DEF Line
        <3>4. /\ Len(screen') = Len(screen) + 1 /\ screen'[Len(screen)] = screen[Len(screen)]
              /\ screen'[Len(screen) + 1] = Prompt(approval_seq)
            BY <1>a, <3>1, <3>2, <3>3
        <3>5. Len(screen) \in 1..(Len(screen') - 1)
            BY <1>a, <3>1, <3>4
        <3>6. Prompted(screen', tool_call_seq, approval_seq)
            BY <3>1, <3>4, <3>5 DEF Prompted, RequestAt
        <3> QED
            BY <1>3, <1>6, <2>1, <3>6 DEF ShowPrompt
    <2> QED
        BY <1>2, <1>6, <2>1 DEF ShowPrompt
<1>7. CASE PollCancellation \/ ReceiveInput \/ ReceiveNothing
    <2>1. \/ \E d, line : Decide(d, line)
          \/ prompt' \in {"poll", "receive"} /\ UNCHANGED <<vars, answers>>
        BY <1>7 DEF PollCancellation, ReceiveInput, ReceiveNothing
    <2>2. prompt # "none" /\ rendered' = rendered
        BY <1>7 DEF PollCancellation, ReceiveInput, ReceiveNothing
    <2>3. pc = "decide" /\ SinkReturned /\ Prompted(screen, tool_call_seq, approval_seq)
        BY <2>2 DEF AskOK
    <2>4. Prompted(screen', tool_call_seq, approval_seq)
        BY <2>3, ApprovedStays
    <2> QED
        BY <1>2, <1>3, <2>1, <2>2, <2>3, <2>4
<1>8. CASE SetUp \/ InstallSignalHandler \/ CreateEventLog
    <2>1. pc = "new" /\ UNCHANGED vars /\ UNCHANGED <<prompt, answers>>
        BY <1>8 DEF ProcessOK, SetUp, InstallSignalHandler, CreateEventLog
    <2> QED
        BY <2>1 DEF AskOK, vars
<1>9. CASE ReaderSteps \/ Signal \/ Report
    BY <1>1, <1>9 DEF ReaderSteps, SendInput, ReadInput, Signal, Report, RequestStop, vars, sink, call
<1>10. CASE Exited \/ UNCHANGED cliVars
    BY <1>1, <1>10 DEF Exited, cliVars, vars, session, terminal
<1> QED
    BY <1>4, <1>5, <1>6, <1>7, <1>8, <1>9, <1>10 DEF CliNext, ApprovalSteps

\* The approval that let a handler run is on the screen and among the answers.
LEMMA StepApprovalOK ==
    ASSUME RunInv, SessionTypeOK, SinkOK, ProcessOK, AskOK, ApprovalOK, [CliNext]_cliVars
    PROVE  ApprovalOK'
<1>a. executed \in Seq(Executions) /\ Len(executed) \in Nat /\ approval_seq \in Nat
    BY DEF RunInv, TypeInv, TypeOK
<1>1. \A c, a : Approved(screen, answers, c, a) => Approved(screen', answers', c, a)
    BY ApprovedStays
<1>2. CASE RuntimeSteps \/ ProviderAnswers
    <2>1. RunStep /\ TypeInv /\ EndInv
        BY <1>2, RuntimeIsRunStep DEF RunInv
    <2>2. pc' # "resolve"
        BY <2>1, RunStepLog DEF Silent, Recorded, Unknown
    <2>3. pc' \in {"authorize", "execute"} /\ prepared' = "RequiresApproval" =>
              Approved(screen', answers', tool_call_seq', approval_seq')
        <3> SUFFICES ASSUME pc' \in {"authorize", "execute"}, prepared' = "RequiresApproval"
                     PROVE  Approved(screen', answers', tool_call_seq', approval_seq')
            OBVIOUS
        <3>1. /\ UNCHANGED <<tool_call_seq, approval_seq>>
              /\ \/ pc = "resolve" /\ decision = "Approve"
                 \/ pc = "authorize" /\ prepared = "RequiresApproval"
            BY <2>1, RunStepApproval
        <3>2. Approved(screen, answers, tool_call_seq, approval_seq)
            BY <3>1 DEF ApprovalOK
        <3> QED
            BY <1>1, <3>1, <3>2
    <2>4. ASSUME NEW m \in 1..Len(executed'), executed'[m].disposition = "RequiresApproval"
          PROVE  \E a \in Nat : Approved(screen', answers', executed'[m].call, a)
        <3> DEFINE entry == [call |-> tool_call_seq, disposition |-> prepared, stopped |-> stop_pc]
        <3>1. \/ executed' = executed
              \/ pc = "execute" /\ executed' = Append(executed, entry)
            BY <2>1, RunStepApproval
        <3>2. entry.call = tool_call_seq /\ entry.disposition = prepared
            OBVIOUS
        <3> HIDE DEF entry
        <3>3. \/ m \in 1..Len(executed) /\ executed'[m] = executed[m]
              \/ pc = "execute" /\ executed'[m] = entry
            BY <1>a, <2>4, <3>1
        <3>4. CASE m \in 1..Len(executed) /\ executed'[m] = executed[m]
            BY <1>1, <2>4, <3>4 DEF ApprovalOK
        <3>5. CASE pc = "execute" /\ executed'[m] = entry
            <4>1. Approved(screen, answers, tool_call_seq, approval_seq)
                BY <2>4, <3>2, <3>5 DEF ApprovalOK
            <4> QED
                BY <1>a, <1>1, <3>2, <3>5, <4>1
        <3> QED
            BY <3>3, <3>4, <3>5
    <2> QED
        BY <2>2, <2>3, <2>4 DEF ApprovalOK
<1>3. CASE ~(RuntimeSteps \/ ProviderAnswers)
    <2>1. /\ UNCHANGED <<tool_call_seq, approval_seq, prepared, executed>>
          /\ pc' = pc \/ (pc = "decide" /\ pc' \in {"resolve", "finish"})
          /\ pc' = pc => UNCHANGED <<decision, proposed>>
        BY <1>3, QuietRun
    <2>2. \A m \in 1..Len(executed') :
              executed'[m].disposition = "RequiresApproval" =>
                  \E a \in Nat : Approved(screen', answers', executed'[m].call, a)
        BY <1>1, <2>1 DEF ApprovalOK
    <2>3. CASE pc' = pc
        BY <1>1, <2>1, <2>2, <2>3 DEF ApprovalOK
    <2>4. ASSUME NEW d, NEW line, Decide(d, line), prompt # "none" \/ d # "Approve" PROVE ApprovalOK'
        <3>1. pc' \in {"resolve", "finish"} /\ decision' = d
            BY <2>4, DecideFacts
        <3>2. approval_seq \in 1..Len(answers') /\ answers'[approval_seq].decision = d
            BY <2>1, <2>4, DecisionAnswers
        <3>3. prompt # "none" => Prompted(screen', tool_call_seq, approval_seq)
            BY ApprovedStays DEF AskOK
        <3> QED
            BY <2>1, <2>2, <2>4, <3>1, <3>2, <3>3 DEF ApprovalOK, Approved
    <2>5. pc' = pc \/ \E d, line : Decide(d, line) /\ (prompt # "none" \/ d # "Approve")
        <3>1. CASE ApprovalSteps
            BY <3>1 DEF ApprovalSteps, ShowPrompt, PollCancellation, ReceiveInput, ReceiveNothing, vars
        <3>2. CASE ~ApprovalSteps
            BY <1>3, <3>2 DEF CliNext, SetUp, InstallSignalHandler, CreateEventLog, Render, ReaderSteps,
               SendInput, ReadInput, Signal, Report, Exited, RequestStop, vars, cliVars
        <3> QED
            BY <3>1, <3>2
    <2> QED
        BY <2>3, <2>4, <2>5
<1> QED
    BY <1>2, <1>3

-----------------------------------------------------------------------------
(* The theorems *)

\* A session starts with nothing shown, read or answered.
LEMMA CliInitInv == CliInit => RunInv /\ SessionInv
<1> SUFFICES ASSUME CliInit PROVE RunInv /\ SessionInv
    OBVIOUS
<1>1. Init
    BY DEF CliInit
<1>2. RunInv
    BY <1>1, InitTypeInv, InitEndInv, InitStopInv DEF RunInv
<1>3. /\ pc = "new" /\ log = <<>> /\ next_event_sequence = 1 /\ outcome = NoOutcome /\ executed = <<>>
      /\ terminal_status = "Undecided" /\ approval_seq = 0
    BY <1>1 DEF Init, LatchInit
<1>4. /\ token_owner = "nobody" /\ cli = "arguments" /\ signalled = FALSE /\ terminal_error = FALSE
      /\ screen = <<>> /\ rendered = 0 /\ prompt = "none" /\ reader = ReaderState("reading", NoLine)
      /\ lines_read = 0 /\ input = <<>> /\ answers = <<>>
    BY DEF CliInit
<1>5. SessionTypeOK
    <2>1. reader \in Readers
        BY <1>4 DEF ReaderState, NoLine, Readers, Lines
    <2>2. screen \in Seq(Entries) /\ input \in Seq(Inputs) /\ answers \in Seq(Answers)
        BY <1>4
    <2>3. terminal_error \in BOOLEAN /\ rendered \in Nat /\ lines_read \in Nat
        BY <1>4
    <2> QED
        BY <2>1, <2>2, <2>3 DEF SessionTypeOK
<1>6. SinkOK
    BY <1>3, <1>4 DEF SinkOK
<1>7. ProcessOK /\ SourceOK /\ Proposal
    BY <1>3, <1>4, StopsAssumption DEF ProcessOK, SourceOK, Proposal
<1>8. ScreenOK
    <2>1. EventsIn(screen, Len(screen)) = {}
        BY <1>4 DEF EventsIn
    <2> QED
        BY <1>4, <2>1, FS_EmptySet DEF ScreenOK, Follows
<1>9. AskOK /\ KeyboardOK /\ AnswersOK /\ ApprovalOK
    BY <1>3, <1>4 DEF AskOK, KeyboardOK, AnswersOK, ApprovalOK, UsedBelow, ReaderState
<1> QED
    BY <1>2, <1>5, <1>6, <1>7, <1>8, <1>9 DEF SessionInv

\* The invariant of a session holds throughout.
LEMMA SessionInvariance == CliSpec => [](RunInv /\ SessionInv)
<1>1. RunInv /\ SessionInv /\ [CliNext]_cliVars => RunInv' /\ SessionInv'
    BY SessionKeepsRun, StepSessionTypeOK, StepSinkOK, StepProcessOK, StepSourceOK, StepScreenOK, StepAskOK,
       StepKeyboardOK, StepApprovalOK
    DEF SessionInv
<1> QED
    BY <1>1, CliInitInv, PTL DEF CliSpec

\* Whatever is typed, and whenever the terminal, the input or the user fails: a
\* call that needed approval ran only after its request and the whole prompt
\* were shown, and after a line of its own, typed in full, said yes (which may have
\* been typed before the prompt).
THEOREM ApprovalsAreSeen == CliSpec => []ApprovedAsShown
<1>1. RunInv /\ SessionInv => ApprovedAsShown
    <2> SUFFICES ASSUME RunInv, SessionInv, NEW x \in ToSet(executed), x.disposition = "RequiresApproval"
                 PROVE  \E i \in 1..(Len(screen) - 1) :
                            /\ screen[i].type = "ApprovalRequested"
                            /\ screen[i].call = x.call
                            /\ screen[i + 1] = Prompt(screen[i].approval)
                            /\ LET answer == answers[screen[i].approval]
                               IN  /\ answer.decision = "Approve"
                                   /\ Trimmed(answer.line.typed) \in Yes
                                   /\ Len(answer.line.typed) <= MAX_APPROVAL_INPUT_BYTES
                                   /\ \A a \in DOMAIN answers \ {screen[i].approval} :
                                         answers[a].line.number # answer.line.number
        BY DEF ApprovedAsShown
    <2>1. PICK m \in 1..Len(executed) : x = executed[m]
        BY DEF ToSet, RunInv, TypeInv, TypeOK
    <2>2. PICK a \in Nat : Approved(screen, answers, x.call, a)
        BY <2>1 DEF SessionInv, ApprovalOK
    <2>3. PICK i \in 1..(Len(screen) - 1) : RequestAt(screen, i, x.call, a) /\ screen[i + 1] = Prompt(a)
        BY <2>2 DEF Approved, Prompted
    <2>4. DOMAIN answers = 1..Len(answers)
        BY DEF SessionInv, SessionTypeOK
    <2>5. /\ a \in 1..Len(answers) /\ answers[a].decision = "Approve" /\ answers[a].line.number > 0
          /\ Trimmed(answers[a].line.typed) \in Yes
          /\ Len(answers[a].line.typed) <= MAX_APPROVAL_INPUT_BYTES
          /\ \A b \in DOMAIN answers \ {a} : answers[b].line.number # answers[a].line.number
        BY <2>2, <2>4 DEF Approved, SessionInv, AnswersOK
    <2> QED
        BY <2>3, <2>5 DEF RequestAt
<1> QED
    BY <1>1, SessionInvariance, PTL

\* The screen follows the log, and the exit code agrees with both: the status of
\* a run is reported only when the log holds it durably and all of it was shown,
\* and a stop only when a signal asked for it.
THEOREM ExitTellsTheTruth == CliSpec => []ExitIsTrue
<1>1. RunInv /\ SessionInv => ExitIsTrue
    <2> SUFFICES ASSUME RunInv, SessionInv PROVE ExitIsTrue
        OBVIOUS
    <2>1. ScreenFollowsLog
        BY ScreenIsFollowed DEF SessionInv, ScreenOK
    <2> DEFINE seen == Cardinality(EventsIn(screen, Len(screen)))
    <2>2. AllShown <=> seen = Len(log)
        BY ScreenIsFollowed DEF SessionInv, AllShown
    <2>3. /\ seen \in Nat /\ seen <= rendered /\ (~terminal_error => seen = rendered)
          /\ terminal_error /\ seen = rendered /\ SinkReturned =>
                pc # "returned" \/ outcome.kind = "Indeterminate"
        BY EventsAreFinite DEF SessionInv, ScreenOK, SessionTypeOK
    <2> HIDE DEF seen
    <2> SUFFICES ASSUME cli = "exited", token_owner = "this_run"
                 PROVE  \/ /\ code(exit) = 1
                           /\ exit = "Runtime" <=> outcome.kind = "Indeterminate"
                           /\ exit = "TerminalOutput" => /\ log[Len(log)].type = "RunFinished"
                                                         /\ synced = Len(log)
                                                         /\ ~AllShown
                        \/ /\ code(exit) = code(log[Len(log)].value)
                           /\ log[Len(log)].type = "RunFinished"
                           /\ synced = Len(log)
                           /\ AllShown
                           /\ code(exit) \in {125, 130} => signalled /\ exit = signal_action
        BY <2>1 DEF ExitIsTrue
    <2>4. Reported
        BY DEF SessionInv, ProcessOK
    <2>5. CASE exit = "Runtime" /\ outcome.kind = "Indeterminate"
        BY <2>5 DEF code
    <2>6. CASE /\ outcome.kind = "Finished"
               /\ exit = IF terminal_error THEN "TerminalOutput" ELSE outcome.status
        <3>1. /\ outcome.status = terminal_status /\ terminal_status # "Undecided" /\ synced = Len(log)
              /\ log[Len(log)].type = "RunFinished" /\ log[Len(log)].value = outcome.status
            BY <2>6 DEF RunInv, EndInv, FinishedOK
        <3>2. rendered = Len(log) /\ SinkReturned /\ pc = "returned"
            BY <2>4, <2>6 DEF Reported, SinkReturned, SessionInv, SinkOK, RunInv, TypeInv, TypeOK
        <3>3. CASE terminal_error
            <4>1. exit = "TerminalOutput"
                BY <2>6, <3>3
            <4>2. ~AllShown
                BY <2>2, <2>3, <2>6, <3>2, <3>3
            <4> QED
                BY <2>6, <3>1, <4>1, <4>2 DEF code
        <3>4. CASE ~terminal_error
            <4>1. exit = terminal_status /\ AllShown
                BY <2>2, <2>3, <2>6, <3>1, <3>2, <3>4
            <4>2. terminal_status \in {"Completed", "Failed"} \cup Stops
                BY <3>1 DEF RunInv, TypeInv, TypeOK, LatchTypeOK, TerminalRunStatus
            <4>3. code(exit) \in {125, 130} => terminal_status \in Stops
                BY <4>1, <4>2 DEF code
            <4>4. terminal_status \in Stops => signalled /\ terminal_status = signal_action
                BY <3>4 DEF SessionInv, SourceOK
            <4> QED
                BY <3>1, <4>1, <4>3, <4>4
        <3> QED
            BY <3>3, <3>4
    <2> QED
        BY <2>4, <2>5, <2>6 DEF Reported
<1> QED
    BY <1>1, SessionInvariance, PTL

=============================================================================
