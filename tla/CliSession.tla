------------------------------- MODULE CliSession -------------------------------
(***************************************************************************)
(* One invocation of the CLI (cli-proof-surface/src): app.rs sets a run up *)
(* and reports how it ended, terminal.rs shows every event the log         *)
(* accepted, approval.rs asks on the terminal and reads the answer from    *)
(* stdin, signals.rs turns a process signal into a stop.                   *)
(*                                                                         *)
(* The run is AgentRuntime with the CLI as its sink, its control and its   *)
(* approver.  Three threads take part: the one that runs the agent and     *)
(* writes to the terminal, the stdin reader and the signal handler.  Any   *)
(* write to the terminal may fail.                                         *)
(***************************************************************************)
EXTENDS AgentRuntime

CONSTANTS signal_action,             \* --on-signal: the stop a signal asks for
          TypedInputs,               \* what stdin may hold next, a line each
          MaxLines,                  \* bound: lines typed in a session
          MAX_APPROVAL_INPUT_BYTES   \* 4096 in the code

ASSUME CliAssumption ==
    /\ MaxLines \in Nat
    /\ MAX_APPROVAL_INPUT_BYTES \in Nat \ {0}
    /\ TypedInputs \subseteq Seq(STRING)
    /\ Stops = {"Interrupted", "Cancelled"}
    /\ signal_action \in Stops

VARIABLES
    cli,              \* where run_options is
    signalled,        \* whether a signal came
    terminal_error,   \* TerminalOutputState.error
    screen,           \* what was shown, in order
    rendered,         \* how many accepted events the sink tried to show
    prompt,           \* where decide_approval is
    reader,           \* the stdin reader: reading, finished or an input to send
    lines_read,       \* inputs it took from stdin
    input,            \* the channel between the reader and decide_approval
    answers,          \* what decided each approval, in order
    exit              \* how the process ended

terminal == <<terminal_error, screen>>
keyboard == <<reader, lines_read, input>>
process == <<cli, exit>>
session == <<cli, signalled, terminal_error, screen, rendered, prompt,
             reader, lines_read, input, answers, exit>>

cliVars == <<vars, session>>

-----------------------------------------------------------------------------
(* Terminal output *)

\* line: an earlier error is kept and nothing more is written.
Line(entry) ==
    /\ ~terminal_error
    /\ screen' = Append(screen, entry)
    /\ UNCHANGED terminal_error

LineFails ==
    /\ terminal_error' = TRUE
    /\ UNCHANGED screen

\* Every kind of event is shown as one entry, whatever lines it takes.
render_event(event) == Line(event)

Prompt(approval) == [type |-> "ApprovalPrompt", approval |-> approval]
Hint == [type |-> "EnterYOrN"]

\* The sink returns once the event it accepted was shown, or failed to be.
SinkReturned == rendered = next_event_sequence - 1

\* Mutant: a failed render is dropped and the run goes on unseen.
MutantRender ==
    /\ ~SinkReturned
    /\ rendered' = rendered + 1
    /\ \/ render_event(log[rendered + 1])
       \/ LineFails
    /\ UNCHANGED <<vars, process, signalled, prompt, keyboard, answers>>

\* StreamingEventStore::append and append_durable, after the store took the
\* event: a render that fails cancels the run.
Render ==
    /\ ~SinkReturned
    /\ rendered' = rendered + 1
    /\ \/ render_event(log[rendered + 1]) /\ UNCHANGED vars
       \/ /\ LineFails
          /\ RequestStop
          /\ terminal_status = "Undecided" => terminal_status' = "Cancelled"
    /\ UNCHANGED <<process, signalled, prompt, keyboard, answers>>

-----------------------------------------------------------------------------
(* Stdin *)

NoLine == [typed |-> <<>>, number |-> 0]

ReaderState(kind, line) == [kind |-> kind, line |-> line]

\* Mutant: what is over the limit is dropped and the rest is a line.
Mutant_read_approval_input(text) ==
    CASE text = <<>> -> "Eof"
      [] "not-utf8" \in ToSet(text) -> "Error"
      [] OTHER -> "Line"

\* read_approval_input and decode_approval_line, of the bytes up to a newline
\* or the end of the input.
read_approval_input(text) ==
    CASE Len(text) > MAX_APPROVAL_INPUT_BYTES -> "TooLong"
      [] text = <<>> -> "Eof"
      [] "not-utf8" \in ToSet(text) -> "Error"
      [] OTHER -> "Line"

\* The thread of from_stdin takes the next input ...
ReadInput(text) ==
    /\ reader.kind = "reading"
    /\ lines_read < MaxLines
    /\ lines_read' = lines_read + 1
    /\ reader' = ReaderState(read_approval_input(text),
                             [typed |-> text, number |-> lines_read + 1])
    /\ UNCHANGED <<vars, process, signalled, terminal, rendered, prompt, input, answers>>

\* ... and sends it once the channel of one has room; any but a line is the last.
SendInput ==
    /\ reader.kind \notin {"reading", "finished"}
    /\ input = <<>>
    /\ input' = <<reader>>
    /\ reader' = ReaderState(IF reader.kind = "Line" THEN "reading" ELSE "finished", NoLine)
    /\ UNCHANGED <<vars, process, signalled, terminal, rendered, prompt, lines_read, answers>>

-----------------------------------------------------------------------------
(* decide_approval *)

Yes == {<<"y">>, <<"y", "e", "s">>}
No == {<<>>, <<"n">>, <<"n", "o">>}

\* line.trim(): the only blank a line of the model has is its newline.
Trimmed(text) == SelectSeq(text, LAMBDA b : b # "newline")

\* The decision goes back to the runtime, which looks at the stop again.
Decide(d, line) ==
    /\ DecideApproval(d)
    /\ prompt' = "none"
    /\ answers' = Append(answers, [decision |-> d, line |-> line])

\* The prompt is shown whole, or the call is denied.
ShowPrompt ==
    /\ pc = "decide"
    /\ prompt = "none"
    /\ SinkReturned
    /\ \/ Line(Prompt(approval_seq)) /\ prompt' = "poll" /\ UNCHANGED <<vars, answers>>
       \/ LineFails /\ Decide("Deny", NoLine)
    /\ UNCHANGED <<process, signalled, rendered, keyboard>>

PollCancellation ==
    /\ prompt = "poll"
    /\ \/ cancellation /\ Decide("Deny", NoLine)
       \/ ~cancellation /\ prompt' = "receive" /\ UNCHANGED <<vars, answers>>
    /\ UNCHANGED <<process, signalled, terminal, rendered, keyboard>>

\* recv_timeout returns an input; what is neither yes nor no is asked again.
ReceiveInput ==
    /\ prompt = "receive"
    /\ input # <<>>
    /\ input' = <<>>
    /\ LET received_input == Head(input)
           word == Trimmed(received_input.line.typed)
       IN  \/ /\ received_input.kind = "Line"
              /\ word \in Yes
              /\ Decide("Approve", received_input.line)
              /\ UNCHANGED terminal
           \/ /\ received_input.kind = "Line" => word \in No
              /\ Decide("Deny", received_input.line)
              /\ UNCHANGED terminal
           \/ /\ received_input.kind = "Line"
              /\ word \notin Yes \cup No
              /\ \/ Line(Hint) /\ prompt' = "poll" /\ UNCHANGED <<vars, answers>>
                 \/ LineFails /\ Decide("Deny", NoLine)
    /\ UNCHANGED <<process, signalled, rendered, reader, lines_read>>

\* Nothing within INPUT_POLL_INTERVAL, or the reader is gone.
ReceiveNothing ==
    /\ prompt = "receive"
    /\ input = <<>>
    /\ \/ reader.kind = "finished" /\ Decide("Deny", NoLine)
       \/ reader.kind # "finished" /\ prompt' = "poll" /\ UNCHANGED <<vars, answers>>
    /\ UNCHANGED <<process, signalled, terminal, rendered, keyboard>>

-----------------------------------------------------------------------------
(* run_options *)

CliInit ==
    /\ Init
    /\ token_owner = "nobody"
    /\ cli = "arguments"
    /\ signalled = FALSE
    /\ terminal_error = FALSE
    /\ screen = <<>>
    /\ rendered = 0
    /\ prompt = "none"
    /\ reader = ReaderState("reading", NoLine)
    /\ lines_read = 0
    /\ input = <<>>
    /\ answers = <<>>
    /\ exit = "none"

Exit(cause) == cli' = "exited" /\ exit' = cause

\* parse_args, the workspace, the tools, the script and the run id: none of it
\* is shown or recorded, and an error ends the process.  Help is printed first.
SetUp ==
    /\ cli = "arguments"
    /\ \/ cli' = "signals" /\ UNCHANGED <<exit, terminal>>
       \/ Exit("Setup") /\ UNCHANGED terminal
       \/ Line([type |-> "Usage"]) /\ Exit("Completed")
       \/ LineFails /\ Exit("TerminalOutput")
    /\ UNCHANGED <<vars, signalled, rendered, prompt, keyboard, answers>>

InstallSignalHandler ==
    /\ cli = "signals"
    /\ \/ cli' = "event_log" /\ UNCHANGED exit
       \/ Exit("Setup")
    /\ UNCHANGED <<vars, signalled, terminal, rendered, prompt, keyboard, answers>>

\* EventLog::create, which fails rather than reuse a log, and the line that says
\* where the log is; a terminal that already fails leaves the log empty.
CreateEventLog ==
    /\ cli = "event_log"
    /\ \/ Exit("Setup") /\ UNCHANGED terminal
       \/ Line([type |-> "EventLogPath"]) /\ cli' = "running" /\ UNCHANGED exit
       \/ LineFails /\ Exit("TerminalOutput")
    /\ UNCHANGED <<vars, signalled, rendered, prompt, keyboard, answers>>

Signal ==
    /\ cli \in {"event_log", "running"}
    /\ signalled' = TRUE
    /\ RequestStop
    /\ terminal_status = "Undecided" => terminal_status' = signal_action
    /\ UNCHANGED <<process, terminal, rendered, prompt, keyboard, answers>>

\* The runtime's own steps, one at a time with the sink; the CLI's checkpoint
\* always lets the run continue.
RuntimeSteps ==
    /\ cli = "running"
    /\ SinkReturned
    /\ Running
    /\ pc \in {"turn", "authorize"} => UNCHANGED latch
    /\ UNCHANGED session

\* The model answers, or a tool returns.
ProviderAnswers ==
    /\ cli = "running"
    /\ SinkReturned
    /\ pc # "decide"
    /\ Awaiting
    /\ pc = "stream" => UNCHANGED latch
    /\ UNCHANGED session

\* Mutant: the terminal's error is not looked at.
MutantReport ==
    /\ cli = "running"
    /\ pc = "returned"
    /\ SinkReturned
    /\ \/ outcome.kind = "Indeterminate" /\ Exit("Runtime")
       \/ outcome.kind = "Finished" /\ Exit(outcome.status)
    /\ UNCHANGED <<vars, signalled, terminal, rendered, prompt, keyboard, answers>>

\* The outcome becomes the exit status: a runtime error comes first, then a
\* terminal error, which hides the status of the run.
Report ==
    /\ cli = "running"
    /\ pc = "returned"
    /\ SinkReturned
    /\ \/ outcome.kind = "Indeterminate" /\ Exit("Runtime")
       \/ /\ outcome.kind = "Finished"
          /\ Exit(IF terminal_error THEN "TerminalOutput" ELSE outcome.status)
    /\ UNCHANGED <<vars, signalled, terminal, rendered, prompt, keyboard, answers>>

\* CliExitStatus::code, and ExitCode::FAILURE for every error.
code(cause) ==
    CASE cause = "Completed" -> 0
      [] cause = "Failed" -> 2
      [] cause = "Interrupted" -> 130
      [] cause = "Cancelled" -> 125
      [] OTHER -> 1

Exited == cli = "exited" /\ UNCHANGED cliVars

ApprovalSteps == ShowPrompt \/ PollCancellation \/ ReceiveInput \/ ReceiveNothing

ReaderSteps ==
    /\ cli = "running"
    /\ SendInput \/ \E text \in TypedInputs : ReadInput(text)

CliNext ==
    \/ SetUp \/ InstallSignalHandler \/ CreateEventLog
    \/ RuntimeSteps \/ ProviderAnswers \/ Render \/ ApprovalSteps
    \/ ReaderSteps
    \/ Signal
    \/ Report \/ Exited

\* The thread of the run goes on, and a terminal takes or fails every write;
\* the model and the tools return once cancelled; nobody need type anything.
CliFairness ==
    /\ WF_cliVars(SetUp \/ InstallSignalHandler \/ CreateEventLog)
    /\ WF_cliVars(RuntimeSteps \/ Render \/ ApprovalSteps \/ Report)
    /\ WF_cliVars(ProviderAnswers /\ cancellation)

CliSpec == CliInit /\ [][CliNext]_cliVars /\ CliFairness

-----------------------------------------------------------------------------
(* Properties *)

\* Where the first i entries of the screen show an event.
ShownUpTo(i) == {j \in 1..i : screen[j].type \in EventTypes}

\* The n-th event shown is the n-th of the log.
ScreenFollowsLog ==
    \A i \in ShownUpTo(Len(screen)) :
        LET n == Cardinality(ShownUpTo(i))
        IN  n <= Len(log) /\ screen[i] = log[n]

AllShown == Cardinality(ShownUpTo(Len(screen))) = Len(log)

\* A call that needs approval runs only after the terminal showed its request
\* and, right under it, the whole prompt, and after a line of its own, typed in
\* full and within the limit, said yes: input that was cut, closed or broken,
\* a line that answered another prompt, or a prompt nobody could see, never
\* approves.  The line itself may have been typed before the prompt was shown.
ApprovedAsShown ==
    \A x \in ToSet(executed) :
        x.disposition = "RequiresApproval" =>
            \E i \in 1..(Len(screen) - 1) :
                /\ screen[i].type = "ApprovalRequested"
                /\ screen[i].call = x.call
                /\ screen[i + 1] = Prompt(screen[i].approval)
                /\ LET answer == answers[screen[i].approval]
                   IN  /\ answer.decision = "Approve"
                       /\ Trimmed(answer.line.typed) \in Yes
                       /\ Len(answer.line.typed) <= MAX_APPROVAL_INPUT_BYTES
                       /\ \A a \in DOMAIN answers \ {screen[i].approval} :
                             answers[a].line.number # answer.line.number

\* The terminal shows the log in order and without a gap, and the exit code
\* agrees with both: a run's status is reported only when it is durable in the
\* log and everything was shown, a stop only when a signal asked for it, and a
\* terminal that failed still leaves a finished log.
ExitIsTrue ==
    /\ ScreenFollowsLog
    /\ cli = "exited" /\ token_owner = "this_run" =>
          \/ /\ code(exit) = 1
             /\ exit = "Runtime" <=> outcome.kind = "Indeterminate"
             /\ exit = "TerminalOutput" => /\ log[Len(log)].type = "RunFinished"
                                           /\ synced = Len(log)
                                           /\ ~AllShown
          \/ /\ code(exit) = code(log[Len(log)].value)
             /\ log[Len(log)].type = "RunFinished"
             /\ synced = Len(log)
             /\ AllShown
             /\ code(exit) \in {125, 130} => signalled /\ exit = signal_action

\* A terminal that fails, wherever it fails, and a signal, whenever it comes,
\* end the process, even if the model, a tool or the user would never answer.
FailureEndsTheSession ==
    (terminal_error \/ signalled) ~> cli = "exited"

=============================================================================
