# Verification of young-agent

TLA+ modules for young-agent: the agent run loop, its stop token, the JSONL
event store, event replay and recovery, the execution and supervision of shell
commands, the coding tools behind the tool runtime, the commit of a patch in a
directory that others use too, and the command-line session around a run. TLC
checks the modules on small instances; TLAPS proves, for every value of the
constants, the safety properties of the stop token, the run loop, the event
store, replay and recovery, shell commands with their supervisor, the patch
commit, the tool runtime and the command-line session.

`PROJECT.json` is the index: components, runs, the mutant that breaks each
property, the source lines behind each definition, findings, hazards, theorems.

## The system

| Component | State | Operations | Hard part |
|---|---|---|---|
| Stop token (`agent-runtime/runtime.rs`) | terminal status under a mutex, atomic cancellation flag, bound run | `bind`, `interrupt`, `cancel`, `resolve_terminal`, `status` | threads, two writes, a read without the lock |
| Run loop (`agent-runtime/runtime.rs`) | turn, collected calls, sequences, conversation, sink position | stream a turn, drive each call through prepare / approve / execute / record, finish | a stop at any step, an append that fails with unknown effect |
| Event store (`event-store/jsonl.rs`) | file, directory entry, lock, cached append handle | `create_new`, `append`, `append_durable`, `repair_truncated_tail`, `reconcile` | two stores on one path, torn writes, power loss, stale handles |
| Replay (`event-store/replay.rs`) | fold of a timeline | `replay_events`, recovery and legacy modes | ordering and identity rules, two log formats |
| Command execution (`capability-coding/command.rs`) | locals of one control loop, a process group | preflight, spawn, control loop, cleanup, hand-off | exit, cancellation and grace timers race; every process call may fail |
| Command supervisor (`capability-coding/command.rs`) | slots, registry, worker, admission health | reserve, enqueue, worker loop, panic recovery | lost wake-ups, lost updates, a panicking owner |
| Patch application (`capability-coding/patch.rs`) | parser position, hunks, cursor | parse, `apply_hunks` | hunks in odd orders, markers, counts |
| Workspace commit (`capability-coding/workspace.rs`) | staged file, target, recovery directory, snapshots | stage, validate, exchange, claim, collect evidence | an interfering writer, a coarse clock, a power loss between renames, a failure after publication |
| Search and read (`capability-coding/search.rs`, `read.rs`) | directory stack, line and matcher state, results, budgets | walk, read a chunk, finish a line, bound the output | chunk boundaries, budgets, characters of several bytes |
| Command policy (`capability-coding/command_policy.rs`) | parser state, path probes | parse, reject, probe paths, classify | one line hiding another, links, budgets |
| Tool runtime (`tool-runtime`) | registered handlers, dispatcher identity | `register`, `prepare`, `execute_prepared` | authorising exactly the prepared call |
| CLI (`cli-proof-surface`) | stdin reader thread, terminal error, signal handler | approval prompt, rendering sink, signals, state directory | read-ahead input, output failure during a run |
| Model runtime, platform boundary | types, traits, a scripted fake; `pre_exec` wrapper | - | none of its own |

How they interact. The CLI creates a stop token, hands clones to a signal
handler and to the rendering sink, and starts the run loop on its own thread.
The loop calls the model client, the tool dispatcher and the approval handler
synchronously and gives each the cancellation flag. It writes every step to the
event sink before going on: buffered for model output, durable for tool
requests, approvals, results and the end. When an append fails, the run returns
the exact event, and its caller passes that event to `reconcile`. After a crash
the log is repaired and replayed. A shell command is a tool handler; what it
cannot terminate goes to the process-wide supervisor, which outlives the run.
The other coding tools are handlers too: the tool runtime prepares a call (for
`run_command` the policy classifies its text), the run loop gets the approval,
and the plan is executed once.

What makes each part correct: the token keeps the first status and shows a stop
to everyone; the log is ahead of every effect and agrees with the outcome; the
store never loses a durable record or admits one out of place; replay accepts
exactly what the runtime may write; no process group is left without an owner,
and what the model is told about a command is true; a patch never costs the user
content, and its report is true; a tool result is exact or says that it is cut;
nothing runs without approval that names a path outside the workspace, as the
policy reads it; what the user approved is what was shown, and the exit code
agrees with the log.

## Modules

| Module | Models | Uses |
|---|---|---|
| `TerminalLatch` | the token as a first-wins latch, one atomic step per call | |
| `AtomicStopToken` | what threads sharing a token may rely on (abstract) | `TerminalLatch` |
| `RunStopToken` | the token at the grain of its mutex and flag; implements `AtomicStopToken` | `TerminalLatch` |
| `AgentRuntime` | one run from `bind` to its outcome | `TerminalLatch` |
| `LogRecords` | which record may follow, durable identity, the verdict of `reconcile` | |
| `CanonicalLog` | what an event store promises (abstract) | `LogRecords` |
| `JsonlEventStore` | stores, file, handles, locks, crashes; implements `CanonicalLog` | `LogRecords` |
| `ReplacedPath` | the store when something replaces the file at its path | `JsonlEventStore` |
| `EventReplay` | the replay fold | |
| `ReplayTimelines` | every short timeline, and the declarative reference for replay | `EventReplay` |
| `RunRecovery` | a run, then reconcile or power loss, then replay | `AgentRuntime`, `EventReplay`, `LogRecords` |
| `CommandSupervisor` | slots, registry, worker | |
| `ShellCommand` | callers of `run_shell_command`, composed with the supervisor | `CommandSupervisor` |
| `WorkspaceFiles` | inodes, names, snapshots and slot checks of `workspace.rs` | |
| `AtomicPatch` | one `apply_patch` call and its commit, other programs, power loss | `WorkspaceFiles` |
| `PatchHunks` | the patch parser and `apply_hunks` | |
| `FileSearch` | `search_files` | |
| `CommandPolicy` | the classification of a command line | |
| `ToolRuntime` | registration, plans, authorisation, approval reasons | |
| `CodingTools` | the four built-in tools behind the tool runtime | `ToolRuntime`, `FileSearch`, `PatchHunks`, `CommandPolicy` |
| `CliSession` | set-up, terminal, prompt, stdin, signals and exit around a run | `AgentRuntime` |
| `*Proofs` | theorems, see below | the module they are about |
| `MC*` | instances for TLC | |

### How state and actions correspond to the code

*AgentRuntime.* `pc` is the position in `run_with_control_and_stop`,
`collect_model_turn` and `drive_tool_call`; an action goes from one
interruptible point to the next, so that `RequestStop`, another thread's
`interrupt` or `cancel`, can fall between any two. `Emit` is `emit` and
`emit_durable`: the sink accepts, or fails with the event in the log or not, and
the run returns. `Checkpoint` is `stopped_status`, `StoppedOr` the plain look at
the token. Ids are numbers drawn from the code's sequences, a payload is the
model's id for the call, and `TextDelta`, `ToolCallDelta`, `Usage` and `Started`
are one event, since all four leave the control alone. `executed` and `stop_pc`
are history.

*JsonlEventStore.* A file is its committed records, whether a torn record
follows, and the flushed prefix. `append_file` is the cached handle with its two
flags. A handle that has not validated the log reads through the path, as the
code does; the path and the handle may name different files. Every step of
`append_with_durability` may fail, and a failure drops the handle. Repair cuts
the torn tail off and then flushes, and the second flush of `reconcile` does the
file and then the directory: each is a step of its own that may fail or be the
last before a power loss, which may bring back a tail that was cut off and not
flushed (`torn` is `"cut"` until then). `Alone` is what the docs of `reconcile`
and repair ask of their caller: no concurrent writer.

*EventReplay.* The fold's locals become sets; `Rejects` is the disjunction of the
code's early returns. `RunStatus` follows the pending approvals as the code's
assignments to `status` do. An event has a sequence number or none; strict replay
does not look at it, legacy mode refuses a log in which any event has one, and so
every log of the current runtime.

*ShellCommand, CommandSupervisor.* One action per loop phase of a caller.
Process calls are one step with all their results: until the hand-off no other
thread owns the child, so nothing can come between them that matters. A grace
period is `"no"`, `"set"` or `"over"`. The heap is a queue of due commands in
the order they became due, which is the order of `next_action`, and a set of
delayed ones. The worker's wait and `notify_one` are separate steps: a
notification nobody waits for is lost, as with a condition variable. The
worker's loop never returns, so `worker_state` is `Running` exactly when a
worker exists and both are one variable.

*WorkspaceFiles, AtomicPatch.* One action per system call that others can come
between. Data is who wrote it and which version it is, so a patch of version 2
can be told from a patch of version 1. The staged file is written, synced, given
its permissions and synced again in four steps. Every write keeps the size and may leave
the times as they are: the case in which only the digest can tell. Every call of
the tool may fail. A power loss tears what was not synced and undoes renames from
the last one back to the last sync; another program syncs what it writes. The
recovery entry is followed through the directory that the call opened, and
`slot` is what is at the path, so the two can come apart. `live`, `exchanged`,
`late` and `past` are history or the disk's own state.

*PatchHunks.* The parser is a state machine over the lines of the patch; a
line's kind is what its first characters make it, and inside a hunk `---` is a
removal, as in the code. Two things the code does that a reader may not expect,
and that the model shows: a hunk that only adds is placed before line
`old_start` (GNU patch places it after), and a line whose newline a marker
removed in the middle of a file is joined with the next one, or is no line at
all if it was empty; `Whole` keeps the second out of the reversibility property.

*FileSearch.* `ReadChunk` may return any number of bytes, `FeedByte` is the loop
over a chunk, `fallback` and `advance` are the matcher as recursive functions.
`SearchIsExact` compares the result with `Expected`, which knows neither chunks
nor the matcher. The tree does not change during a search.

*CommandPolicy.* A command line is a sequence of symbols; the lexicon gives what
the characters of a word say of it (which options it holds, whether it has a `=`,
the option name and the value on its two sides, the value attached to a letter,
the parts between colons, its base name, its path). A word put together from
several fragments is one the tables do not have. The rules of `classify_simple_command` differ only in the reason they
give, so they are one disjunction, and a rule that an earlier one makes
unreachable (the path options of `git grep` and `git ls-files`) does not show.
A command line whose probe budget ends at a `cd` asks for approval before a
later line could be rejected; `WithinLimits` is about that. A line that is only a
comment or a line continuation has no command: alone it is malformed, after
another line it adds nothing, so the property leaves it out (`NothingToRun`).

The paths that a command names (`Named`) are its operands, the values of its long
options, and the values of the options that are known to name paths, as the code
reads these values (`OptionValue`). There is an exception, and the property
does not cover it: a word with a `=` is only ever split there
(`command_policy.rs:494`), so a path attached to the letter of a short option in
such a word (`-f` followed by a path with a `=` in it) is not read, hence not
probed and not among `Named`.

*ToolRuntime, CodingTools.* A plan is consumed by `execute_prepared` whatever
comes of it. The reason of a static policy may be blank once it is bounded, since
the code checks it before; a handler's reason is checked after. `CodingTools`
gives each behaviour one workload and runs the tool inside `execute_prepared`.

*CliSession.* The thread of the run is in the sink, in `decide_approval` or in
the runtime, never in two of them: `SinkReturned` holds the runtime until the
event it appended was rendered. The reader thread sends over a channel of one. A
line typed before the prompt is shown may answer it, as in the code; what the
property asks is that it is a whole line, used once, for a prompt shown whole.

## Runs

| Run | Instance | Shows |
|---|---|---|
| `stop_token` | 3 threads, 2 stops, 2 runs | each call is atomic; a reported stop is visible |
| `agent_runtime` | 2 turns, 5 model events, 2 call ids, 2 stops | log, effects, conversation, outcome and token agree; a stop ends the run |
| `replay_timelines` | 2 turns, calls and approvals, 9 events, sequenced or not | the fold is exactly the declarative definition; legacy mode refuses sequenced logs, extends strict replay on the others and does not mix formats |
| `run_recovery` | 2 turns, 5 model events, 1 stop | every surviving log replays; no effect is overlooked; reconcile is idempotent |
| `event_store` | 2 stores, 2 files, 2 records | implements `CanonicalLog`; durable acknowledgements survive |
| `shell_command` | 2 commands, 2 slots, 2 panics, 1 attempt | exact slots, one owner per group, true reports, no stray signal |
| `shell_command_live` | 2 commands, 1 slot, 1 panic, 1 attempt | cancelled calls return; supervised commands are reaped |
| `atomic_patch` | 1 call, 3 acts of other programs, power loss | no user content lost, target whole, true report, true recovery path |
| `coding_tools` | see below | exact reads, reversible patches, sound policy, authorised execution, bounded reasons |
| `cli_session` | 1 turn, 3 model events, 2 call ids, 2 lines, limit of 3 bytes | approved as shown, true exit code, failures and signals end it |
| `recovery_marks`, `replaced_path` | as `run_recovery`; 1 store, 2 files | the two findings below |

Why these bounds are enough to be interesting. Two turns and five events allow a
turn with two calls followed by a second turn, a duplicate call id, the turn
limit and an incomplete stream. Nine events allow a timeline with a complete
approved call and a second call in conflict with it; its first and last event may
be sequenced (`SequenceNumbers`), which makes logs of both formats and mixed
ones. Two records and two files
allow a conflict of sequence and of identity, a repair and a path that vanished
in a power loss. Two commands with two slots let the worker hold one and find
another; with one slot admission is at capacity. Three acts of other programs
allow an edit, a replacement of the recovery entry and a change of its directory
in one call. `coding_tools` takes every file content of up to three bytes over
six kinds of byte (longer ones over two), trees of three levels that pass each
budget, every patch of up to six lines over a vocabulary in which hunks can
overlap, come out of order and lie about their counts, and some 30000 command lines of
a start, two pieces and a second line, or of a program and two arguments that
spell path options in every way, over a tree with links in and out; two
runtimes prepare and execute two calls under every policy. In `cli_session` one
turn has two calls, so a second prompt can meet the input of the first, and three
bytes hold a `y` with its newline and cut a line just after `yes`. `MaxTurns`, `MaxSlots`,
`MaxPanics` and `MaxAttempts` are the code's limits (128, 64, 8, 8) made small,
and so are the constants in capitals; `MaxEvents`, `MaxLength`, `MaxRecords`,
`MaxEdits`, `MaxLines`, `MaxPlans` and `Inodes` bound what is unbounded in the
code. Symmetry is used only in runs without liveness properties. The type
invariants of `JsonlEventStore` and `ShellCommand` are stated for proofs and are
not part of a run.

Deadlock is checked except where the system may stop: a timeline at its full
length, a log after a power loss, commands that have all returned, a patch that
was reported, a workload that is done.

### Fairness

`AgentRuntime`: the run loop is a running thread (weak fairness on `Running`).
Streams, tools and approvals need not answer at all until the cancellation flag
is raised, and then they do (weak fairness on `Awaiting /\ cancellation`), as
the docs of `ModelClient`, `ToolHandler` and `RunControl` require. A stream
cannot go on for ever before that because of the bound `MaxEvents`; a stop ends
it at its next event in any case.

`ShellCommand`: callers and the worker are running threads and time passes. Of
the kernel only this is assumed: a terminal group that the worker tries to seal
again and again is sealed in the end (strong fairness on `Reap`). Nothing is
assumed about killing: `CancelledCallReturns` holds for a command that never
dies.

`CliSession`: the thread of the run goes on, and a write to the terminal succeeds
or fails; a terminal that blocks for ever is outside. The model and the tools
return once cancelled, as above. Nobody need type anything, and the stdin reader
may block for ever: the prompt polls the cancellation flag.

### Findings

* `recovery_marks`: the doc of `replay_events_for_recovery` says that tool calls
  without results are marked as recovery work; the code marks them only when the
  folded status is `Running`, so a call waiting for approval at the crash is not
  marked. No effect is overlooked, since such a call has not run.
* `replaced_path`: the doc of `create_new` says that the store keeps the created
  file's identity for its lifetime; a failed append or a repair drops the handle
  and the next append opens the path again.

## Proofs

Each theorem holds for every value of the constants under the assumptions named
in the modules:

* `StopsAssumption`, `RepliesAssumption`, `NoEndAssumption`, `IdsAssumption`:
  statuses and turns differ from the other values of their variables;
* `BoundsAssumption`, `LimitsAssumption`: the bounds on turns, model events,
  slots and panics are positive, the one on attempts is a number, call ids
  differ from the other model events;
* `StoreAssumption`, `MaxEditsAssumption`: inode numbers are positive, the bounds
  on records and on other programs' acts are numbers;
* `CliAssumption`: what is typed is text, the limit on a line is positive and the
  bound on lines a number, the stops are an interrupt and a cancellation and a
  signal is one of them;
* `ReasonLimitAssumption`: the limit on a reason holds at least the mark of a cut
  and its quotes (the code's is 8 KiB);
* `WorkloadsAssumption`: calls name tools the registry may hold, definitions have
  one of the code's policies, reasons are text;
* `PatchesAssumption`: files and patches are text, only the last symbol of a
  line of a patch is a newline, and the counts of a hunk header are numbers.
* `LexiconAssumption`, `RootAssumption`, `PolicyLimitsAssumption`,
  `CommandsAssumption`: the tables of the command policy are of the right kind
  and have the symbols a command is made of, the root of the workspace is
  canonical, the limits are numbers. `PolicyTheorem` rests on
  them; every run of the tools evaluates them.

Every inductive invariant was checked by TLC on a small instance before it was
proved, but for the one of the patches, which speaks of sequences of every length
and cannot be evaluated; the property it gives is checked.

* `RunStopTokenProofs`. `IInv` adds to the types who is inside the mutex
  (`LockOwner`), that the flag is raised exactly when a stop is set, except
  between the two writes (`FlagFollowsStatus`), and what each thread knows at
  its position (`LocalKnowledge`). It yields `StopVisibleOnReturn` and, step by
  step, the refinement `TokenIsAtomic`: the atomic operation happens when the
  flag is stored, since until then nobody else can read the status.
* `AgentRuntimeProofs`. `TypeOK` is not inductive: the turn bound and the
  tool-call index depend on `pc`. `ControlOK` says how. `ConversationInv` gives
  `ConversationIsAnswered`: between turns every assistant message is followed by
  its results, and while the calls of a turn are driven the last one is answered
  up to the current call (`TurnOpen`), which is what the property alone does not
  say and the next step needs.
  `StopInv`: the flag agrees with the latch, the token is bound while the run is
  on, and the history of stops agrees with the position of the run. Gives `NoEffectAfterStop` and `TerminalStatusIsFinal`.
  `EndInv`: the next sequence is one more than the log while the
  run is on, only a finished run has `RunFinished`, which is then last and
  durable, and a report is the next or the last event. Gives `OutcomeMatchesLog`
  and `IndeterminateIsExact`. On top of it
  `WriteAheadInv`: at each position of `drive_tool_call` the durable log already
  holds what the call needs, and every executed call other than the current one
  has its result. Gives `EffectsAreWrittenAhead` and `FinishAccountsForEffects`.
* `JsonlEventStoreProofs`. `IInv`: a store holds the lock exactly at the steps
  between `lock` and `done` (`StoreOK`), what it found there stays true until it
  returns (`ViewOK`: the record follows, or is last, or is flushed), a torn
  record has a writer (`TornOK`), and acknowledged records lie in the flushed
  prefix (`AckOK`). A store that repairs or reconciles is alone (`Recovering`), so
  what it read stays true over its separate flushes. Each step lemma shows both that the invariant is kept and
  that the step is one of `CanonicalLog` or a stutter. Gives
  `ReadersSeeWholeRecords`, `DurableAcksSurvive`, the refinement
  `ImplementsCanonicalLog` and, as an action property, `ReconcileEstablishes`.
  Since the abstract log stays contiguous and keeps its durable prefix, so does
  the file itself (`FileStaysContiguous`, `FlushedRecordsSurvive`), for any number
  of stores, files and records.
* `RunRecoveryProofs`. Replay folds a timeline of any length. Its fold is a
  recursive function; the proofs derive its two equations, and an induction rule
  over sets of numbers, from the well-foundedness of the naturals, and reason
  about one event more from there. `RecoveryInv` joins the run loop's invariant to
  the fold of its log: every prefix of the log is accepted and no lifecycle step
  is recorded twice (`LogReplays`), wherever a power loss may cut the log replay
  finds every call whose handler ran (`CutsShowEffects`), at each position of the
  run the fold knows the turn, the open call and its approval as the run does
  (`RunKnown`), and an event that a failed append left out may still follow
  (`ReportTaken`). The positions are what makes it inductive: that the next event
  is acceptable depends on where the run is, not on the log alone. Gives the four
  invariants of `run_recovery`.
  `TimelineInv` says of a timeline and both folds that they agree
  (`ReplayAgrees`): a fold that accepts is a summary of its timeline, so the
  code's early returns ask the same of the next event as the declared rules, which
  speak of the timeline only. Gives `StrictIsExact` and `LegacyExtendsStrict` for
  timelines of every length over any ids and sequence numbers.
* `CliSessionProofs`. `SessionInv` relates the thread of the run, the screen and
  the keyboard: what the sink has accepted and tried to show (`SinkOK`), that the
  events on the screen are those of the log up to a number that tells an output
  failure (`ScreenOK`), that a prompt is on the screen right under its request and
  the run waits for that request (`AskOK`), that a typed line is in one place only
  - reader, channel or one answer (`KeyboardOK`, `AnswersOK`) - and that a call
  stays approved from its answer to its handler (`ApprovalOK`). `ProcessOK` and
  `SourceOK` say when the process may end and whose stop it was. Gives
  `ApprovedAsShown` and `ExitIsTrue`.
* `ShellCommandProofs`. `IInv` says by position what a caller owns
  (`PreflightOK`, `ForegroundOK`, `EndedOK`: permit, process, registration and
  the locals agree), that the registry holds a command once (`RegistryOK`) and
  what a report entails (`ReportOK`). `SlotsOK` adds that the permits are finitely
  many, without which their number could not be compared with the counter. Gives
  `SlotsAreExact`, `EveryProcessIsOwned`, `ReportIsTrue` and `NoStraySignal` for
  any number of callers, slots, panics and attempts, any order of the queue
  included.
* `AtomicPatchProofs`. The four properties of `AtomicPatch` together, for any
  number of acts by other programs. The heart is `TableOK`, which holds of every
  name table in `past`, that is, of every one a power loss may bring back: names
  lead to files, the target is whole, and each live version is under some name.
  A rename of the call replaces nothing and an exchange loses nothing, so a new
  table keeps the promise when the old ones do; only the staged file is ever
  unsynced (`FilesOK`), so content survives with the table. `StagedOK` keeps the
  staged file away from the target until it is whole. For the report,
  `TakenSeen` and `PutSeen` say that as long as the names have not changed, what
  the exchange took and put is still in the files, or their digest tells that it
  is not: it is the digest, not the clock, that `refresh` relies on. After a power
  loss only the properties themselves are left to hold.

* `ToolRuntimeProofs`. `IInv`: no two runtimes have the same identity, because
  the counter never goes back (`RegistryOK`); a plan carries its owner's identity
  and its disposition says no more than the policy of its tool, and a plan is
  either waiting or executed, under a serial number of its own (`PlansOK`). The
  classification of a call stays opaque: whatever it answers, `ExecutedAsPrepared`
  holds, for the whole of `CodingTools` and any workload. The reason of an
  approval is followed through its bounding (`Bounds`): it fits its event, and it
  is the given reason or its longest start that fits with the mark of the cut,
  which is what `ReasonsAreBounded` asks.

  `PatchInv` adds what a patch has to bring: every plan is for a call that was
  asked for (`PlansAsked`), every closed hunk declares the counts of the lines it
  has (`Sealed`) and the open one has seen the lines it has (`Counted`), and the
  result of a call that is done is what `apply_hunks` made of its file (`PatchOK`,
  `ParseOK`). That the reverse of such a patch gives the file back rests on two
  facts about the operators. Splitting a text and joining its lines are inverse to
  each other on lines that are whole, a newline at the end of all but the last
  (`SplitIsProper`, `SplitOfProper`). And the patch and its reverse run in step
  (`Mirror`): the cursor of the reverse is at the end of what the patch has
  written, and what the reverse has written is the original up to the cursor of
  the patch; by induction on the lines of a hunk (`LinesMirror`) and on the hunks
  (`HunksMirror`). The counts are what keeps them in step: a hunk whose header
  told a count that is not its lines' would put the reverse elsewhere.
  The folds are reached through their own recursion (`FoldExists`, `FoldGrows`),
  the inductions through one over sets of sequences (`SequencesInduction`). Gives
  `PatchIsReversible`.

  The command policy is a chain of pure functions of a command line, so it needs
  no further invariant than that a plan's command was asked for, with words the
  lexicon has (`PlansAsked`, `AskedLines`); the work is in the operators. That
  an allowed command stays inside has two parts: a probe that answers "within"
  is right about where the kernel gets to, links and `..` included
  (`WithinIsInside`, `AnswerIsTrue`), and an allowed command never changes
  directory and has each operand and each option value that the code reads probed
  (`OperandsInside`, `PassStaysInside`). That two lines are judged as each of
  them is takes the parser and the budget. The parser is after the newline as it
  is at its start, but for the commands and the room it has used up (`Lifted`,
  `After`), symbol by symbol (`TwoLines`, `ParseSplits`); the newline itself is read
  as an end because the last symbol of a closed line does not take it along
  (`LastSymbol`). A pass over both lines is the pass over the first and then over
  the second, on what is left of the budget and with what was found kept
  (`PassesSplit`). What was found has been paid for (`Paid`, `Affordable`), so
  another line can only cost the second line its budget, never change an answer:
  whoever knows less and has spent less finds no less (`Below`, `Frugal`). Gives
  `PolicyIsSound`.

Only model-checked. Liveness and fairness (`StopEndsTheRun`,
`CancelledCallReturns`, `SupervisedCommandIsReaped`, `FailureEndsTheSession`) is
out of the prover's reach. `ReadsAreExact` compares pure algorithms, a matcher
with fallbacks and the cut of a file, with a reference over inputs of any length:
it would take an induction of its own over that data.

## Not modelled

* Argument parsing, the fake provider's scripts, the checks of the private state
  directory, the discovery of the Git worktree, the normalisation of paths and
  the sanitising of environments are straight-line code; where they matter they
  are a success or a failure.
* The model runtime is types, a trait and a scripted fake: its contract is the
  free choices of `AgentRuntime`'s stream actions. The platform boundary is a
  wrapper around `pre_exec`.
* Record encoding and size limits, JSON, wording, the escaping of control
  characters and ids' text are abstracted, except where a property is about
  bytes. Output capture limits and the descendant token's socket are abstracted
  to the results their callers tell apart.
* `fsync` is honest: pages lost by a failed flush that a second flush does not
  report are outside the model. Retries after a clash of names drawn from 128
  random bits are left out. A tree that changes during a search is left out: the
  code promises nothing about it.
* Between the admission check and the slot of a command another command may
  close admission; the window is in `ShellCommand`, the code promises nothing
  about it.

## What is open

Every component with state of its own is modelled and checked, and every safety
property of the runs is proved but for the pure algorithms of search and read
above, `ReadsAreExact`.
