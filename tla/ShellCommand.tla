------------------------------ MODULE ShellCommand ------------------------------
(***************************************************************************)
(* run_shell_command (capability-coding/src/command.rs): a caller reserves *)
(* supervision, spawns the command in its own process group, reads its     *)
(* output and waits for its leader, and in the end reaps the group or      *)
(* hands it to the CommandSupervisor.  Callers run concurrently.           *)
(*                                                                         *)
(* stdout and stderr are one stream; what they carry is left out.  The     *)
(* process calls of one caller are single steps with every result the      *)
(* kernel may give, since no other thread owns the child meanwhile.        *)
(***************************************************************************)
EXTENDS CommandSupervisor

VARIABLES pc,             \* command -> where its caller is
          cancellation,   \* command -> the flag its caller was given
          observed,       \* command -> reserve_slot's view of active_slots
          local,          \* command -> the locals of the control loop
          outcome         \* command -> what its call returned

vars == <<process, permits, active_slots, ready, delayed, in_flight, worker,
          admission_health, panics, attempts, strays, pc, cancellation, observed,
          local, outcome>>

shared == <<permits, active_slots, registry, supervision>>

Fresh == [status |-> FALSE,          \* the leader was reaped
          cancelled |-> FALSE,       \* the loop saw the flag
          streams_done |-> FALSE,
          stream_error |-> FALSE,
          draining |-> "no",         \* drain_started_at: "no", "set" or "over"
          forced |-> "no",           \* forced_at, likewise
          output_incomplete |-> FALSE,
          control |-> "none"]        \* the loop's error

Init ==
    /\ SupervisorInit
    /\ pc = [c \in Commands |-> "new"]
    /\ cancellation = [c \in Commands |-> FALSE]
    /\ observed = [c \in Commands |-> 0]
    /\ local = [c \in Commands |-> Fresh]
    /\ outcome = [c \in Commands |-> "none"]

At(c, label) == pc[c] = label
Goto(c, label) == pc' = [pc EXCEPT ![c] = label] /\ UNCHANGED outcome
Return(c, result) ==
    /\ pc' = [pc EXCEPT ![c] = "returned"]
    /\ outcome' = [outcome EXCEPT ![c] = result]
Set(c, l) == local' = [local EXCEPT ![c] = l]

\* The call ends; of its locals only those behind a success are kept, for
\* ReportIsTrue.
ReturnWith(c, l, result) ==
    /\ Return(c, result)
    /\ Set(c, IF result = "Ok" THEN l ELSE Fresh)

Cancel(c) ==
    /\ ~cancellation[c] /\ ~At(c, "returned")
    /\ cancellation' = [cancellation EXCEPT ![c] = TRUE]
    /\ UNCHANGED <<process, shared, strays, pc, observed, local, outcome>>

-----------------------------------------------------------------------------
(* Preflight *)

\* The workspace, the environment and the tracking token may not be available.
Begin(c) ==
    /\ At(c, "new")
    /\ \/ cancellation[c] /\ Return(c, "Cancelled")
       \/ ~cancellation[c] /\ Return(c, "NotPrepared")
       \/ ~cancellation[c] /\ Goto(c, "worker")
    /\ UNCHANGED <<process, shared, strays, cancellation, observed, local>>

EnsureWorkerStarted(c) ==
    /\ At(c, "worker")
    /\ \/ WorkerStarted /\ Goto(c, "health")
       \/ WorkerUnavailable /\ Return(c, "SupervisorUnavailable")
    /\ UNCHANGED <<process, permits, active_slots, registry, strays, cancellation,
                   observed, local>>

EnsureAdmissionHealthy(c) ==
    /\ At(c, "health")
    /\ IF admission_health = "Degraded" THEN Return(c, "SupervisorDegraded") ELSE Goto(c, "load")
    /\ UNCHANGED <<process, shared, strays, cancellation, observed, local>>

LoadActiveSlots(c) ==
    /\ At(c, "load")
    /\ observed' = [observed EXCEPT ![c] = active_slots]
    /\ Goto(c, "reserve")
    /\ UNCHANGED <<process, shared, strays, cancellation, local>>

\* The weak compare-and-exchange may also fail when nothing changed.
ReserveSlot(c) ==
    /\ At(c, "reserve")
    /\ \/ /\ observed[c] >= MaxSlots
          /\ Return(c, "SupervisorAtCapacity")
          /\ UNCHANGED <<permits, active_slots, observed>>
       \/ /\ TakeSlot(c, observed[c])
          /\ Goto(c, "spawn")
          /\ observed' = [observed EXCEPT ![c] = 0]
       \/ /\ observed[c] < MaxSlots
          /\ observed' = [observed EXCEPT ![c] = active_slots]
          /\ Goto(c, "reserve")
          /\ UNCHANGED <<permits, active_slots>>
    /\ UNCHANGED <<process, registry, supervision, strays, cancellation, local>>

\* A child whose pipes cannot be configured goes straight to cleanup.
Spawn(c) ==
    /\ At(c, "spawn")
    /\ \/ /\ Return(c, "Spawn")
          /\ ReleaseSlot(c)
          /\ UNCHANGED <<process, local>>
       \/ /\ Leader(c, "alive")
          /\ Goto(c, "check")
          /\ UNCHANGED <<permits, active_slots, local>>
       \/ /\ Leader(c, "alive")
          /\ Set(c, [local[c] EXCEPT !.control = "ConfigureOutput"])
          /\ Goto(c, "cleanup")
          /\ UNCHANGED <<permits, active_slots>>
    /\ UNCHANGED <<registry, supervision, strays, cancellation, observed>>

-----------------------------------------------------------------------------
(* The control loop *)

\* terminate_group, wait_for_leader_terminal and seal_and_reap_terminal_group with
\* `?` after each: what they leave of the leader and the error they stop at.  A
\* seal that meets EPERM goes on.
Terminations(c) ==
    [leader : {process[c]}, error : {"Kill", "KillDenied"}]
    \cup [leader : AfterSignal(c), error : {"Wait"}]
    \cup [leader : AfterSignal(c) \cap {"alive"}, error : {"none"}]
    \cup [leader : {"exited"}, error : {"TerminationUnverified", "Kill", "ReadOutput"}]
    \cup [leader : {"reaped"}, error : {"none"}]

\* The loop ends with an error.
Break(c, l, error) ==
    /\ Set(c, [l EXCEPT !.control = error])
    /\ Goto(c, "cleanup")

\* Mutant: the loop never gives up on a command it could not kill.
MutantForced(l) == l

\* From here on the loop lasts at most OUTPUT_DRAIN_GRACE.
Forced(l) == [l EXCEPT !.forced = "set"]

CheckCancellation(c) ==
    LET seen == [local[c] EXCEPT !.cancelled = TRUE]
    IN  /\ At(c, "check")
        /\ \/ /\ ~cancellation[c] \/ local[c].cancelled
              /\ Goto(c, "observe")
              /\ UNCHANGED <<process, strays, local>>
           \/ /\ cancellation[c] /\ ~local[c].cancelled /\ local[c].status
              /\ Set(c, Forced(seen))
              /\ Goto(c, "observe")
              /\ UNCHANGED <<process, strays>>
           \/ /\ cancellation[c] /\ ~local[c].cancelled /\ ~local[c].status
              /\ Signalled(c)
              /\ \E t \in Terminations(c) :
                    /\ Leader(c, t.leader)
                    /\ IF t.error = "none"
                       THEN /\ Set(c, [Forced(seen) EXCEPT !.status = (t.leader = "reaped")])
                            /\ Goto(c, "observe")
                       ELSE Break(c, seen, t.error)
        /\ UNCHANGED <<shared, cancellation, observed>>

\* read_available_stream: the streams may reach their end, and one of them may fail.
AfterRead(l, done, failed) ==
    [l EXCEPT !.streams_done = done, !.stream_error = @ \/ failed]
Read(l) ==
    IF l.streams_done THEN {l}
    ELSE {AfterRead(l, done, failed) : done \in BOOLEAN, failed \in BOOLEAN}

\* Read the streams, then look at the leader: the group of a terminal one is
\* sealed before the leader is reaped.
Observe(c) ==
    /\ At(c, "observe")
    /\ \E l \in Read(local[c]) :
          \/ /\ l.status \/ process[c] = "alive"
             /\ Set(c, l)
             /\ Goto(c, "decide")
             /\ UNCHANGED <<process, strays>>
          \/ /\ ~l.status
             /\ Break(c, l, "Wait")
             /\ UNCHANGED <<process, strays>>
          \/ /\ ~l.status /\ process[c] = "exited"
             /\ Signalled(c)
             /\ \/ /\ Leader(c, "reaped")
                   /\ Set(c, [l EXCEPT !.status = TRUE])
                   /\ Goto(c, "decide")
                \/ \E error \in {"TerminationUnverified", "Kill", "Wait", "ReadOutput"} :
                      Break(c, l, error) /\ UNCHANGED process
    /\ UNCHANGED <<shared, cancellation, observed>>

\* Mutant: giving up on the output is not reported.
MutantStartDraining(l) ==
    IF l.forced = "no" /\ l.status
    THEN CASE l.draining = "no" -> [l EXCEPT !.draining = "set"]
           [] l.draining = "over" -> Forced(l)
           [] OTHER -> l
    ELSE [l EXCEPT !.draining = "no"]

\* Once the leader is reaped the streams have a grace to close, after which the
\* output counts as incomplete.
StartDraining(l) ==
    IF l.forced = "no" /\ l.status
    THEN CASE l.draining = "no" -> [l EXCEPT !.draining = "set"]
           [] l.draining = "over" -> [Forced(l) EXCEPT !.output_incomplete = TRUE]
           [] OTHER -> l
    ELSE [l EXCEPT !.draining = "no"]

\* Waiting for activity may fail.
Decide(c) ==
    LET l == local[c]
        done == (l.status /\ l.streams_done) \/ l.forced = "over"
    IN  /\ At(c, "decide")
        /\ \/ done /\ Goto(c, "cleanup") /\ UNCHANGED local
           \/ ~done /\ Set(c, StartDraining(l)) /\ Goto(c, "check")
           \/ ~done /\ ~l.streams_done /\ Break(c, StartDraining(l), "ReadOutput")
        /\ UNCHANGED <<process, shared, strays, cancellation, observed>>

\* OUTPUT_DRAIN_GRACE passes since one of the loop's two instants.
GraceElapses(c) ==
    LET l == local[c]
    IN  /\ pc[c] \in {"check", "observe", "decide"}
        /\ \/ l.forced = "set" /\ Set(c, [l EXCEPT !.forced = "over"])
           \/ l.draining = "set" /\ Set(c, [l EXCEPT !.draining = "over"])
        /\ UNCHANGED <<process, shared, strays, pc, cancellation, observed, outcome>>

-----------------------------------------------------------------------------
(* Cleanup *)

\* The checks that follow reconcile_control_and_cleanup once the status is known.
Verdict(l) ==
    IF l.stream_error THEN "ReadOutput"
    ELSE IF l.cancelled THEN "TerminationUnverified"
    ELSE IF l.output_incomplete THEN "OutputIncomplete"
    ELSE "Ok"

\* A loop error that the cleanup has made good: the group is sealed after all and
\* the output complete.
MadeGood(l) ==
    /\ l.streams_done
    /\ l.control = "TerminationUnverified" \/ (l.control = "KillDenied" /\ l.cancelled)

\* reconcile_control_and_cleanup when the cleanup succeeded.
Reconciled(l) == IF l.control = "none" \/ MadeGood(l) THEN Verdict(l) ELSE l.control

\* After an error of the loop drain_streams_after_reap reads what is left, which
\* may fail; a child that was never configured has nothing to drain.
Drained(l) ==
    IF l.control \in {"none", "ConfigureOutput"} THEN {l} ELSE Read(l)

AlreadyReaped(c) ==
    /\ At(c, "cleanup")
    /\ local[c].status
    /\ ReleaseSlot(c)
    /\ ReturnWith(c, local[c], Reconciled(local[c]))
    /\ UNCHANGED <<process, registry, supervision, strays, cancellation, observed>>

\* Mutant: the cleanup forgets that the leader was already reaped.
MutantTerminateAndReap(c) ==
    /\ At(c, "cleanup")
    /\ Signalled(c)
    /\ Leader(c, "reaped")
    /\ ReleaseSlot(c)
    /\ \E l \in Drained(local[c]) : ReturnWith(c, l, Reconciled(l))
    /\ UNCHANGED <<registry, supervision, cancellation, observed>>

\* The leader exits in time and its group is sealed.  A failed kill is still
\* reported, unless it was only denied; so is a failed wait for output.
TerminateAndReap(c) ==
    /\ At(c, "cleanup")
    /\ ~local[c].status
    /\ Signalled(c)
    /\ Leader(c, "reaped")
    /\ ReleaseSlot(c)
    /\ \/ ReturnWith(c, local[c], "Kill")
       \/ \E l \in Drained(local[c]) : ReturnWith(c, l, Reconciled(l))
       \/ /\ local[c].control \notin {"none", "ConfigureOutput"} /\ ~local[c].streams_done
          /\ ReturnWith(c, local[c], "ReadOutput")
    /\ UNCHANGED <<registry, supervision, cancellation, observed>>

\* The leader is alive, cannot be inspected, or its group cannot be sealed or
\* reaped: child and permit go to the registry, and the worker is told.
HandOff(c) ==
    /\ At(c, "cleanup")
    /\ ~local[c].status
    /\ Signalled(c)
    /\ \E state \in AfterSignal(c) : Leader(c, state)
    /\ Push(c)
    /\ Set(c, Fresh)
    /\ Goto(c, "notify")
    /\ UNCHANGED <<permits, active_slots, supervision, cancellation, observed>>

NotifyWorker(c) ==
    /\ At(c, "notify")
    /\ Notify
    /\ Goto(c, "supervised")
    /\ UNCHANGED <<process, permits, active_slots, registry, strays, cancellation,
                   observed, local>>

\* The worker is started again if need be; the ownership stays either way.
ReturnSupervised(c) ==
    /\ At(c, "supervised")
    /\ WorkerStarted \/ WorkerUnavailable
    /\ Return(c, "TerminationSupervised")
    /\ UNCHANGED <<process, permits, active_slots, registry, strays, cancellation,
                   observed, local>>

-----------------------------------------------------------------------------
\* The steps of a caller's own thread.
Caller(c) ==
    \/ Begin(c) \/ EnsureWorkerStarted(c) \/ EnsureAdmissionHealthy(c)
    \/ LoadActiveSlots(c) \/ ReserveSlot(c) \/ Spawn(c)
    \/ CheckCancellation(c) \/ Observe(c) \/ Decide(c)
    \/ AlreadyReaped(c) \/ TerminateAndReap(c) \/ HandOff(c)
    \/ NotifyWorker(c) \/ ReturnSupervised(c)

callers == <<pc, cancellation, observed, local, outcome>>

Next ==
    \/ SupervisorNext /\ UNCHANGED callers
    \/ \E c \in Commands : Cancel(c) \/ Caller(c) \/ GraceElapses(c)

Spec == Init /\ [][Next]_vars

\* Threads run and time passes.  Of the kernel only this is assumed: a terminal
\* group that the worker tries to seal again and again is sealed in the end.
Fairness ==
    /\ WF_vars((TakeNextDue \/ ResumeLoop) /\ UNCHANGED callers)
    /\ \A c \in Commands :
          /\ WF_vars(Caller(c))
          /\ WF_vars(GraceElapses(c))
          /\ WF_vars(BecomesDue(c) /\ UNCHANGED callers)
          /\ WF_vars((Reap(c) \/ Retry(c) \/ ProcessingPanics(c)) /\ UNCHANGED callers)
          /\ SF_vars(Reap(c) /\ UNCHANGED callers)

FairSpec == Spec /\ Fairness

-----------------------------------------------------------------------------
(* Properties *)

Errors == {"Kill", "KillDenied", "Wait", "TerminationUnverified", "ReadOutput", "ConfigureOutput"}

Outcomes == Errors \cup
    {"Ok", "Cancelled", "NotPrepared", "SupervisorUnavailable", "SupervisorDegraded",
     "SupervisorAtCapacity", "Spawn", "OutputIncomplete", "TerminationSupervised"}

\* Callers that own a spawned child.
Foreground == {c \in Commands : pc[c] \in {"check", "observe", "decide", "cleanup"}}

\* The types of the callers' and the supervisor's state; the worker processes at
\* most one command, and its termination attempts are not overdrawn.
TypeOK ==
    /\ SupervisorTypeOK
    /\ pc \in [Commands -> {"new", "worker", "health", "load", "reserve", "spawn", "check",
                            "observe", "decide", "cleanup", "notify",
                            "supervised", "returned"}]
    /\ cancellation \in [Commands -> BOOLEAN]
    /\ observed \in [Commands -> 0..MaxSlots]
    /\ local \in [Commands -> [status : BOOLEAN, cancelled : BOOLEAN,
                               streams_done : BOOLEAN, stream_error : BOOLEAN,
                               draining : {"no", "set", "over"}, forced : {"no", "set", "over"},
                               output_incomplete : BOOLEAN, control : Errors \cup {"none"}]]
    /\ outcome \in [Commands -> Outcomes \cup {"none"}]

\* However callers race for slots and the worker gives them back, the counter is
\* the number of permits in existence and admission never exceeds the limit.
SlotsAreExact == active_slots = Cardinality(permits) /\ active_slots <= MaxSlots

\* A group that is not reaped belongs to exactly one of its caller, the registry
\* and the worker, and its owner holds a permit: no panic, cancellation or
\* failed kill can leave a process nobody will reap.
EveryProcessIsOwned ==
    \A c \in Commands :
        /\ process[c] \in {"alive", "exited"} =>
              /\ c \in permits
              /\ (c \in Foreground) # (c \in Registered)
        /\ c \in Registered => process[c] \in {"alive", "exited"}
        /\ Cardinality({i \in 1..Len(ready) : ready[i] = c})
             + Cardinality({c} \cap delayed) + Cardinality({c} \cap in_flight) <= 1

\* What the model is told of a command is true: unless the error says that it is
\* still supervised, its group is gone or was never started; a success comes
\* with the complete output of a command that was not cancelled.
ReportIsTrue ==
    \A c \in Commands :
        At(c, "returned") =>
            /\ outcome[c] # "TerminationSupervised" => process[c] \in {"none", "reaped"}
            /\ outcome[c] \in {"Cancelled", "NotPrepared", "SupervisorUnavailable",
                               "SupervisorDegraded", "SupervisorAtCapacity", "Spawn"} =>
                  process[c] = "none"
            /\ outcome[c] = "Ok" =>
                  /\ process[c] = "reaped"
                  /\ local[c].streams_done /\ ~local[c].stream_error
                  /\ ~local[c].cancelled

\* No group is signalled after its leader was reaped, when its id may already be
\* that of a stranger.
NoStraySignal == strays = {}

\* A cancelled command's caller gets its answer, even if the command cannot be
\* killed and its output never closes.
CancelledCallReturns ==
    \A c \in Commands : cancellation[c] ~> At(c, "returned")

\* A command handed over is reaped once its leader is terminal, although the
\* worker may have been asleep, and panics, when the command arrived.
SupervisedCommandIsReaped ==
    \A c \in Commands : (c \in Registered /\ process[c] = "exited") ~> process[c] = "reaped"

=============================================================================
