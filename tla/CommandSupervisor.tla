--------------------------- MODULE CommandSupervisor ---------------------------
(***************************************************************************)
(* CommandSupervisor (capability-coding/src/command.rs): the process-wide  *)
(* owner of shell commands whose termination their caller could not        *)
(* confirm.  It admits commands against a bounded number of slots, and its *)
(* single worker thread retries termination until the leader's group is    *)
(* sealed and reaped.  ShellCommand.tla composes it with the callers.      *)
(***************************************************************************)
EXTENDS Naturals, Sequences, FiniteSets, SequencesExt

CONSTANTS Commands,      \* invocations of run_shell_command
          MaxSlots,      \* MAX_COMMAND_SUPERVISION_SLOTS, 64 in the code
          MaxPanics,     \* MAX_COMMAND_PROCESSING_PANICS, 8 in the code
          MaxAttempts    \* termination_attempts_remaining at first, 8 in the code

ASSUME LimitsAssumption ==
    /\ MaxSlots \in Nat \ {0}
    /\ MaxPanics \in Nat \ {0}
    /\ MaxAttempts \in Nat

VARIABLES process,       \* command -> state of its group's leader
          permits,       \* commands holding a CommandSupervisionPermit
          active_slots,
          ready,         \* registry: the due commands, by next_action
          delayed,       \* registry: the commands whose next_action is to come
          in_flight,     \* {} or {the command the worker is processing}
          worker,        \* where the worker thread is, "off" before it is spawned
          admission_health,
          panics,        \* command -> processing_panics
          attempts,      \* command -> termination_attempts_remaining
          strays         \* commands whose group was signalled after its leader was reaped

registry == <<ready, delayed, in_flight>>
supervision == <<worker, admission_health, panics, attempts>>

Registered == ToSet(ready) \cup delayed \cup in_flight

SupervisorInit ==
    /\ process = [c \in Commands |-> "none"]
    /\ permits = {}
    /\ active_slots = 0
    /\ ready = <<>>
    /\ delayed = {}
    /\ in_flight = {}
    /\ worker = "off"
    /\ admission_health = "Healthy"
    /\ panics = [c \in Commands |-> 0]
    /\ attempts = [c \in Commands |-> MaxAttempts]
    /\ strays = {}

-----------------------------------------------------------------------------
(* The process group, as the kernel shows it *)

Leader(c, state) == process' = [process EXCEPT ![c] = state]

\* A signalled leader may take its time to exit.
AfterSignal(c) == IF process[c] = "alive" THEN {"alive", "exited"} ELSE {process[c]}

\* The pid of a reaped leader may belong to an unrelated group.
Signalled(c) == strays' = IF process[c] = "reaped" THEN strays \cup {c} ELSE strays

\* The foreground command ends by itself.
Exit(c) ==
    /\ process[c] = "alive"
    /\ Leader(c, "exited")
    /\ UNCHANGED <<permits, active_slots, registry, supervision, strays>>

-----------------------------------------------------------------------------
(* Admission: what prepare_command_supervision does for a caller *)

\* ensure_worker_started: spawning the worker thread may fail.
WorkerStarted ==
    /\ worker' = IF worker = "off" THEN "scan" ELSE worker
    /\ UNCHANGED <<admission_health, panics, attempts>>

WorkerUnavailable == worker = "off" /\ UNCHANGED supervision

\* Mutant: the counter is stored back without looking at it again.
MutantTakeSlot(c, active) ==
    /\ active < MaxSlots
    /\ active_slots' = active + 1
    /\ permits' = permits \cup {c}

\* reserve_slot: the compare-and-exchange succeeds.
TakeSlot(c, active) ==
    /\ active < MaxSlots
    /\ active_slots = active
    /\ active_slots' = active + 1
    /\ permits' = permits \cup {c}

\* The permit is dropped.
ReleaseSlot(c) ==
    /\ active_slots' = active_slots - 1
    /\ permits' = permits \ {c}

\* enqueue: the command is due at once.
Push(c) ==
    /\ ready' = Append(ready, c)
    /\ UNCHANGED <<delayed, in_flight>>

\* Mutant: nobody tells the sleeping worker.
MutantNotify == UNCHANGED supervision

\* wake.notify_one: only the worker ever waits on the condition variable.
Notify ==
    /\ worker' = IF worker \in {"asleep", "dozing"} THEN "scan" ELSE worker
    /\ UNCHANGED <<admission_health, panics, attempts>>

-----------------------------------------------------------------------------
(* The worker *)

\* take_next_due_command, under the registry lock: pop the due command with the
\* earliest next_action, or release the lock and wait, with a timeout if
\* something is queued.
TakeNextDue ==
    /\ worker = "scan"
    /\ IF ready # <<>>
       THEN /\ in_flight' = {Head(ready)}
            /\ ready' = Tail(ready)
            /\ worker' = "busy"
       ELSE /\ worker' = IF delayed = {} THEN "asleep" ELSE "dozing"
            /\ UNCHANGED <<ready, in_flight>>
    /\ UNCHANGED <<process, permits, active_slots, delayed, admission_health,
                   panics, attempts, strays>>

\* A command becomes due; a worker waiting for it times out.
BecomesDue(c) ==
    /\ c \in delayed
    /\ delayed' = delayed \ {c}
    /\ ready' = Append(ready, c)
    /\ worker' = IF worker = "dozing" THEN "scan" ELSE worker
    /\ UNCHANGED <<process, permits, active_slots, in_flight, admission_health,
                   panics, attempts, strays>>

Requeue(c) ==
    /\ in_flight' = {}
    /\ delayed' = delayed \cup {c}
    /\ UNCHANGED ready

\* supervise_command_once finds the leader terminal, seals its group and reaps it:
\* the command is dropped with its permit and its counts.
Reap(c) ==
    /\ c \in in_flight
    /\ process[c] = "exited"
    /\ Leader(c, "reaped")
    /\ Signalled(c)
    /\ in_flight' = {}
    /\ ReleaseSlot(c)
    /\ worker' = "scan"
    /\ panics' = [panics EXCEPT ![c] = 0]
    /\ attempts' = [attempts EXCEPT ![c] = MaxAttempts]
    /\ UNCHANGED <<ready, delayed, admission_health>>

\* supervise_command_once keeps the command: the group cannot be sealed or reaped
\* yet, or the leader is not known to be terminal; in the second case the
\* remaining termination attempts are used up first.
Retry(c) ==
    /\ c \in in_flight
    /\ \/ /\ process[c] = "exited"
          /\ Signalled(c)
          /\ UNCHANGED <<process, attempts>>
       \/ /\ attempts[c] > 0
          /\ \E state \in AfterSignal(c) : Leader(c, state)
          /\ Signalled(c)
          /\ attempts' = [attempts EXCEPT ![c] = @ - 1]
       \/ /\ attempts[c] = 0
          /\ UNCHANGED <<process, attempts, strays>>
    /\ panics' = [panics EXCEPT ![c] = 0]
    /\ Requeue(c)
    /\ worker' = "scan"
    /\ UNCHANGED <<permits, active_slots, admission_health>>

\* Mutant: the unwinding worker drops the command it was processing.
MutantProcessingPanics(c) ==
    /\ c \in in_flight
    /\ in_flight' = {}
    /\ worker' = "backoff"
    /\ ReleaseSlot(c)
    /\ UNCHANGED <<process, ready, delayed, admission_health, panics, attempts, strays>>

\* A panic unwinds through InFlightCommand, which requeues the command; too many
\* in a row close admission for good.  Counts beyond MaxPanics are not told apart.
ProcessingPanics(c) ==
    LET count == IF panics[c] < MaxPanics THEN panics[c] + 1 ELSE MaxPanics
    IN  /\ c \in in_flight
        /\ panics' = [panics EXCEPT ![c] = count]
        /\ admission_health' = IF count >= MaxPanics THEN "Degraded" ELSE admission_health
        /\ Requeue(c)
        /\ worker' = "backoff"
        /\ UNCHANGED <<process, permits, active_slots, attempts, strays>>

\* command_supervisor_worker catches the panic and enters the loop again.
ResumeLoop ==
    /\ worker = "backoff"
    /\ worker' = "scan"
    /\ UNCHANGED <<process, permits, active_slots, registry, admission_health,
                   panics, attempts, strays>>

SupervisorNext ==
    \/ TakeNextDue \/ ResumeLoop
    \/ \E c \in Commands :
          Exit(c) \/ BecomesDue(c) \/ Reap(c) \/ Retry(c) \/ ProcessingPanics(c)

SupervisorTypeOK ==
    /\ process \in [Commands -> {"none", "alive", "exited", "reaped"}]
    /\ permits \subseteq Commands
    /\ active_slots \in 0..MaxSlots
    /\ ready \in Seq(Commands)
    /\ delayed \subseteq Commands
    /\ in_flight \in {{}} \cup {{c} : c \in Commands}
    /\ worker \in {"off", "scan", "asleep", "dozing", "busy", "backoff"}
    /\ admission_health \in {"Healthy", "Degraded"}
    /\ panics \in [Commands -> 0..MaxPanics]
    /\ attempts \in [Commands -> 0..MaxAttempts]
    /\ strays \subseteq Commands

=============================================================================
