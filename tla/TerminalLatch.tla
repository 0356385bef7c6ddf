----------------------------- MODULE TerminalLatch -----------------------------
(***************************************************************************)
(* The state of a RunStopToken (agent-runtime/src/runtime.rs) and its      *)
(* operations as one atomic step each: a latch that keeps the first        *)
(* terminal status proposed for a run, and the cancellation flag that is   *)
(* raised only when that status is a stop.  RunStopToken.tla shows that    *)
(* the mutex and the atomic flag of the code implement these steps.        *)
(***************************************************************************)

CONSTANT Stops    \* Interrupted{reason} and Cancelled{reason} statuses

ASSUME StopsAssumption == Stops \cap {"Undecided", "Completed", "Failed"} = {}

VARIABLES terminal_status,   \* RunStopState.terminal_status
          cancellation       \* the AtomicBool shared with providers and tools

latch == <<terminal_status, cancellation>>

TerminalRunStatus == Stops \cup {"Completed", "Failed"}

LatchTypeOK ==
    /\ terminal_status \in TerminalRunStatus \cup {"Undecided"}
    /\ cancellation \in BOOLEAN

LatchInit ==
    /\ terminal_status = "Undecided"
    /\ cancellation = FALSE

\* Mutant: the last proposal wins.
MutantResolved(proposed) == proposed

\* What resolve_terminal(proposed) returns: the first proposal wins.
Resolved(proposed) ==
    IF terminal_status = "Undecided" THEN proposed ELSE terminal_status

\* Mutant: the status is kept but the flag is never raised.
MutantResolveTerminal(proposed) ==
    /\ terminal_status' = Resolved(proposed)
    /\ UNCHANGED cancellation

\* resolve_terminal, and interrupt/cancel, which only propose a stop.
ResolveTerminal(proposed) ==
    /\ terminal_status' = Resolved(proposed)
    /\ cancellation' = (cancellation \/ Resolved(proposed) \in Stops)

\* status(): nothing unless a stop was requested, even if the run has ended.
Status == IF cancellation THEN terminal_status ELSE "Undecided"

=============================================================================
