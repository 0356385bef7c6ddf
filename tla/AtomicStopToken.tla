---------------------------- MODULE AtomicStopToken ----------------------------
(***************************************************************************)
(* What a RunStopToken shared by several threads promises: every call is   *)
(* one atomic operation on the latch, and its reply is the latch's value   *)
(* at that moment.                                                         *)
(***************************************************************************)
EXTENDS TerminalLatch

CONSTANTS Threads, Runs

VARIABLES bound_run_id,   \* the run that owns the token, {} or {run}
          reply,          \* what each thread's last bind or resolution returned
          observed        \* what each thread's last status() returned

vars == <<terminal_status, cancellation, bound_run_id, reply, observed>>

Init ==
    /\ LatchInit
    /\ bound_run_id = {}
    /\ reply = [t \in Threads |-> "Undecided"]
    /\ observed = [t \in Threads |-> "Undecided"]

Answer(t, r) == reply' = [reply EXCEPT ![t] = r]

\* A token belongs to the first run that binds it.
Bind(t, run) ==
    /\ bound_run_id' = IF bound_run_id = {} THEN {run} ELSE bound_run_id
    /\ Answer(t, IF bound_run_id = {} THEN "Bound" ELSE "AlreadyBound")
    /\ UNCHANGED <<latch, observed>>

Resolve(t, proposed) ==
    /\ ResolveTerminal(proposed)
    /\ Answer(t, Resolved(proposed))
    /\ UNCHANGED <<bound_run_id, observed>>

\* status() answers a stop or nothing: never that the run completed or failed.
ReadStatus(t) ==
    /\ observed' = [observed EXCEPT ![t] = Status]
    /\ UNCHANGED <<latch, bound_run_id, reply>>

Next ==
    \E t \in Threads :
        \/ \E run \in Runs : Bind(t, run)
        \/ \E proposed \in TerminalRunStatus : Resolve(t, proposed)
        \/ ReadStatus(t)

Spec == Init /\ [][Next]_vars

=============================================================================
