------------------------------ MODULE RunStopToken ------------------------------
(***************************************************************************)
(* RunStopToken as the code implements it: resolve_terminal runs under the *)
(* state mutex and stores the flag after the status; status() loads the    *)
(* flag before it takes the mutex.  Several threads (the run loop, signal  *)
(* handlers, the terminal renderer) call it concurrently.                  *)
(***************************************************************************)
EXTENDS TerminalLatch

CONSTANTS Threads, Runs

ASSUME RepliesAssumption == Stops \cap {"Bound", "AlreadyBound"} = {}

VARIABLES bound_run_id,
          mutex,       \* {} or {the thread holding RunStopState's lock}
          pc,          \* where each thread is inside its call
          proposed,    \* each thread's argument of resolve_terminal
          reply,       \* what each thread's last bind or resolution returned
          observed     \* what each thread's last status() returned

vars == <<terminal_status, cancellation, bound_run_id, mutex, pc, proposed, reply,
          observed>>

\* The types of the token's state; at most one thread is inside the mutex.
TypeOK ==
    /\ LatchTypeOK
    /\ bound_run_id \in SUBSET Runs
    /\ mutex \in {{}} \cup {{t} : t \in Threads}
    /\ pc \in [Threads -> {"idle", "lock", "choose", "store", "return", "read"}]
    /\ proposed \in [Threads -> TerminalRunStatus \cup {"Undecided"}]
    /\ reply \in [Threads -> TerminalRunStatus \cup {"Undecided", "Bound", "AlreadyBound"}]
    /\ observed \in [Threads -> TerminalRunStatus \cup {"Undecided"}]

Init ==
    /\ LatchInit
    /\ bound_run_id = {}
    /\ mutex = {}
    /\ pc = [t \in Threads |-> "idle"]
    /\ proposed = [t \in Threads |-> "Undecided"]
    /\ reply = [t \in Threads |-> "Undecided"]
    /\ observed = [t \in Threads |-> "Undecided"]

Goto(t, label) == pc' = [pc EXCEPT ![t] = label]

\* bind: one critical section.
Bind(t, run) ==
    /\ pc[t] = "idle"
    /\ mutex = {}
    /\ bound_run_id' = IF bound_run_id = {} THEN {run} ELSE bound_run_id
    /\ reply' = [reply EXCEPT ![t] = IF bound_run_id = {} THEN "Bound" ELSE "AlreadyBound"]
    /\ UNCHANGED <<latch, mutex, pc, proposed, observed>>

\* interrupt, cancel and finish enter resolve_terminal with their proposal.
CallResolve(t, p) ==
    /\ pc[t] = "idle"
    /\ proposed' = [proposed EXCEPT ![t] = p]
    /\ Goto(t, "lock")
    /\ UNCHANGED <<latch, bound_run_id, mutex, reply, observed>>

\* Mutant: the critical section is entered without waiting for the lock.
MutantLock(t) ==
    /\ pc[t] = "lock"
    /\ mutex' = mutex \cup {t}
    /\ Goto(t, "choose")
    /\ UNCHANGED <<latch, bound_run_id, proposed, reply, observed>>

Lock(t) ==
    /\ pc[t] = "lock"
    /\ mutex = {}
    /\ mutex' = mutex \cup {t}
    /\ Goto(t, "choose")
    /\ UNCHANGED <<latch, bound_run_id, proposed, reply, observed>>

\* Mutant: a stop is recorded without raising the flag.
MutantChoose(t) ==
    /\ pc[t] = "choose"
    /\ terminal_status' = Resolved(proposed[t])
    /\ Goto(t, "return")
    /\ UNCHANGED <<cancellation, bound_run_id, mutex, proposed, reply, observed>>

\* Keep the first status; a stop still has to raise the flag.
Choose(t) ==
    /\ pc[t] = "choose"
    /\ terminal_status' = Resolved(proposed[t])
    /\ Goto(t, IF terminal_status = "Undecided" /\ proposed[t] \in Stops
               THEN "store" ELSE "return")
    /\ UNCHANGED <<cancellation, bound_run_id, mutex, proposed, reply, observed>>

StoreFlag(t) ==
    /\ pc[t] = "store"
    /\ cancellation' = TRUE
    /\ Goto(t, "return")
    /\ UNCHANGED <<terminal_status, bound_run_id, mutex, proposed, reply, observed>>

\* The status is cloned under the lock, which the return releases.
Return(t) ==
    /\ pc[t] = "return"
    /\ reply' = [reply EXCEPT ![t] = terminal_status]
    /\ mutex' = {}
    /\ Goto(t, "idle")
    /\ UNCHANGED <<latch, bound_run_id, proposed, observed>>

\* Mutant: status() without the flag check answers any terminal status.
MutantLoadFlag(t) ==
    /\ pc[t] = "idle"
    /\ Goto(t, "read")
    /\ UNCHANGED <<latch, bound_run_id, mutex, proposed, reply, observed>>

\* status(): the flag is read without the lock.
LoadFlag(t) ==
    /\ pc[t] = "idle"
    /\ \/ /\ ~cancellation
          /\ observed' = [observed EXCEPT ![t] = "Undecided"]
          /\ UNCHANGED pc
       \/ /\ cancellation
          /\ Goto(t, "read")
          /\ UNCHANGED observed
    /\ UNCHANGED <<latch, bound_run_id, mutex, proposed, reply>>

\* terminal_status(), called by status() once the flag was seen.
ReadTerminalStatus(t) ==
    /\ pc[t] = "read"
    /\ mutex = {}
    /\ observed' = [observed EXCEPT ![t] = terminal_status]
    /\ Goto(t, "idle")
    /\ UNCHANGED <<latch, bound_run_id, mutex, proposed, reply>>

Next ==
    \E t \in Threads :
        \/ \E run \in Runs : Bind(t, run)
        \/ \E p \in TerminalRunStatus : CallResolve(t, p)
        \/ Lock(t) \/ Choose(t) \/ StoreFlag(t) \/ Return(t)
        \/ LoadFlag(t) \/ ReadTerminalStatus(t)

Spec == Init /\ [][Next]_vars

-----------------------------------------------------------------------------
\* A status that is set while its flag is not is invisible to every other
\* thread: they need the lock to read it.  The atomic operation therefore
\* happens when the flag is stored, and its reply exists from then on.
VisibleStatus ==
    IF \E t \in Threads : pc[t] = "store" THEN "Undecided" ELSE terminal_status

VisibleReply ==
    [t \in Threads |-> IF pc[t] = "return" THEN terminal_status ELSE reply[t]]

Atomic == INSTANCE AtomicStopToken WITH
    terminal_status <- VisibleStatus, reply <- VisibleReply

\* Whatever the interleaving of the mutex, the two writes of resolve_terminal
\* and the unlocked flag load of status(), every call behaves as if it were
\* one atomic step on the latch.
TokenIsAtomic == Atomic!Spec

\* interrupt() and cancel() return only when the stop they lost or won to is
\* visible: a thread that was told a stop status can rely on the flag.
StopVisibleOnReturn ==
    \A t \in Threads : reply[t] \in Stops \/ observed[t] \in Stops => cancellation

=============================================================================
