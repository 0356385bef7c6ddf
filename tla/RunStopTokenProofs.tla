--------------------------- MODULE RunStopTokenProofs ---------------------------
(***************************************************************************)
(* RunStopToken for any number of threads, runs and stop reasons.          *)
(***************************************************************************)
EXTENDS RunStopToken, TLAPS

Critical == {"choose", "store", "return"}

\* Exactly the thread inside the critical section holds the lock.
LockOwner == \A t \in Threads : pc[t] \in Critical <=> mutex = {t}

\* The flag is up exactly when a stop was kept, except between the two writes of
\* the thread that is about to raise it.
FlagFollowsStatus ==
    /\ cancellation => terminal_status \in Stops
    /\ terminal_status \in Stops => cancellation \/ \E t \in Threads : pc[t] = "store"
    /\ \A t \in Threads : pc[t] = "store" => terminal_status \in Stops /\ ~cancellation

\* What a thread knows at each point of its call.
LocalKnowledge ==
    \A t \in Threads :
        /\ pc[t] \in {"lock", "choose"} => proposed[t] \in TerminalRunStatus
        /\ pc[t] = "store" => terminal_status = proposed[t]
        /\ pc[t] = "read" => cancellation

IInv ==
    /\ TypeOK
    /\ LockOwner
    /\ FlagFollowsStatus
    /\ LocalKnowledge
    /\ StopVisibleOnReturn

\* The token starts with no thread inside a call, no status and the flag down.
LEMMA InitEstablishes == Init => IInv
<1> SUFFICES ASSUME Init PROVE IInv
    OBVIOUS
<1> USE DEF Init, LatchInit
<1>1. TypeOK
    BY DEF TypeOK, LatchTypeOK
<1>2. LockOwner
    BY DEF LockOwner, Critical
<1>3. FlagFollowsStatus
    BY StopsAssumption DEF FlagFollowsStatus
<1>4. LocalKnowledge
    BY DEF LocalKnowledge
<1>5. StopVisibleOnReturn
    BY StopsAssumption DEF StopVisibleOnReturn
<1> QED
    BY <1>1, <1>2, <1>3, <1>4, <1>5 DEF IInv

\* Every step of every call keeps the invariant.
LEMMA NextPreserves == IInv /\ [Next]_vars => IInv'
<1> SUFFICES ASSUME IInv, [Next]_vars PROVE IInv'
    OBVIOUS
<1> USE StopsAssumption, RepliesAssumption
    DEF IInv, TypeOK, LatchTypeOK, LockOwner, Critical, FlagFollowsStatus, LocalKnowledge,
        StopVisibleOnReturn, TerminalRunStatus, latch, Goto, Resolved
<1>1. ASSUME NEW t \in Threads, NEW run \in Runs, Bind(t, run) PROVE IInv'
    BY <1>1 DEF Bind
<1>2. ASSUME NEW t \in Threads, NEW p \in TerminalRunStatus, CallResolve(t, p) PROVE IInv'
    BY <1>2 DEF CallResolve
<1>3. ASSUME NEW t \in Threads, Lock(t) PROVE IInv'
    BY <1>3 DEF Lock
<1>4. ASSUME NEW t \in Threads, Choose(t) PROVE IInv'
    BY <1>4 DEF Choose
<1>5. ASSUME NEW t \in Threads, StoreFlag(t) PROVE IInv'
    BY <1>5 DEF StoreFlag
<1>6. ASSUME NEW t \in Threads, Return(t) PROVE IInv'
    BY <1>6 DEF Return
<1>7. ASSUME NEW t \in Threads, LoadFlag(t) PROVE IInv'
    BY <1>7 DEF LoadFlag
<1>8. ASSUME NEW t \in Threads, ReadTerminalStatus(t) PROVE IInv'
    BY <1>8 DEF ReadTerminalStatus
<1>9. CASE UNCHANGED vars
    BY <1>9 DEF vars
<1> QED
    BY <1>1, <1>2, <1>3, <1>4, <1>5, <1>6, <1>7, <1>8, <1>9 DEF Next

\* The invariant holds in every reachable state.
LEMMA Invariance == Spec => []IInv
<1> QED
    BY InitEstablishes, NextPreserves, PTL DEF Spec

\* The token's state keeps its shape; in particular at most one thread is ever
\* inside the critical section of resolve_terminal.
THEOREM TypeCorrect == Spec => []TypeOK
<1>1. IInv => TypeOK
    BY DEF IInv
<1> QED
    BY <1>1, Invariance, PTL

\* A thread that interrupt, cancel, finish or status() told a stop status finds
\* the cancellation flag raised.
THEOREM StopIsVisible == Spec => []StopVisibleOnReturn
<1>1. IInv => StopVisibleOnReturn
    BY DEF IInv
<1> QED
    BY <1>1, Invariance, PTL

-----------------------------------------------------------------------------
(* The refinement: StoreFlag, and Choose when nothing remains to be stored, *)
(* are the atomic Resolve; Return, Lock and the call itself are stutters.   *)

\* The initial state of the code maps to the initial atomic latch.
LEMMA InitRefines == Init => Atomic!Init
<1> SUFFICES ASSUME Init PROVE Atomic!Init
    OBVIOUS
<1>1. VisibleStatus = "Undecided"
    BY DEF Init, LatchInit, VisibleStatus
<1>2. VisibleReply = [t \in Threads |-> "Undecided"]
    BY DEF Init, VisibleReply
<1> QED
    BY <1>1, <1>2 DEF Init, LatchInit, Atomic!Init, Atomic!LatchInit

\* No thread is between the two writes while another holds the lock or while
\* the lock is free.
LEMMA StatusIsVisible ==
    ASSUME IInv, NEW t \in Threads, pc[t] \in {"choose", "return"} \/ mutex = {}
    PROVE  VisibleStatus = terminal_status
<1>1. \A u \in Threads : pc[u] # "store"
    <2> SUFFICES ASSUME NEW u \in Threads, pc[u] = "store" PROVE FALSE
        OBVIOUS
    <2>1. mutex = {u}
        BY DEF IInv, LockOwner, Critical
    <2> QED
        BY <2>1 DEF IInv, LockOwner, Critical
<1> QED
    BY <1>1 DEF VisibleStatus

\* Every step of a call maps to one atomic operation, or to none.
LEMMA StepRefines ==
    IInv /\ IInv' /\ [Next]_vars => [Atomic!Next]_(Atomic!vars)
<1> SUFFICES ASSUME IInv, IInv', [Next]_vars PROVE [Atomic!Next]_(Atomic!vars)
    OBVIOUS
<1> DEFINE Stutter == UNCHANGED <<VisibleStatus, cancellation, bound_run_id, VisibleReply, observed>>
<1>0. Stutter => UNCHANGED Atomic!vars
    BY DEF Atomic!vars
<1>1. ASSUME NEW t \in Threads, NEW run \in Runs, Bind(t, run) PROVE Atomic!Bind(t, run)
    <2>1. UNCHANGED VisibleStatus
        BY <1>1 DEF Bind, VisibleStatus, latch
    <2>2. VisibleReply' = [VisibleReply EXCEPT ![t] =
              IF bound_run_id = {} THEN "Bound" ELSE "AlreadyBound"]
        BY <1>1 DEF Bind, VisibleReply, latch, IInv, TypeOK
    <2> QED
        BY <1>1, <2>1, <2>2 DEF Bind, latch, Atomic!Bind, Atomic!Answer, Atomic!latch
<1>2. ASSUME NEW t \in Threads, NEW p \in TerminalRunStatus, CallResolve(t, p) PROVE Stutter
    BY <1>2 DEF CallResolve, Goto, latch, VisibleStatus, VisibleReply, IInv, TypeOK
<1>3. ASSUME NEW t \in Threads, Lock(t) PROVE Stutter
    BY <1>3 DEF Lock, Goto, latch, VisibleStatus, VisibleReply, IInv, TypeOK
<1>4. ASSUME NEW t \in Threads, Choose(t), pc'[t] = "store" PROVE Stutter
    <2>1. VisibleStatus = "Undecided"
        BY <1>4, StatusIsVisible, StopsAssumption DEF Choose, Goto, IInv, TypeOK
    <2>2. VisibleStatus' = "Undecided"
        BY <1>4 DEF VisibleStatus
    <2>3. UNCHANGED VisibleReply
        <3>1. \A u \in Threads \ {t} : pc[u] # "return" /\ pc'[u] # "return"
            BY <1>4 DEF Choose, Goto, IInv, LockOwner, Critical, TypeOK
        <3> QED
            BY <1>4, <3>1 DEF Choose, VisibleReply
    <2> QED
        BY <1>4, <2>1, <2>2, <2>3 DEF Choose
<1>5. ASSUME NEW t \in Threads, Choose(t), pc'[t] # "store" PROVE Atomic!Resolve(t, proposed[t])
    <2>1. VisibleStatus = terminal_status
        BY <1>5, StatusIsVisible DEF Choose
    <2>2. VisibleStatus' = terminal_status'
        <3>1. \A u \in Threads : pc'[u] # "store"
            BY <1>5 DEF Choose, Goto, IInv, LockOwner, Critical, TypeOK
        <3> QED
            BY <3>1 DEF VisibleStatus
    <2>3. VisibleReply' = [VisibleReply EXCEPT ![t] = terminal_status']
        <3>1. \A u \in Threads \ {t} : pc[u] # "return" /\ pc'[u] # "return"
            BY <1>5 DEF Choose, Goto, IInv, LockOwner, Critical, TypeOK
        <3>2. pc'[t] = "return"
            BY <1>5 DEF Choose, Goto, IInv, TypeOK
        <3> QED
            BY <1>5, <3>1, <3>2 DEF Choose, VisibleReply
    <2>4. cancellation' = (cancellation \/ terminal_status' \in Stops)
        <3>1. terminal_status' \in Stops => cancellation
            BY <1>5, <2>2 DEF Choose, Goto, Resolved, IInv, FlagFollowsStatus, LockOwner, Critical, TypeOK
        <3> QED
            BY <1>5, <3>1 DEF Choose, IInv, TypeOK, LatchTypeOK
    <2> QED
        BY <1>5, <2>1, <2>2, <2>3, <2>4
        DEF Choose, Resolved, Atomic!Resolve, Atomic!ResolveTerminal, Atomic!Resolved, Atomic!Answer
<1>6. ASSUME NEW t \in Threads, StoreFlag(t) PROVE Atomic!Resolve(t, proposed[t])
    <2>1. VisibleStatus = "Undecided"
        BY <1>6 DEF StoreFlag, VisibleStatus
    <2>2. VisibleStatus' = terminal_status
        <3>1. \A u \in Threads : pc'[u] # "store"
            BY <1>6 DEF StoreFlag, Goto, IInv, LockOwner, Critical, TypeOK
        <3> QED
            BY <1>6, <3>1 DEF StoreFlag, VisibleStatus
    <2>3. terminal_status = proposed[t] /\ terminal_status \in Stops
        BY <1>6 DEF StoreFlag, IInv, LocalKnowledge, FlagFollowsStatus
    <2>4. VisibleReply' = [VisibleReply EXCEPT ![t] = terminal_status]
        <3>1. \A u \in Threads \ {t} : pc[u] # "return" /\ pc'[u] # "return"
            BY <1>6 DEF StoreFlag, Goto, IInv, LockOwner, Critical, TypeOK
        <3>2. pc'[t] = "return"
            BY <1>6 DEF StoreFlag, Goto, IInv, TypeOK
        <3> QED
            BY <1>6, <3>1, <3>2 DEF StoreFlag, VisibleReply
    <2> QED
        BY <1>6, <2>1, <2>2, <2>3, <2>4
        DEF StoreFlag, Atomic!Resolve, Atomic!ResolveTerminal, Atomic!Resolved, Atomic!Answer
<1>7. ASSUME NEW t \in Threads, Return(t) PROVE Stutter
    <2>1. UNCHANGED VisibleStatus
        BY <1>7 DEF Return, Goto, latch, VisibleStatus, IInv, TypeOK
    <2>2. UNCHANGED VisibleReply
        BY <1>7 DEF Return, Goto, latch, VisibleReply, IInv, TypeOK
    <2> QED
        BY <1>7, <2>1, <2>2 DEF Return, latch
<1>8. ASSUME NEW t \in Threads, LoadFlag(t), ~cancellation PROVE Atomic!ReadStatus(t)
    <2>1. UNCHANGED VisibleStatus
        BY <1>8 DEF LoadFlag, latch, VisibleStatus
    <2>2. UNCHANGED VisibleReply
        BY <1>8 DEF LoadFlag, latch, VisibleReply, IInv, TypeOK
    <2> QED
        BY <1>8, <2>1, <2>2
        DEF LoadFlag, latch, Atomic!ReadStatus, Atomic!Status, Atomic!latch
<1>9. ASSUME NEW t \in Threads, LoadFlag(t), cancellation PROVE Stutter
    BY <1>9 DEF LoadFlag, Goto, latch, VisibleStatus, VisibleReply, IInv, TypeOK
<1>10. ASSUME NEW t \in Threads, ReadTerminalStatus(t) PROVE Atomic!ReadStatus(t)
    <2>1. VisibleStatus = terminal_status
        BY <1>10, StatusIsVisible DEF ReadTerminalStatus
    <2>2. UNCHANGED VisibleStatus
        BY <1>10 DEF ReadTerminalStatus, Goto, latch, VisibleStatus, IInv, TypeOK
    <2>3. UNCHANGED VisibleReply
        BY <1>10 DEF ReadTerminalStatus, Goto, latch, VisibleReply, IInv, TypeOK
    <2>4. cancellation
        BY <1>10 DEF ReadTerminalStatus, IInv, LocalKnowledge
    <2> QED
        BY <1>10, <2>1, <2>2, <2>3, <2>4
        DEF ReadTerminalStatus, latch, Atomic!ReadStatus, Atomic!Status, Atomic!latch
<1>11. CASE UNCHANGED vars
    BY <1>0, <1>11 DEF vars, VisibleStatus, VisibleReply
<1> HIDE DEF Stutter
<1>12. ASSUME NEW t \in Threads, Choose(t) PROVE [Atomic!Next]_(Atomic!vars)
    <2>1. proposed[t] \in TerminalRunStatus
        BY <1>12 DEF Choose, IInv, LocalKnowledge
    <2> QED
        BY <1>0, <1>4, <1>5, <1>12, <2>1 DEF Atomic!Next, TerminalRunStatus, Atomic!TerminalRunStatus
<1>13. ASSUME NEW t \in Threads, StoreFlag(t) PROVE Atomic!Next
    <2>1. proposed[t] \in TerminalRunStatus
        BY <1>13 DEF StoreFlag, IInv, LocalKnowledge, FlagFollowsStatus, TerminalRunStatus
    <2> QED
        BY <1>6, <1>13, <2>1 DEF Atomic!Next, TerminalRunStatus, Atomic!TerminalRunStatus
<1>14. ASSUME NEW t \in Threads, LoadFlag(t) PROVE [Atomic!Next]_(Atomic!vars)
    BY <1>0, <1>8, <1>9, <1>14 DEF Atomic!Next
<1> QED
    BY <1>0, <1>1, <1>2, <1>3, <1>7, <1>10, <1>11, <1>12, <1>13, <1>14 DEF Next, Atomic!Next

\* Every call on the token, whatever the interleaving, behaves as one atomic step
\* on the latch: TerminalLatch, which the model of the run loop uses, is what the
\* mutex and the flag implement.
THEOREM AtomicityIsImplemented == Spec => TokenIsAtomic
<1> QED
    BY InitRefines, StepRefines, Invariance, PTL DEF Spec, TokenIsAtomic, Atomic!Spec

=============================================================================
