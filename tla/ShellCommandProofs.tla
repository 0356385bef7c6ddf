--------------------------- MODULE ShellCommandProofs ---------------------------
(***************************************************************************)
(* Slots, ownership, reports and signals of shell commands, for any number *)
(* of callers, slots, panics and attempts.                                 *)
(***************************************************************************)
EXTENDS ShellCommand, FiniteSetTheorems, SequenceTheorems, TLAPS

-----------------------------------------------------------------------------
(* The inductive invariant *)

\* A permit per slot in use, and finitely many of them.
SlotsOK == IsFiniteSet(permits) /\ SlotsAreExact

\* The registry holds a command once, and the worker is busy with the one it took.
RegistryOK ==
    /\ \A i, j \in 1..Len(ready) : ready[i] = ready[j] => i = j
    /\ \A i \in 1..Len(ready) : ready[i] \notin delayed /\ ready[i] \notin in_flight
    /\ delayed \cap in_flight = {}
    /\ in_flight # {} => worker = "busy"

\* Before its child is spawned a caller has no process and fresh locals; it has a
\* permit from the moment it reserved one.
PreflightOK(c) ==
    pc[c] \in {"new", "worker", "health", "load", "reserve", "spawn"} =>
        /\ process[c] = "none"
        /\ c \notin Registered
        /\ c \in permits <=> pc[c] = "spawn"
        /\ local[c] = Fresh

\* While it owns its child a caller knows whether it reaped it, and why the loop
\* that must end soon was forced.
ForegroundOK(c) ==
    c \in Foreground =>
        /\ process[c] # "none"
        /\ c \notin Registered
        /\ c \in permits
        /\ local[c].status <=> process[c] = "reaped"
        /\ local[c].forced # "no" => local[c].cancelled \/ local[c].output_incomplete
        /\ pc[c] # "cleanup" => local[c].control = "none"
        /\ pc[c] = "cleanup" /\ local[c].control = "none" =>
              local[c].streams_done \/ local[c].forced = "over"

\* Afterwards the registry owns the child as long as it lives.
EndedOK(c) ==
    pc[c] \in {"notify", "supervised", "returned"} =>
        /\ c \in Registered <=> process[c] \in {"alive", "exited"}
        /\ c \in permits <=> c \in Registered

ReportOK(c) ==
    /\ pc[c] \in {"notify", "supervised"} => process[c] # "none"
    /\ pc[c] = "returned" =>
        /\ outcome[c] # "TerminationSupervised" => process[c] \in {"none", "reaped"}
        /\ outcome[c] \in {"Cancelled", "NotPrepared", "SupervisorUnavailable",
                           "SupervisorDegraded", "SupervisorAtCapacity", "Spawn"} =>
              process[c] = "none"
        /\ outcome[c] = "Ok" =>
              /\ process[c] = "reaped"
              /\ local[c].streams_done /\ ~local[c].stream_error
              /\ ~local[c].cancelled

CommandOK(c) == PreflightOK(c) /\ ForegroundOK(c) /\ EndedOK(c) /\ ReportOK(c)

IInv ==
    /\ TypeOK
    /\ SlotsOK
    /\ RegistryOK
    /\ \A c \in Commands : CommandOK(c)
    /\ NoStraySignal

Locals == [status : BOOLEAN, cancelled : BOOLEAN, streams_done : BOOLEAN, stream_error : BOOLEAN,
           draining : {"no", "set", "over"}, forced : {"no", "set", "over"},
           output_incomplete : BOOLEAN, control : Errors \cup {"none"}]

-----------------------------------------------------------------------------
(* Lemmas *)

\* What a command's part of the invariant depends on: a step that leaves these
\* alone for c keeps it.
LEMMA Frame ==
    ASSUME NEW c \in Commands, CommandOK(c),
           pc'[c] = pc[c], process'[c] = process[c], local'[c] = local[c],
           outcome'[c] = outcome[c],
           c \in permits' <=> c \in permits,
           c \in Registered' <=> c \in Registered
    PROVE  CommandOK(c)'
    BY DEF CommandOK, PreflightOK, ForegroundOK, EndedOK, ReportOK, Foreground

\* A step that leaves the registry to itself.
LEMMA QuietRegistry ==
    ASSUME RegistryOK, UNCHANGED registry, worker = "busy" => worker' = "busy"
    PROVE  RegistryOK' /\ Registered' = Registered
    BY DEF RegistryOK, Registered, registry

\* Taking and dropping a permit.
LEMMA PermitTaken ==
    ASSUME TypeOK, SlotsOK, NEW c \in Commands, c \notin permits, TakeSlot(c, active_slots)
    PROVE  /\ SlotsOK' /\ permits' \subseteq Commands /\ active_slots' \in 0..MaxSlots
           /\ \A d \in Commands : d # c => (d \in permits' <=> d \in permits)
           /\ c \in permits'
<1>1. IsFiniteSet(permits') /\ Cardinality(permits') = Cardinality(permits) + 1
    BY FS_AddElement DEF SlotsOK, TakeSlot
<1> QED
    BY <1>1, LimitsAssumption DEF TypeOK, SupervisorTypeOK, SlotsOK, SlotsAreExact, TakeSlot

\* A permit given back frees exactly one slot.
LEMMA PermitDropped ==
    ASSUME TypeOK, SlotsOK, NEW c \in Commands, c \in permits, ReleaseSlot(c)
    PROVE  /\ SlotsOK' /\ permits' \subseteq Commands /\ active_slots' \in 0..MaxSlots
           /\ \A d \in Commands : d # c => (d \in permits' <=> d \in permits)
           /\ c \notin permits'
<1>1. IsFiniteSet(permits') /\ Cardinality(permits') = Cardinality(permits) - 1
    BY FS_RemoveElement DEF SlotsOK, ReleaseSlot
<1>2. Cardinality(permits') \in Nat
    BY <1>1, FS_CardinalityType
<1> QED
    BY <1>1, <1>2, LimitsAssumption
    DEF TypeOK, SupervisorTypeOK, SlotsOK, SlotsAreExact, ReleaseSlot

\* A command joins the end of the queue.
LEMMA Queued ==
    ASSUME NEW s \in Seq(Commands), NEW c \in Commands
    PROVE  /\ Append(s, c) \in Seq(Commands)
           /\ ToSet(Append(s, c)) = ToSet(s) \cup {c}
           /\ Len(Append(s, c)) = Len(s) + 1 /\ Len(s) \in Nat
           /\ \A i \in 1..Len(s) : Append(s, c)[i] = s[i]
           /\ Append(s, c)[Len(s) + 1] = c
    BY AppendProperties DEF ToSet

\* The head of the queue is taken.
LEMMA Dequeued ==
    ASSUME NEW s \in Seq(Commands), s # <<>>
    PROVE  /\ Head(s) \in Commands /\ Head(s) = s[1] /\ Len(s) \in Nat /\ Len(s) >= 1
           /\ Tail(s) \in Seq(Commands) /\ Len(Tail(s)) = Len(s) - 1
           /\ \A i \in 1..Len(Tail(s)) : Tail(s)[i] = s[i + 1]
           /\ ToSet(s) = ToSet(Tail(s)) \cup {Head(s)}
<1>1. /\ Head(s) \in Commands /\ Head(s) = s[1] /\ Len(s) \in Nat /\ Len(s) >= 1
      /\ Tail(s) \in Seq(Commands) /\ Len(Tail(s)) = Len(s) - 1
      /\ \A i \in 1..Len(Tail(s)) : Tail(s)[i] = s[i + 1]
    BY HeadTailProperties
<1>2. ASSUME NEW x \in ToSet(s) PROVE x \in ToSet(Tail(s)) \cup {Head(s)}
    <2>1. PICK i \in 1..Len(s) : x = s[i]
        BY <1>2 DEF ToSet
    <2>2. CASE i = 1
        BY <1>1, <2>1, <2>2
    <2>3. CASE i # 1
        <3>1. i - 1 \in 1..Len(Tail(s)) /\ Tail(s)[i - 1] = x
            BY <1>1, <2>1, <2>3
        <3>2. DOMAIN Tail(s) = 1..Len(Tail(s))
            BY <1>1
        <3>3. x \in ToSet(Tail(s))
            BY <3>1, <3>2 DEF ToSet
        <3> QED
            BY <3>3
    <2> QED
        BY <2>2, <2>3
<1>3. ASSUME NEW x \in ToSet(Tail(s)) \cup {Head(s)} PROVE x \in ToSet(s)
    <2>1. CASE x = Head(s)
        BY <1>1, <2>1 DEF ToSet
    <2>2. CASE x \in ToSet(Tail(s))
        <3>1. PICK i \in 1..Len(Tail(s)) : x = Tail(s)[i]
            BY <2>2, <1>1 DEF ToSet
        <3>2. i + 1 \in 1..Len(s) /\ x = s[i + 1]
            BY <1>1, <3>1
        <3> QED
            BY <3>2, <1>1 DEF ToSet
    <2> QED
        BY <1>3, <2>1, <2>2
<1> QED
    BY <1>1, <1>2, <1>3

\* The queue takes a command the registry does not have.
LEMMA Pushed ==
    ASSUME RegistryOK, ready \in Seq(Commands), NEW c, c \notin Registered,
           Len(ready') = Len(ready) + 1, Len(ready) \in Nat,
           \A i \in 1..Len(ready) : ready'[i] = ready[i],
           ready'[Len(ready) + 1] = c,
           UNCHANGED <<delayed, in_flight, worker>>
    PROVE  RegistryOK'
<1>1. c \notin delayed /\ c \notin in_flight /\ \A i \in 1..Len(ready) : ready[i] # c
    BY DEF Registered, ToSet
<1>2. \A i \in 1..Len(ready') : i \in 1..Len(ready) \/ i = Len(ready) + 1
    OBVIOUS
<1>3. \A i, j \in 1..Len(ready') : ready'[i] = ready'[j] => i = j
    BY <1>1, <1>2 DEF RegistryOK
<1>4. \A i \in 1..Len(ready') : ready'[i] \notin delayed' /\ ready'[i] \notin in_flight'
    BY <1>1, <1>2 DEF RegistryOK
<1> QED
    BY <1>3, <1>4 DEF RegistryOK

\* A step for c leaves the other commands alone.
OthersAlone(c) ==
    \A d \in Commands \ {c} :
        /\ pc'[d] = pc[d] /\ process'[d] = process[d]
        /\ local'[d] = local[d] /\ outcome'[d] = outcome[d]
        /\ d \in permits' <=> d \in permits
        /\ d \in Registered' <=> d \in Registered

\* A step that touches one command only has that command to answer for.
LEMMA OneCommand ==
    ASSUME IInv, NEW c \in Commands, TypeOK', SlotsOK', RegistryOK', NoStraySignal',
           OthersAlone(c), CommandOK(c)'
    PROVE  IInv'
<1>1. ASSUME NEW d \in Commands \ {c} PROVE CommandOK(d)'
    BY <1>1, Frame DEF IInv, OthersAlone
<1> QED
    BY <1>1 DEF IInv

\* Nobody holds a permit that was not there.
LEMMA QuietSlots ==
    ASSUME SlotsOK, UNCHANGED <<permits, active_slots>>
    PROVE  SlotsOK'
    BY DEF SlotsOK, SlotsAreExact

-----------------------------------------------------------------------------
(* The caller's steps *)

\* A cancellation only raises its flag.
LEMMA StepCancel ==
    ASSUME IInv, NEW c \in Commands, Cancel(c)
    PROVE  IInv'
<1> USE DEF Cancel, shared, registry, supervision
<1>1. TypeOK'
    BY DEF IInv, TypeOK, SupervisorTypeOK
<1>2. RegistryOK' /\ Registered' = Registered
    BY QuietRegistry DEF IInv
<1>3. OthersAlone(c) /\ CommandOK(c)'
    BY <1>2, Frame DEF IInv, OthersAlone
<1> QED
    BY <1>1, <1>2, <1>3, OneCommand, QuietSlots DEF IInv, NoStraySignal

\* A call begins with no permit and no process.
LEMMA StepBegin ==
    ASSUME IInv, NEW c \in Commands, Begin(c)
    PROVE  IInv'
<1> USE DEF Begin, Return, Goto, At, shared, registry, supervision
<1>1. TypeOK'
    <2>1. SupervisorTypeOK'
        BY DEF IInv, TypeOK, SupervisorTypeOK
    <2>2. outcome' \in [Commands -> Outcomes \cup {"none"}]
        BY DEF IInv, TypeOK, Outcomes
    <2> QED
        BY <2>1, <2>2 DEF IInv, TypeOK
<1>2. RegistryOK' /\ Registered' = Registered
    BY QuietRegistry DEF IInv
<1>3. OthersAlone(c)
    BY <1>2 DEF IInv, OthersAlone, TypeOK
<1>4. CommandOK(c)'
    BY <1>2 DEF IInv, TypeOK, CommandOK, PreflightOK, ForegroundOK, EndedOK, ReportOK, Foreground
<1> QED
    BY <1>1, <1>2, <1>3, <1>4, OneCommand, QuietSlots DEF IInv, NoStraySignal

\* A worker that cannot start turns the call away before it has anything.
LEMMA StepEnsureWorkerStarted ==
    ASSUME IInv, NEW c \in Commands, EnsureWorkerStarted(c)
    PROVE  IInv'
<1> USE DEF EnsureWorkerStarted, WorkerStarted, WorkerUnavailable, Return, Goto, At, shared,
            registry, supervision
<1>1. TypeOK'
    <2>1. SupervisorTypeOK'
        BY DEF IInv, TypeOK, SupervisorTypeOK
    <2>2. outcome' \in [Commands -> Outcomes \cup {"none"}]
        BY DEF IInv, TypeOK, Outcomes
    <2> QED
        BY <2>1, <2>2 DEF IInv, TypeOK
<1>2. RegistryOK' /\ Registered' = Registered
    BY QuietRegistry DEF IInv
<1>3. OthersAlone(c)
    BY <1>2 DEF IInv, OthersAlone, TypeOK
<1>4. CommandOK(c)'
    BY <1>2 DEF IInv, TypeOK, CommandOK, PreflightOK, ForegroundOK, EndedOK, ReportOK, Foreground
<1> QED
    BY <1>1, <1>2, <1>3, <1>4, OneCommand, QuietSlots DEF IInv, NoStraySignal

\* So does a supervisor that found itself unhealthy.
LEMMA StepEnsureAdmissionHealthy ==
    ASSUME IInv, NEW c \in Commands, EnsureAdmissionHealthy(c)
    PROVE  IInv'
<1> USE DEF EnsureAdmissionHealthy, Return, Goto, At, shared, registry, supervision
<1>1. TypeOK'
    <2>1. SupervisorTypeOK'
        BY DEF IInv, TypeOK, SupervisorTypeOK
    <2>2. outcome' \in [Commands -> Outcomes \cup {"none"}]
        BY DEF IInv, TypeOK, Outcomes
    <2> QED
        BY <2>1, <2>2 DEF IInv, TypeOK
<1>2. RegistryOK' /\ Registered' = Registered
    BY QuietRegistry DEF IInv
<1>3. OthersAlone(c)
    BY <1>2 DEF IInv, OthersAlone, TypeOK
<1>4. CommandOK(c)'
    BY <1>2 DEF IInv, TypeOK, CommandOK, PreflightOK, ForegroundOK, EndedOK, ReportOK, Foreground
<1> QED
    BY <1>1, <1>2, <1>3, <1>4, OneCommand, QuietSlots DEF IInv, NoStraySignal

\* The slot count read here may be stale when it is compared.
LEMMA StepLoadActiveSlots ==
    ASSUME IInv, NEW c \in Commands, LoadActiveSlots(c)
    PROVE  IInv'
<1> USE DEF LoadActiveSlots, Goto, At, shared, registry, supervision
<1>1. TypeOK'
    BY DEF IInv, TypeOK, SupervisorTypeOK
<1>2. RegistryOK' /\ Registered' = Registered
    BY QuietRegistry DEF IInv
<1>3. OthersAlone(c)
    BY <1>2 DEF IInv, OthersAlone, TypeOK
<1>4. CommandOK(c)'
    BY <1>2 DEF IInv, TypeOK, CommandOK, PreflightOK, ForegroundOK, EndedOK, ReportOK, Foreground
<1> QED
    BY <1>1, <1>2, <1>3, <1>4, OneCommand, QuietSlots DEF IInv, NoStraySignal

\* A compare-and-exchange that succeeds saw the current count, and the caller had
\* no permit yet.
LEMMA StepReserveSlot ==
    ASSUME IInv, NEW c \in Commands, ReserveSlot(c)
    PROVE  IInv'
<1> USE DEF ReserveSlot, Return, Goto, At, shared, registry, supervision
<1>1. c \notin permits /\ process[c] = "none" /\ c \notin Registered /\ local[c] = Fresh
    BY DEF IInv, CommandOK, PreflightOK
<1>2. RegistryOK' /\ Registered' = Registered
    BY QuietRegistry DEF IInv
<1>3. CASE TakeSlot(c, observed[c]) /\ pc' = [pc EXCEPT ![c] = "spawn"] /\ UNCHANGED outcome
           /\ observed' = [observed EXCEPT ![c] = 0]
    <2>1. /\ SlotsOK' /\ permits' \subseteq Commands /\ active_slots' \in 0..MaxSlots
          /\ \A d \in Commands : d # c => (d \in permits' <=> d \in permits)
          /\ c \in permits'
        BY <1>1, <1>3, PermitTaken DEF IInv, TakeSlot
    <2>2. TypeOK'
        BY <1>3, <2>1, LimitsAssumption DEF IInv, TypeOK, SupervisorTypeOK
    <2>3. OthersAlone(c)
        BY <1>2, <1>3, <2>1 DEF IInv, OthersAlone, TypeOK
    <2>4. CommandOK(c)'
        BY <1>1, <1>2, <1>3, <2>1
        DEF IInv, TypeOK, CommandOK, PreflightOK, ForegroundOK, EndedOK, ReportOK, Foreground
    <2> QED
        BY <1>2, <2>1, <2>2, <2>3, <2>4, OneCommand DEF IInv, NoStraySignal
<1>4. CASE UNCHANGED <<permits, active_slots>>
    <2>1. TypeOK'
        <3>1. SupervisorTypeOK'
            BY <1>4 DEF IInv, TypeOK, SupervisorTypeOK
        <3>2. outcome' \in [Commands -> Outcomes \cup {"none"}]
            BY DEF IInv, TypeOK, Outcomes
        <3>3. observed' \in [Commands -> 0..MaxSlots]
            <4>1. /\ observed \in [Commands -> 0..MaxSlots]
                  /\ active_slots \in 0..MaxSlots /\ 0 \in 0..MaxSlots
                BY LimitsAssumption DEF IInv, TypeOK, SupervisorTypeOK
            <4>2. \/ UNCHANGED observed
                  \/ observed' = [observed EXCEPT ![c] = 0]
                  \/ observed' = [observed EXCEPT ![c] = active_slots]
                BY DEF ReserveSlot
            <4> QED
                BY ONLY <4>1, <4>2
        <3> QED
            BY <3>1, <3>2, <3>3 DEF IInv, TypeOK
    <2>2. OthersAlone(c)
        BY <1>2, <1>4 DEF IInv, OthersAlone, TypeOK
    <2>3. CommandOK(c)'
        BY <1>1, <1>2, <1>4 DEF IInv, TypeOK, SupervisorTypeOK, CommandOK, PreflightOK,
           ForegroundOK, EndedOK, ReportOK, Foreground, TakeSlot
    <2> QED
        BY <1>2, <1>4, <2>1, <2>2, <2>3, OneCommand, QuietSlots DEF IInv, NoStraySignal
<1> QED
    BY <1>3, <1>4

\* The process starts under the permit that was reserved for it.
LEMMA StepSpawn ==
    ASSUME IInv, NEW c \in Commands, Spawn(c)
    PROVE  IInv'
<1> USE DEF Spawn, Return, Goto, At, Set, Leader, shared, registry, supervision
<1>1. c \in permits /\ process[c] = "none" /\ c \notin Registered /\ local[c] = Fresh
    BY DEF IInv, CommandOK, PreflightOK
<1>2. RegistryOK' /\ Registered' = Registered
    BY QuietRegistry DEF IInv
<1>3. CASE Return(c, "Spawn") /\ ReleaseSlot(c) /\ UNCHANGED <<process, local>>
    <2>1. /\ SlotsOK' /\ permits' \subseteq Commands /\ active_slots' \in 0..MaxSlots
          /\ \A d \in Commands : d # c => (d \in permits' <=> d \in permits)
          /\ c \notin permits'
        BY <1>1, <1>3, PermitDropped DEF IInv
    <2>2. TypeOK'
        BY <1>3, <2>1 DEF IInv, TypeOK, SupervisorTypeOK, Outcomes
    <2>3. OthersAlone(c)
        BY <1>2, <1>3, <2>1 DEF IInv, OthersAlone, TypeOK
    <2>4. CommandOK(c)'
        BY <1>1, <1>2, <1>3, <2>1
        DEF IInv, TypeOK, CommandOK, PreflightOK, ForegroundOK, EndedOK, ReportOK, Foreground
    <2> QED
        BY <1>2, <2>1, <2>2, <2>3, <2>4, OneCommand DEF IInv, NoStraySignal
<1>4. CASE /\ process' = [process EXCEPT ![c] = "alive"] /\ UNCHANGED <<permits, active_slots, outcome>>
           /\ \/ pc' = [pc EXCEPT ![c] = "check"] /\ UNCHANGED local
              \/ /\ pc' = [pc EXCEPT ![c] = "cleanup"]
                 /\ local' = [local EXCEPT ![c] = [local[c] EXCEPT !.control = "ConfigureOutput"]]
    <2>1. TypeOK'
        <3>1. SupervisorTypeOK'
            BY <1>4 DEF IInv, TypeOK, SupervisorTypeOK
        <3>2. local[c] \in Locals
            BY DEF IInv, TypeOK, Locals
        <3>3. [local[c] EXCEPT !.control = "ConfigureOutput"] \in Locals
            BY <3>2 DEF Locals, Errors
        <3>4. local' \in [Commands -> Locals]
            <4>1. local \in [Commands -> Locals]
                BY DEF IInv, TypeOK, Locals
            <4> QED
                BY ONLY c \in Commands, <1>4, <3>3, <4>1
        <3> QED
            BY <1>4, <3>1, <3>4 DEF IInv, TypeOK, Locals
    <2>2. OthersAlone(c)
        BY <1>2, <1>4 DEF IInv, OthersAlone, TypeOK, SupervisorTypeOK
    <2>3. /\ ~local'[c].status /\ local'[c].forced = "no"
          /\ pc'[c] = "check" => local'[c].control = "none"
          /\ pc'[c] = "cleanup" => local'[c].control # "none"
          /\ process'[c] = "alive" /\ pc'[c] \in {"check", "cleanup"}
        <3>1. local \in [Commands -> Locals] /\ c \in DOMAIN pc /\ c \in DOMAIN process
            BY DEF IInv, TypeOK, SupervisorTypeOK, Locals
        <3>2. /\ process'[c] = "alive"
              /\ \/ local'[c] = Fresh /\ pc'[c] = "check"
                 \/ local'[c] = [Fresh EXCEPT !.control = "ConfigureOutput"] /\ pc'[c] = "cleanup"
            BY <1>1, <1>4, <3>1
        <3> QED
            BY <3>2 DEF Fresh
    <2>4. CommandOK(c)'
        BY <1>1, <1>2, <1>4, <2>3 DEF CommandOK, PreflightOK, ForegroundOK, EndedOK, ReportOK,
           Foreground
    <2> QED
        BY <1>2, <1>4, <2>1, <2>2, <2>4, OneCommand, QuietSlots DEF IInv, NoStraySignal
<1> QED
    BY <1>3, <1>4

-----------------------------------------------------------------------------
(* The control loop *)

\* A step of a caller that keeps its child, and what its locals must say then.
LEMMA LoopStep ==
    ASSUME IInv, NEW c \in Commands, c \in Foreground,
           NEW label \in {"check", "observe", "decide", "cleanup"},
           NEW state \in {"alive", "exited", "reaped"}, NEW l \in Locals,
           UNCHANGED <<shared, strays, cancellation, observed, outcome>>,
           pc' = [pc EXCEPT ![c] = label],
           local' = [local EXCEPT ![c] = l],
           process' = [process EXCEPT ![c] = state],
           l.status <=> state = "reaped",
           l.forced # "no" => l.cancelled \/ l.output_incomplete,
           label # "cleanup" => l.control = "none",
           label = "cleanup" /\ l.control = "none" => l.streams_done \/ l.forced = "over"
    PROVE  IInv'
<1> USE DEF shared, registry, supervision
<1>1. TypeOK'
    <2>1. SupervisorTypeOK'
        BY DEF IInv, TypeOK, SupervisorTypeOK
    <2>2. local' \in [Commands -> Locals]
        BY DEF IInv, TypeOK, Locals
    <2> QED
        BY <2>1, <2>2 DEF IInv, TypeOK, Locals
<1>2. RegistryOK' /\ Registered' = Registered
    BY QuietRegistry DEF IInv
<1>3. OthersAlone(c)
    BY <1>2 DEF IInv, OthersAlone, TypeOK, SupervisorTypeOK
<1>4. CommandOK(c)'
    <2>1. pc'[c] = label /\ local'[c] = l /\ process'[c] = state
        BY DEF IInv, TypeOK, SupervisorTypeOK
    <2>2. c \notin Registered' /\ c \in permits'
        BY <1>2 DEF IInv, CommandOK, ForegroundOK
    <2> QED
        BY <2>1, <2>2 DEF CommandOK, PreflightOK, ForegroundOK, EndedOK, ReportOK, Foreground
<1> QED
    BY <1>1, <1>2, <1>3, <1>4, OneCommand, QuietSlots DEF IInv, NoStraySignal

\* What a caller in the loop knows.
LEMMA InLoop ==
    ASSUME IInv, NEW c \in Commands, pc[c] \in {"check", "observe", "decide", "cleanup"}
    PROVE  /\ c \in Foreground
           /\ local[c] \in Locals
           /\ process[c] \in {"alive", "exited", "reaped"}
           /\ local[c].status <=> process[c] = "reaped"
           /\ local[c].forced # "no" => local[c].cancelled \/ local[c].output_incomplete
           /\ pc[c] # "cleanup" => local[c].control = "none"
           /\ pc[c] = "cleanup" /\ local[c].control = "none" =>
                 local[c].streams_done \/ local[c].forced = "over"
           /\ pc = [pc EXCEPT ![c] = pc[c]]
           /\ local = [local EXCEPT ![c] = local[c]]
           /\ process = [process EXCEPT ![c] = process[c]]
<1>1. c \in Foreground
    BY DEF Foreground
<1>2. local[c] \in Locals /\ process[c] \in {"none", "alive", "exited", "reaped"}
    BY DEF IInv, TypeOK, SupervisorTypeOK, Locals
<1>3. /\ pc = [pc EXCEPT ![c] = pc[c]]
      /\ local = [local EXCEPT ![c] = local[c]]
      /\ process = [process EXCEPT ![c] = process[c]]
    BY DEF IInv, TypeOK, SupervisorTypeOK
<1> QED
    BY <1>1, <1>2, <1>3 DEF IInv, CommandOK, ForegroundOK

\* The end of the drain grace only marks the drain as over.
LEMMA StepGraceElapses ==
    ASSUME IInv, NEW c \in Commands, GraceElapses(c)
    PROVE  IInv'
<1> DEFINE l1 == [local[c] EXCEPT !.forced = "over"]
           l2 == [local[c] EXCEPT !.draining = "over"]
<1>1. pc[c] \in {"check", "observe", "decide"}
    BY DEF GraceElapses
<1>2. CASE local[c].forced = "set" /\ local' = [local EXCEPT ![c] = l1]
    <2>1. l1 \in Locals /\ l1.status = local[c].status /\ l1.control = local[c].control
          /\ l1.cancelled = local[c].cancelled /\ l1.output_incomplete = local[c].output_incomplete
        BY <1>1, InLoop DEF Locals
    <2>2. /\ process' = [process EXCEPT ![c] = process[c]] /\ pc' = [pc EXCEPT ![c] = pc[c]]
          /\ UNCHANGED <<shared, strays, cancellation, observed, outcome>>
        BY <1>1, InLoop DEF GraceElapses
    <2> HIDE DEF l1
    <2>3. /\ c \in Foreground /\ pc[c] \in {"check", "observe", "decide", "cleanup"}
          /\ process[c] \in {"alive", "exited", "reaped"}
          /\ l1.status <=> process[c] = "reaped"
          /\ l1.forced # "no" => l1.cancelled \/ l1.output_incomplete
          /\ pc[c] # "cleanup" /\ l1.control = "none"
        BY <1>1, <1>2, <2>1, InLoop
    <2> QED
        BY <1>2, <2>1, <2>2, <2>3, LoopStep
<1>3. CASE local[c].draining = "set" /\ local' = [local EXCEPT ![c] = l2]
    <2>1. l2 \in Locals /\ l2.status = local[c].status /\ l2.control = local[c].control
          /\ l2.cancelled = local[c].cancelled /\ l2.output_incomplete = local[c].output_incomplete
          /\ l2.forced = local[c].forced
        BY <1>1, InLoop DEF Locals
    <2>2. /\ process' = [process EXCEPT ![c] = process[c]] /\ pc' = [pc EXCEPT ![c] = pc[c]]
          /\ UNCHANGED <<shared, strays, cancellation, observed, outcome>>
        BY <1>1, InLoop DEF GraceElapses
    <2> HIDE DEF l2
    <2>3. /\ c \in Foreground /\ pc[c] \in {"check", "observe", "decide", "cleanup"}
          /\ process[c] \in {"alive", "exited", "reaped"}
          /\ l2.status <=> process[c] = "reaped"
          /\ l2.forced # "no" => l2.cancelled \/ l2.output_incomplete
          /\ pc[c] # "cleanup" /\ l2.control = "none"
        BY <1>1, <1>3, <2>1, InLoop
    <2> QED
        BY <1>3, <2>1, <2>2, <2>3, LoopStep
<1> QED
    BY <1>2, <1>3 DEF GraceElapses, Set

\* StartDraining forces the loop only together with an incomplete output.
LEMMA DrainingFacts ==
    ASSUME NEW l \in Locals, l.forced # "no" => l.cancelled \/ l.output_incomplete
    PROVE  LET d == StartDraining(l)
           IN  /\ d \in Locals
               /\ d.status = l.status /\ d.control = l.control
               /\ d.forced # "no" => d.cancelled \/ d.output_incomplete
    BY DEF StartDraining, Forced, Locals

\* Entering the drain keeps the process with its caller.
LEMMA StepDecide ==
    ASSUME IInv, NEW c \in Commands, Decide(c)
    PROVE  IInv'
<1> DEFINE d == StartDraining(local[c])
           e == [d EXCEPT !.control = "ReadOutput"]
<1>1. pc[c] = "decide"
    BY DEF Decide, At
<1>2. /\ d \in Locals /\ d.status = local[c].status /\ d.control = local[c].control
      /\ d.forced # "no" => d.cancelled \/ d.output_incomplete
    BY <1>1, InLoop, DrainingFacts
<1>3. /\ e \in Locals /\ e.status = local[c].status /\ e.control = "ReadOutput"
      /\ e.forced # "no" => e.cancelled \/ e.output_incomplete
    BY <1>2 DEF Locals, Errors
<1>4. UNCHANGED <<process, shared, strays, cancellation, observed, outcome>>
    BY DEF Decide, Goto, Break
<1> HIDE DEF d, e
<1>5. CASE /\ (local[c].status /\ local[c].streams_done) \/ local[c].forced = "over"
           /\ pc' = [pc EXCEPT ![c] = "cleanup"] /\ UNCHANGED local
    <2> DEFINE l == local[c]
               state == process[c]
    <2>1. /\ local' = [local EXCEPT ![c] = l]
          /\ process' = [process EXCEPT ![c] = state]
        BY <1>1, <1>4, <1>5, InLoop
    <2>2. /\ c \in Foreground /\ l \in Locals /\ state \in {"alive", "exited", "reaped"}
          /\ l.status <=> state = "reaped"
          /\ l.forced # "no" => l.cancelled \/ l.output_incomplete
          /\ l.streams_done \/ l.forced = "over"
        BY <1>1, <1>5, InLoop
    <2>3. pc' = [pc EXCEPT ![c] = "cleanup"]
        BY <1>5
    <2> HIDE DEF l, state
    <2> QED
        BY <1>4, <2>1, <2>2, <2>3, LoopStep
<1>6. CASE local' = [local EXCEPT ![c] = d] /\ pc' = [pc EXCEPT ![c] = "check"]
    <2>1. /\ c \in Foreground /\ process[c] \in {"alive", "exited", "reaped"}
          /\ d.status <=> process[c] = "reaped"
          /\ d.control = "none" /\ process' = [process EXCEPT ![c] = process[c]]
        BY <1>1, <1>2, <1>4, InLoop
    <2> QED
        BY ONLY IInv, c \in Commands, <1>2, <1>4, <1>6, <2>1, LoopStep
<1>7. CASE local' = [local EXCEPT ![c] = e] /\ pc' = [pc EXCEPT ![c] = "cleanup"]
    <2>1. /\ c \in Foreground /\ process[c] \in {"alive", "exited", "reaped"}
          /\ e.status <=> process[c] = "reaped"
          /\ process' = [process EXCEPT ![c] = process[c]]
        BY <1>1, <1>3, <1>4, InLoop
    <2> QED
        BY ONLY IInv, c \in Commands, <1>3, <1>4, <1>7, <2>1, LoopStep
<1> QED
    BY <1>5, <1>6, <1>7 DEF Decide, Goto, Break, Set, d, e

\* Reading only touches what is known of the streams.
LEMMA ReadFacts ==
    ASSUME NEW l \in Locals, NEW r \in Read(l)
    PROVE  /\ r \in Locals
           /\ r.status = l.status /\ r.control = l.control /\ r.forced = l.forced
           /\ r.cancelled = l.cancelled /\ r.output_incomplete = l.output_incomplete
           /\ l.streams_done => r = l
<1>1. CASE l.streams_done
    BY <1>1 DEF Read
<1>2. CASE ~l.streams_done
    <2>1. Read(l) = {AfterRead(l, done, failed) : done \in BOOLEAN, failed \in BOOLEAN}
        BY <1>2 DEF Read
    <2>2. PICK done \in BOOLEAN, failed \in BOOLEAN : r = AfterRead(l, done, failed)
        BY <2>1
    <2> QED
        BY <1>2, <2>2 DEF Locals, AfterRead
<1> QED
    BY <1>1, <1>2

\* Each observation of the control loop leaves the process owned and the report open.
LEMMA StepObserve ==
    ASSUME IInv, NEW c \in Commands, Observe(c)
    PROVE  IInv'
<1>1. pc[c] = "observe"
    BY DEF Observe, At
<1>2. PICK l \in Read(local[c]) :
          \/ /\ l.status \/ process[c] = "alive"
             /\ Set(c, l)
             /\ Goto(c, "decide")
             /\ UNCHANGED <<process, strays>>
          \/ /\ ~l.status
             /\ Break(c, l, "Wait")
             /\ UNCHANGED <<process, strays>>
          \/ /\ ~l.status /\ process[c] = "exited"
             /\ Signalled(c)
             /\ \/ /\ Leader(c, "reaped")
                   /\ Set(c, [l EXCEPT !.status = TRUE])
                   /\ Goto(c, "decide")
                \/ \E error \in {"TerminationUnverified", "Kill", "Wait", "ReadOutput"} :
                      Break(c, l, error) /\ UNCHANGED process
    BY DEF Observe
<1>3. /\ l \in Locals
      /\ l.status = local[c].status /\ l.control = local[c].control /\ l.forced = local[c].forced
      /\ l.cancelled = local[c].cancelled /\ l.output_incomplete = local[c].output_incomplete
    BY <1>1, <1>2, InLoop, ReadFacts
<1>4. UNCHANGED <<shared, cancellation, observed>>
    BY DEF Observe
<1>5. CASE Set(c, l) /\ Goto(c, "decide") /\ UNCHANGED <<process, strays>>
    <2>1. /\ local' = [local EXCEPT ![c] = l] /\ pc' = [pc EXCEPT ![c] = "decide"]
          /\ process' = [process EXCEPT ![c] = process[c]]
          /\ UNCHANGED <<outcome, strays>>
        BY <1>1, <1>5, InLoop DEF Set, Goto
    <2>2. /\ c \in Foreground /\ process[c] \in {"alive", "exited", "reaped"}
          /\ l.status <=> process[c] = "reaped"
          /\ l.forced # "no" => l.cancelled \/ l.output_incomplete
          /\ l.control = "none"
        BY <1>1, <1>3, InLoop
    <2> QED
        BY <1>3, <1>4, <2>1, <2>2, LoopStep
<1>6. ASSUME NEW error \in {"TerminationUnverified", "Kill", "Wait", "ReadOutput"},
             Break(c, l, error), UNCHANGED <<process, strays>>
      PROVE  IInv'
    <2> DEFINE e == [l EXCEPT !.control = error]
    <2>1. /\ e \in Locals /\ e.status = local[c].status /\ e.control = error
          /\ e.cancelled = local[c].cancelled /\ e.output_incomplete = local[c].output_incomplete
          /\ e.forced = local[c].forced
        BY <1>3 DEF Locals, Errors
    <2>2. local' = [local EXCEPT ![c] = e] /\ pc' = [pc EXCEPT ![c] = "cleanup"] /\ UNCHANGED outcome
        BY <1>6 DEF Break, Set, Goto
    <2> HIDE DEF e
    <2>3. process' = [process EXCEPT ![c] = process[c]]
        BY <1>1, <1>6, InLoop
    <2>4. /\ c \in Foreground /\ process[c] \in {"alive", "exited", "reaped"}
          /\ e.status <=> process[c] = "reaped"
          /\ e.forced # "no" => e.cancelled \/ e.output_incomplete
          /\ e.control # "none"
        BY <1>1, <2>1, InLoop
    <2>5. UNCHANGED <<shared, strays, cancellation, observed, outcome>>
        BY <1>4, <1>6, <2>2
    <2> QED
        BY ONLY IInv, c \in Commands, <2>1, <2>2, <2>3, <2>4, <2>5, LoopStep
<1>7. CASE /\ ~l.status /\ process[c] = "exited" /\ Signalled(c) /\ Leader(c, "reaped")
           /\ Set(c, [l EXCEPT !.status = TRUE]) /\ Goto(c, "decide")
    <2> DEFINE e == [l EXCEPT !.status = TRUE]
    <2>1. /\ e \in Locals /\ e.status /\ e.control = local[c].control
          /\ e.cancelled = local[c].cancelled /\ e.output_incomplete = local[c].output_incomplete
          /\ e.forced = local[c].forced
        BY <1>3 DEF Locals
    <2>2. /\ local' = [local EXCEPT ![c] = e] /\ pc' = [pc EXCEPT ![c] = "decide"]
          /\ process' = [process EXCEPT ![c] = "reaped"]
          /\ UNCHANGED <<outcome, strays>>
        BY <1>7 DEF Set, Goto, Leader, Signalled
    <2> HIDE DEF e
    <2>3. /\ c \in Foreground /\ local[c].control = "none"
          /\ e.forced # "no" => e.cancelled \/ e.output_incomplete
        BY <1>1, <2>1, InLoop
    <2>4. UNCHANGED <<shared, strays, cancellation, observed, outcome>>
        BY <1>4, <2>2
    <2> QED
        BY ONLY IInv, c \in Commands, <2>1, <2>2, <2>3, <2>4, LoopStep
<1>8. process[c] = "exited" /\ Signalled(c) => UNCHANGED strays
    BY DEF Signalled
<1> QED
    BY <1>2, <1>5, <1>6, <1>7, <1>8

\* What a termination leaves of a leader that was not reaped before.
LEMMA TerminationFacts ==
    ASSUME NEW c, process[c] \in {"alive", "exited"}, NEW t \in Terminations(c)
    PROVE  /\ t.leader \in {"alive", "exited", "reaped"}
           /\ t.error \in Errors \cup {"none"}
           /\ t.error # "none" => t.leader # "reaped"
<1>1. AfterSignal(c) \subseteq {"alive", "exited"}
    BY DEF AfterSignal
<1>2. CASE t \in [leader : {process[c]}, error : {"Kill", "KillDenied"}]
    BY <1>2 DEF Errors
<1>3. CASE t \in [leader : AfterSignal(c), error : {"Wait"}]
    BY <1>1, <1>3 DEF Errors
<1>4. CASE t \in [leader : AfterSignal(c) \cap {"alive"}, error : {"none"}]
    BY <1>1, <1>4 DEF Errors
<1>5. CASE t \in [leader : {"exited"}, error : {"TerminationUnverified", "Kill", "ReadOutput"}]
    BY <1>5 DEF Errors
<1>6. CASE t \in [leader : {"reaped"}, error : {"none"}]
    BY <1>6 DEF Errors
<1> QED
    BY <1>2, <1>3, <1>4, <1>5, <1>6 DEF Terminations

\* The flag is seen: the group of a leader that is not reaped is terminated.
LEMMA StepCheckCancellation ==
    ASSUME IInv, NEW c \in Commands, CheckCancellation(c)
    PROVE  IInv'
<1> DEFINE seen == [local[c] EXCEPT !.cancelled = TRUE]
           forced == Forced(seen)
<1>1. pc[c] = "check" /\ UNCHANGED <<shared, cancellation, observed>>
    BY DEF CheckCancellation, At
<1>2. /\ seen \in Locals /\ seen.cancelled /\ seen.status = local[c].status
      /\ forced \in Locals /\ forced.cancelled /\ forced.status = local[c].status
      /\ forced.control = "none"
    <2>1. local[c] \in Locals /\ local[c].control = "none"
        BY <1>1, InLoop
    <2>2. /\ seen \in Locals /\ seen.cancelled /\ seen.status = local[c].status
          /\ seen.control = "none"
        BY ONLY <2>1 DEF Locals
    <2> HIDE DEF seen
    <2> QED
        BY ONLY <2>2 DEF Locals, Forced
<1>3. CASE Goto(c, "observe") /\ UNCHANGED <<process, strays, local>>
    <2> DEFINE l == local[c]
               state == process[c]
    <2>1. /\ local' = [local EXCEPT ![c] = l] /\ process' = [process EXCEPT ![c] = state]
          /\ pc' = [pc EXCEPT ![c] = "observe"] /\ UNCHANGED <<outcome, strays>>
        BY <1>1, <1>3, InLoop DEF Goto
    <2>2. /\ c \in Foreground /\ l \in Locals /\ state \in {"alive", "exited", "reaped"}
          /\ l.status <=> state = "reaped"
          /\ l.forced # "no" => l.cancelled \/ l.output_incomplete
          /\ l.control = "none"
        BY <1>1, InLoop
    <2> HIDE DEF l, state
    <2> QED
        BY <1>1, <2>1, <2>2, LoopStep
<1>4. CASE Set(c, forced) /\ Goto(c, "observe") /\ UNCHANGED <<process, strays>>
    <2> DEFINE state == process[c]
    <2>1. /\ local' = [local EXCEPT ![c] = forced] /\ process' = [process EXCEPT ![c] = state]
          /\ pc' = [pc EXCEPT ![c] = "observe"] /\ UNCHANGED <<outcome, strays>>
        BY <1>1, <1>4, InLoop DEF Goto, Set
    <2>2. /\ c \in Foreground /\ state \in {"alive", "exited", "reaped"}
          /\ forced.status <=> state = "reaped"
        BY <1>1, <1>2, InLoop
    <2> HIDE DEF forced, state
    <2> QED
        BY <1>1, <1>2, <2>1, <2>2, LoopStep
<1>5. CASE /\ ~local[c].status
           /\ Signalled(c)
           /\ \E t \in Terminations(c) :
                 /\ Leader(c, t.leader)
                 /\ IF t.error = "none"
                    THEN /\ Set(c, [forced EXCEPT !.status = (t.leader = "reaped")])
                         /\ Goto(c, "observe")
                    ELSE Break(c, seen, t.error)
    <2>1. PICK t \in Terminations(c) :
                 /\ Leader(c, t.leader)
                 /\ IF t.error = "none"
                    THEN /\ Set(c, [forced EXCEPT !.status = (t.leader = "reaped")])
                         /\ Goto(c, "observe")
                    ELSE Break(c, seen, t.error)
        BY <1>5
    <2>2. process[c] \in {"alive", "exited"} /\ c \in Foreground
        BY <1>1, <1>5, InLoop
    <2>3. UNCHANGED strays
        BY <1>5, <2>2 DEF Signalled
    <2> DEFINE state == t.leader
               error == t.error
    <2>4. /\ state \in {"alive", "exited", "reaped"} /\ error \in Errors \cup {"none"}
          /\ error # "none" => state # "reaped"
          /\ process' = [process EXCEPT ![c] = state]
        BY <2>1, <2>2, TerminationFacts DEF Leader
    <2>5. CASE error = "none"
        <3> DEFINE l == [forced EXCEPT !.status = (state = "reaped")]
        <3>1. /\ l \in Locals /\ l.status = (state = "reaped") /\ l.cancelled /\ l.control = "none"
            BY <1>2 DEF Locals
        <3>2. /\ local' = [local EXCEPT ![c] = l] /\ pc' = [pc EXCEPT ![c] = "observe"]
              /\ UNCHANGED outcome
            BY <2>1, <2>5 DEF Set, Goto
        <3> HIDE DEF l, state
        <3> QED
            BY <1>1, <2>2, <2>3, <2>4, <3>1, <3>2, LoopStep
    <2>6. CASE error # "none"
        <3> DEFINE l == [seen EXCEPT !.control = error]
        <3>1. /\ l \in Locals /\ l.status = local[c].status /\ l.cancelled /\ l.control = error
            <4>1. /\ seen \in Locals /\ seen.cancelled /\ seen.status = local[c].status
                  /\ error \in Errors \cup {"none"}
                BY <1>2, <2>4
            <4> HIDE DEF seen, error
            <4> QED
                BY ONLY <4>1 DEF Locals
        <3>2. /\ local' = [local EXCEPT ![c] = l] /\ pc' = [pc EXCEPT ![c] = "cleanup"]
              /\ UNCHANGED outcome
            BY <2>1, <2>6 DEF Break, Set, Goto
        <3>3. l.status <=> state = "reaped"
            BY <1>5, <2>4, <2>6, <3>1
        <3> HIDE DEF l, state, error
        <3> QED
            BY <1>1, <2>2, <2>3, <2>4, <2>6, <3>1, <3>2, <3>3, LoopStep
    <2> QED
        BY <2>5, <2>6
<1> QED
    BY <1>3, <1>4, <1>5 DEF CheckCancellation

-----------------------------------------------------------------------------
(* Cleanup *)

EarlyErrors == {"Cancelled", "NotPrepared", "SupervisorUnavailable", "SupervisorDegraded",
                "SupervisorAtCapacity", "Spawn"}

\* A caller that returns with its child reaped.
LEMMA ReturnStep ==
    ASSUME IInv, NEW c \in Commands, c \in Foreground, NEW l \in Locals,
           NEW result \in Outcomes \ (EarlyErrors \cup {"TerminationSupervised"}),
           UNCHANGED <<registry, supervision, strays, cancellation, observed>>,
           ReleaseSlot(c), ReturnWith(c, l, result),
           process' = [process EXCEPT ![c] = "reaped"],
           result = "Ok" => l.streams_done /\ ~l.stream_error /\ ~l.cancelled
    PROVE  IInv'
<1> USE DEF registry, supervision
<1> DEFINE k == IF result = "Ok" THEN l ELSE Fresh
<1>1. Fresh \in Locals
    BY DEF Fresh, Locals
<1>2. /\ pc' = [pc EXCEPT ![c] = "returned"] /\ local' = [local EXCEPT ![c] = k]
      /\ outcome' = [outcome EXCEPT ![c] = result] /\ k \in Locals
    BY <1>1 DEF ReturnWith, Return, Set
<1>3. c \in permits
    BY DEF IInv, CommandOK, ForegroundOK
<1>4. /\ SlotsOK' /\ permits' \subseteq Commands /\ active_slots' \in 0..MaxSlots
      /\ \A d \in Commands : d # c => (d \in permits' <=> d \in permits)
      /\ c \notin permits'
    BY <1>3, PermitDropped DEF IInv
<1>5. TypeOK'
    <2>1. SupervisorTypeOK'
        BY <1>4 DEF IInv, TypeOK, SupervisorTypeOK
    <2>2. local' \in [Commands -> Locals]
        BY <1>2 DEF IInv, TypeOK, Locals
    <2>3. outcome' \in [Commands -> Outcomes \cup {"none"}]
        BY <1>2 DEF IInv, TypeOK
    <2> QED
        BY <1>2, <2>1, <2>2, <2>3 DEF IInv, TypeOK, Locals
<1>6. RegistryOK' /\ Registered' = Registered
    BY QuietRegistry DEF IInv
<1>7. OthersAlone(c)
    BY <1>2, <1>4, <1>6 DEF IInv, OthersAlone, TypeOK, SupervisorTypeOK
<1>8. CommandOK(c)'
    <2>1. /\ pc'[c] = "returned" /\ local'[c] = k /\ process'[c] = "reaped" /\ outcome'[c] = result
        BY <1>2 DEF IInv, TypeOK, SupervisorTypeOK
    <2>2. c \notin Registered'
        BY <1>6 DEF IInv, CommandOK, ForegroundOK
    <2>3. result = "Ok" => k.streams_done /\ ~k.stream_error /\ ~k.cancelled
        OBVIOUS
    <2> HIDE DEF k
    <2>4. result \notin EarlyErrors
        OBVIOUS
    <2> QED
        BY <1>4, <2>1, <2>2, <2>3, <2>4
        DEF CommandOK, PreflightOK, ForegroundOK, EndedOK, ReportOK, Foreground, EarlyErrors
<1> QED
    BY <1>4, <1>5, <1>6, <1>7, <1>8, OneCommand DEF IInv, NoStraySignal

\* A success is only reported for a loop that ended with the streams, or by force
\* and then with a reason not to report one.
LEMMA ReconciledFacts ==
    ASSUME NEW l \in Locals,
           l.forced # "no" => l.cancelled \/ l.output_incomplete,
           l.control = "none" => l.streams_done \/ l.forced = "over"
    PROVE  /\ Reconciled(l) \in Outcomes \ (EarlyErrors \cup {"TerminationSupervised"})
           /\ Reconciled(l) = "Ok" => l.streams_done /\ ~l.stream_error /\ ~l.cancelled
<1>1. CASE l.control = "none" \/ MadeGood(l)
    <2>1. Reconciled(l) = Verdict(l)
        BY <1>1 DEF Reconciled
    <2>2. Verdict(l) \in {"ReadOutput", "TerminationUnverified", "OutputIncomplete", "Ok"}
        BY DEF Verdict
    <2>3. Verdict(l) = "Ok" => ~l.stream_error /\ ~l.cancelled /\ ~l.output_incomplete
        BY DEF Verdict
    <2>4. Verdict(l) = "Ok" => l.streams_done
        BY <1>1, <2>3 DEF MadeGood
    <2> QED
        BY <2>1, <2>2, <2>3, <2>4 DEF Outcomes, Errors, EarlyErrors
<1>2. CASE ~(l.control = "none" \/ MadeGood(l))
    <2>1. Reconciled(l) = l.control /\ l.control \in Errors
        BY <1>2 DEF Reconciled, Locals
    <2> QED
        BY <2>1 DEF Outcomes, Errors, EarlyErrors
<1> QED
    BY <1>1, <1>2

\* A leader already reaped is not signalled again, and its slot is given back.
LEMMA StepAlreadyReaped ==
    ASSUME IInv, NEW c \in Commands, AlreadyReaped(c)
    PROVE  IInv'
<1>1. pc[c] = "cleanup" /\ local[c].status
    BY DEF AlreadyReaped, At
<1> DEFINE l == local[c]
           result == Reconciled(l)
<1>2. /\ l \in Locals /\ c \in Foreground
      /\ l.forced # "no" => l.cancelled \/ l.output_incomplete
      /\ l.control = "none" => l.streams_done \/ l.forced = "over"
      /\ process' = [process EXCEPT ![c] = "reaped"]
    BY <1>1, InLoop DEF AlreadyReaped
<1>3. /\ ReleaseSlot(c) /\ ReturnWith(c, l, result)
      /\ UNCHANGED <<registry, supervision, strays, cancellation, observed>>
    BY DEF AlreadyReaped
<1> HIDE DEF l
<1>4. /\ result \in Outcomes \ (EarlyErrors \cup {"TerminationSupervised"})
      /\ result = "Ok" => l.streams_done /\ ~l.stream_error /\ ~l.cancelled
    BY <1>2, ReconciledFacts
<1> HIDE DEF result
<1> QED
    BY <1>2, <1>3, <1>4, ReturnStep

\* Draining keeps why the loop ended.
LEMMA DrainedFacts ==
    ASSUME NEW l \in Locals, NEW r \in Drained(l)
    PROVE  /\ r \in Locals
           /\ r.control = l.control /\ r.forced = l.forced
           /\ r.cancelled = l.cancelled /\ r.output_incomplete = l.output_incomplete
           /\ l.streams_done => r = l
    BY ReadFacts DEF Drained

\* A process is reaped here or handed over, and never dropped.
LEMMA StepTerminateAndReap ==
    ASSUME IInv, NEW c \in Commands, TerminateAndReap(c)
    PROVE  IInv'
<1>1. pc[c] = "cleanup" /\ ~local[c].status /\ Signalled(c)
    BY DEF TerminateAndReap, At
<1> DEFINE l == local[c]
<1>2. /\ l \in Locals /\ c \in Foreground /\ process[c] # "reaped"
      /\ l.forced # "no" => l.cancelled \/ l.output_incomplete
      /\ l.control = "none" => l.streams_done \/ l.forced = "over"
    BY <1>1, InLoop
<1>3. /\ ReleaseSlot(c) /\ process' = [process EXCEPT ![c] = "reaped"]
      /\ UNCHANGED <<registry, supervision, strays, cancellation, observed>>
    BY <1>1, <1>2 DEF TerminateAndReap, Leader, Signalled
<1>4. \/ ReturnWith(c, l, "Kill")
      \/ \E r \in Drained(l) : ReturnWith(c, r, Reconciled(r))
      \/ ReturnWith(c, l, "ReadOutput")
    BY DEF TerminateAndReap
<1> HIDE DEF l
<1>5. {"Kill", "ReadOutput"} \subseteq Outcomes \ (EarlyErrors \cup {"TerminationSupervised"})
    BY DEF Outcomes, Errors, EarlyErrors
<1>6. ASSUME NEW r \in Drained(l), ReturnWith(c, r, Reconciled(r)) PROVE IInv'
    <2> DEFINE result == Reconciled(r)
    <2>1. /\ r \in Locals
          /\ r.forced # "no" => r.cancelled \/ r.output_incomplete
          /\ r.control = "none" => r.streams_done \/ r.forced = "over"
        BY <1>2, <1>6, DrainedFacts DEF Drained
    <2>2. /\ result \in Outcomes \ (EarlyErrors \cup {"TerminationSupervised"})
          /\ result = "Ok" => r.streams_done /\ ~r.stream_error /\ ~r.cancelled
        BY <2>1, ReconciledFacts
    <2>3. ReturnWith(c, r, result)
        BY <1>6
    <2> HIDE DEF result
    <2> QED
        BY <1>2, <1>3, <2>1, <2>2, <2>3, ReturnStep
<1>7. ASSUME NEW result \in {"Kill", "ReadOutput"}, ReturnWith(c, l, result) PROVE IInv'
    BY <1>2, <1>3, <1>5, <1>7, ReturnStep
<1> QED
    BY <1>4, <1>6, <1>7

\* The child and its permit move to the registry, which did not have them.
LEMMA StepHandOff ==
    ASSUME IInv, NEW c \in Commands, HandOff(c)
    PROVE  IInv'
<1>1. pc[c] = "cleanup" /\ ~local[c].status /\ Signalled(c)
    BY DEF HandOff, At
<1>2. /\ c \in Foreground /\ process[c] \in {"alive", "exited"}
      /\ c \notin Registered /\ c \in permits
    BY <1>1, InLoop DEF IInv, CommandOK, ForegroundOK
<1>3. PICK state \in {"alive", "exited"} : process' = [process EXCEPT ![c] = state]
    BY <1>2 DEF HandOff, AfterSignal, Leader
<1>4. /\ ready' = Append(ready, c) /\ local' = [local EXCEPT ![c] = Fresh]
      /\ pc' = [pc EXCEPT ![c] = "notify"]
      /\ UNCHANGED <<outcome, permits, active_slots, worker, admission_health, panics, attempts,
                     delayed, in_flight, cancellation, observed, strays>>
    BY <1>1, <1>2 DEF HandOff, Push, Set, Goto, Signalled, supervision
<1>5. ready \in Seq(Commands) /\ ToSet(ready) \subseteq Commands
    BY DEF IInv, TypeOK, SupervisorTypeOK, ToSet
<1>6. /\ ready' \in Seq(Commands) /\ ToSet(ready') = ToSet(ready) \cup {c}
      /\ Len(ready') = Len(ready) + 1 /\ Len(ready) \in Nat
      /\ \A i \in 1..Len(ready) : ready'[i] = ready[i]
      /\ ready'[Len(ready) + 1] = c
    BY <1>4, <1>5, Queued
<1>7. Registered' = Registered \cup {c}
    BY <1>4, <1>6 DEF Registered
<1>8. RegistryOK'
    BY <1>2, <1>4, <1>5, <1>6, Pushed DEF IInv
<1>9. TypeOK'
    <2>1. SupervisorTypeOK'
        BY <1>3, <1>4, <1>6 DEF IInv, TypeOK, SupervisorTypeOK
    <2>2. Fresh \in Locals
        BY DEF Fresh, Locals
    <2>3. local' \in [Commands -> Locals]
        BY <1>4, <2>2 DEF IInv, TypeOK, Locals
    <2> QED
        BY <1>4, <2>1, <2>3 DEF IInv, TypeOK, Locals
<1>10. OthersAlone(c)
    BY <1>3, <1>4, <1>7 DEF IInv, OthersAlone, TypeOK, SupervisorTypeOK
<1>11. CommandOK(c)'
    <2>1. pc'[c] = "notify" /\ process'[c] = state /\ c \in Registered' /\ c \in permits'
        BY <1>2, <1>3, <1>4, <1>7 DEF IInv, TypeOK, SupervisorTypeOK
    <2> QED
        BY <2>1 DEF CommandOK, PreflightOK, ForegroundOK, EndedOK, ReportOK, Foreground
<1> QED
    BY <1>4, <1>8, <1>9, <1>10, <1>11, OneCommand, QuietSlots DEF IInv, NoStraySignal

\* Waking the worker moves no process.
LEMMA StepNotifyWorker ==
    ASSUME IInv, NEW c \in Commands, NotifyWorker(c)
    PROVE  IInv'
<1> USE DEF NotifyWorker, Notify, Goto, At, registry
<1>1. TypeOK'
    <2>1. SupervisorTypeOK'
        BY DEF IInv, TypeOK, SupervisorTypeOK
    <2> QED
        BY <2>1 DEF IInv, TypeOK
<1>2. RegistryOK' /\ Registered' = Registered
    BY QuietRegistry DEF IInv
<1>3. OthersAlone(c)
    BY <1>2 DEF IInv, OthersAlone, TypeOK
<1>4. CommandOK(c)'
    BY <1>2 DEF IInv, TypeOK, CommandOK, PreflightOK, ForegroundOK, EndedOK, ReportOK, Foreground
<1> QED
    BY <1>1, <1>2, <1>3, <1>4, OneCommand, QuietSlots DEF IInv, NoStraySignal

\* The caller returns without a permit, the registry keeps the process.
LEMMA StepReturnSupervised ==
    ASSUME IInv, NEW c \in Commands, ReturnSupervised(c)
    PROVE  IInv'
<1> USE DEF ReturnSupervised, WorkerStarted, WorkerUnavailable, Return, At, registry, supervision
<1>1. TypeOK'
    <2>1. SupervisorTypeOK'
        BY DEF IInv, TypeOK, SupervisorTypeOK
    <2>2. outcome' \in [Commands -> Outcomes \cup {"none"}]
        BY DEF IInv, TypeOK, Outcomes
    <2> QED
        BY <2>1, <2>2 DEF IInv, TypeOK
<1>2. RegistryOK' /\ Registered' = Registered
    BY QuietRegistry DEF IInv
<1>3. OthersAlone(c)
    BY <1>2 DEF IInv, OthersAlone, TypeOK
<1>4. CommandOK(c)'
    BY <1>2 DEF IInv, TypeOK, CommandOK, PreflightOK, ForegroundOK, EndedOK, ReportOK, Foreground
<1> QED
    BY <1>1, <1>2, <1>3, <1>4, OneCommand, QuietSlots DEF IInv, NoStraySignal

-----------------------------------------------------------------------------
(* The supervisor's steps *)

\* Whose command is in the registry is past the loop, and has not been told that
\* its group is gone.
LEMMA RegisteredFacts ==
    ASSUME IInv, NEW c \in Commands, c \in Registered
    PROVE  /\ pc[c] \in {"notify", "supervised", "returned"}
           /\ process[c] \in {"alive", "exited"} /\ c \in permits
           /\ pc[c] = "returned" => outcome[c] = "TerminationSupervised"
<1>1. pc[c] \in {"notify", "supervised", "returned"}
    BY DEF IInv, TypeOK, CommandOK, PreflightOK, ForegroundOK, Foreground
<1> QED
    BY <1>1 DEF IInv, CommandOK, EndedOK, ReportOK

\* A supervisor step that keeps every command where it is, with its permit.
LEMMA QuietStep ==
    ASSUME IInv, NEW c \in Commands, UNCHANGED callers, UNCHANGED <<permits, active_slots, strays>>,
           SupervisorTypeOK', RegistryOK', Registered' = Registered,
           process' = [process EXCEPT ![c] = process'[c]],
           process'[c] = process[c]
             \/ (process[c] \in {"alive", "exited"} /\ process'[c] \in {"alive", "exited"})
    PROVE  IInv'
<1>1. UNCHANGED <<pc, cancellation, observed, local, outcome>>
    BY DEF callers
<1>2. TypeOK'
    BY <1>1 DEF IInv, TypeOK
<1>3. OthersAlone(c)
    BY <1>1 DEF IInv, OthersAlone, TypeOK, SupervisorTypeOK
<1>4. CommandOK(c)'
    <2>1. CASE process'[c] = process[c]
        BY <1>1, <2>1, Frame DEF IInv
    <2>2. CASE process[c] \in {"alive", "exited"} /\ process'[c] \in {"alive", "exited"}
        <3>1. CommandOK(c)
            BY DEF IInv
        <3> QED
            BY <1>1, <2>2, <3>1
            DEF CommandOK, PreflightOK, ForegroundOK, EndedOK, ReportOK, Foreground
    <2> QED
        BY <2>1, <2>2
<1> QED
    BY <1>1, <1>2, <1>3, <1>4, OneCommand, QuietSlots DEF IInv, NoStraySignal

\* A leader may exit under whoever owns it.
LEMMA StepExit ==
    ASSUME IInv, NEW c \in Commands, Exit(c), UNCHANGED callers
    PROVE  IInv'
<1> USE DEF Exit, Leader, registry, supervision
<1>1. SupervisorTypeOK'
    BY DEF IInv, TypeOK, SupervisorTypeOK
<1>2. RegistryOK' /\ Registered' = Registered
    BY QuietRegistry DEF IInv
<1>3. process'[c] = "exited" /\ process' = [process EXCEPT ![c] = process'[c]]
    BY DEF IInv, TypeOK, SupervisorTypeOK
<1> QED
    BY <1>1, <1>2, <1>3, QuietStep

\* The worker goes back to its scan with nothing in flight lost.
LEMMA StepResumeLoop ==
    ASSUME IInv, ResumeLoop, UNCHANGED callers
    PROVE  IInv'
<1> USE DEF ResumeLoop, callers, registry, supervision
<1>1. TypeOK'
    BY DEF IInv, TypeOK, SupervisorTypeOK
<1>2. RegistryOK' /\ Registered' = Registered
    BY QuietRegistry DEF IInv
<1>3. ASSUME NEW d \in Commands PROVE CommandOK(d)'
    BY <1>2, Frame DEF IInv
<1> QED
    BY <1>1, <1>2, <1>3, QuietSlots DEF IInv, NoStraySignal

\* The worker is idle when it takes a command, so that it has none.
LEMMA StepTakeNextDue ==
    ASSUME IInv, TakeNextDue, UNCHANGED callers
    PROVE  IInv'
<1> USE DEF TakeNextDue, callers
<1>1. in_flight = {} /\ ready \in Seq(Commands)
    BY DEF IInv, RegistryOK, TypeOK, SupervisorTypeOK
<1>2. SupervisorTypeOK' /\ RegistryOK' /\ Registered' = Registered
    <2>1. CASE ready = <<>>
        <3>1. SupervisorTypeOK'
            BY <2>1 DEF IInv, TypeOK, SupervisorTypeOK
        <3> QED
            BY <2>1, <3>1, <1>1, QuietRegistry DEF IInv, registry
    <2>2. CASE ready # <<>>
        <3> DEFINE h == Head(ready)
        <3>1. /\ h \in Commands /\ h = ready[1] /\ Len(ready) \in Nat /\ Len(ready) >= 1
              /\ Tail(ready) \in Seq(Commands) /\ Len(Tail(ready)) = Len(ready) - 1
              /\ \A i \in 1..Len(Tail(ready)) : Tail(ready)[i] = ready[i + 1]
              /\ ToSet(ready) = ToSet(Tail(ready)) \cup {h}
            BY <1>1, <2>2, Dequeued
        <3>2. /\ in_flight' = {h} /\ ready' = Tail(ready) /\ worker' = "busy" /\ delayed' = delayed
            BY <2>2
        <3> HIDE DEF h
        <3>3. SupervisorTypeOK'
            BY <3>1, <3>2 DEF IInv, TypeOK, SupervisorTypeOK
        <3>4. Registered' = Registered
            BY <1>1, <3>1, <3>2 DEF Registered
        <3>5. RegistryOK'
            <4>1. /\ \A i, j \in 1..Len(ready) : ready[i] = ready[j] => i = j
                  /\ \A i \in 1..Len(ready) : ready[i] \notin delayed
                BY DEF IInv, RegistryOK
            <4>2. \A i \in 1..Len(ready') : i + 1 \in 1..Len(ready) /\ ready'[i] = ready[i + 1]
                BY <3>1, <3>2
            <4>3. \A i, j \in 1..Len(ready') : ready'[i] = ready'[j] => i = j
                BY <4>1, <4>2
            <4>4. \A i \in 1..Len(ready') : ready'[i] \notin delayed' /\ ready'[i] # h
                <5>1. 1 \in 1..Len(ready)
                    BY <3>1
                <5> QED
                    BY <4>1, <4>2, <3>1, <3>2, <5>1
            <4>5. h \notin delayed'
                BY <4>1, <3>1, <3>2
            <4> QED
                BY <3>2, <4>3, <4>4, <4>5 DEF RegistryOK
        <3> QED
            BY <3>3, <3>4, <3>5
    <2> QED
        BY <2>1, <2>2
<1>3. TypeOK'
    BY <1>2 DEF IInv, TypeOK
<1>4. ASSUME NEW d \in Commands PROVE CommandOK(d)'
    BY <1>2, Frame DEF IInv
<1> QED
    BY <1>2, <1>3, <1>4, QuietSlots DEF IInv, NoStraySignal

\* A delayed command becomes ready and stays registered.
LEMMA StepBecomesDue ==
    ASSUME IInv, NEW c \in Commands, BecomesDue(c), UNCHANGED callers
    PROVE  IInv'
<1>1. /\ c \in delayed /\ ready' = Append(ready, c) /\ delayed' = delayed \ {c}
      /\ UNCHANGED <<process, permits, active_slots, in_flight, admission_health,
                     panics, attempts, strays>>
      /\ worker' = IF worker = "dozing" THEN "scan" ELSE worker
    BY DEF BecomesDue
<1>2. ready \in Seq(Commands)
    BY DEF IInv, TypeOK, SupervisorTypeOK
<1>3. /\ ready' \in Seq(Commands) /\ ToSet(ready') = ToSet(ready) \cup {c}
      /\ Len(ready') = Len(ready) + 1 /\ Len(ready) \in Nat
      /\ \A i \in 1..Len(ready) : ready'[i] = ready[i]
      /\ ready'[Len(ready) + 1] = c
    BY <1>1, <1>2, Queued
<1>4. SupervisorTypeOK'
    BY <1>1, <1>3 DEF IInv, TypeOK, SupervisorTypeOK
<1>5. Registered' = Registered
    BY <1>1, <1>3 DEF Registered
<1>6. \A i \in 1..Len(ready) : ready[i] # c
    BY <1>1 DEF IInv, RegistryOK
<1>7. RegistryOK'
    <2>1. c \notin in_flight
        BY <1>1 DEF IInv, RegistryOK
    <2>2. \A i \in 1..Len(ready') : i \in 1..Len(ready) \/ i = Len(ready) + 1
        BY <1>3
    <2>3. \A i, j \in 1..Len(ready') : ready'[i] = ready'[j] => i = j
        BY <1>3, <1>6, <2>2 DEF IInv, RegistryOK
    <2>4. \A i \in 1..Len(ready') : ready'[i] \notin delayed' /\ ready'[i] \notin in_flight'
        BY <1>1, <1>3, <2>1, <2>2 DEF IInv, RegistryOK
    <2> QED
        BY <1>1, <2>3, <2>4 DEF IInv, RegistryOK
<1>8. process' = [process EXCEPT ![c] = process'[c]] /\ process'[c] = process[c]
    BY <1>1 DEF IInv, TypeOK, SupervisorTypeOK
<1> QED
    BY <1>1, <1>4, <1>5, <1>7, <1>8, QuietStep

\* The command the worker holds goes back to the registry.
LEMMA Requeued ==
    ASSUME IInv, NEW c \in Commands, c \in in_flight, Requeue(c)
    PROVE  /\ RegistryOK' /\ Registered' = Registered
           /\ ready' \in Seq(Commands) /\ delayed' \subseteq Commands /\ in_flight' = {}
<1> USE DEF Requeue
<1>1. in_flight = {c}
    BY DEF IInv, TypeOK, SupervisorTypeOK
<1>2. Registered' = Registered
    BY <1>1 DEF Registered
<1>3. RegistryOK'
    BY <1>1 DEF IInv, RegistryOK
<1> QED
    BY <1>2, <1>3 DEF IInv, TypeOK, SupervisorTypeOK

\* A command that could not be reaped stays registered, its leader unreaped.
LEMMA StepRetry ==
    ASSUME IInv, NEW c \in Commands, Retry(c), UNCHANGED callers
    PROVE  IInv'
<1>1. /\ c \in in_flight /\ Requeue(c) /\ worker' = "scan"
      /\ panics' = [panics EXCEPT ![c] = 0]
      /\ UNCHANGED <<permits, active_slots, admission_health>>
    BY DEF Retry
<1>2. /\ RegistryOK' /\ Registered' = Registered
      /\ ready' \in Seq(Commands) /\ delayed' \subseteq Commands /\ in_flight' = {}
    BY <1>1, Requeued
<1>3. process[c] \in {"alive", "exited"} /\ process \in [Commands -> {"none", "alive", "exited", "reaped"}]
    BY <1>1, RegisteredFacts DEF Registered, IInv, TypeOK, SupervisorTypeOK
<1>4. PICK state \in {"alive", "exited"} : process' = [process EXCEPT ![c] = state]
    BY <1>3 DEF Retry, AfterSignal, Leader
<1>5. UNCHANGED strays
    BY <1>3 DEF Retry, Signalled
<1>6. attempts' \in [Commands -> 0..MaxAttempts]
    <2>1. attempts \in [Commands -> 0..MaxAttempts]
        BY DEF IInv, TypeOK, SupervisorTypeOK
    <2>2. attempts' = attempts \/ (attempts[c] > 0 /\ attempts' = [attempts EXCEPT ![c] = @ - 1])
        BY DEF Retry
    <2> QED
        BY <2>1, <2>2, LimitsAssumption
<1>7. panics' \in [Commands -> 0..MaxPanics]
    BY <1>1, LimitsAssumption DEF IInv, TypeOK, SupervisorTypeOK
<1>8. SupervisorTypeOK'
    BY <1>1, <1>2, <1>3, <1>4, <1>5, <1>6, <1>7 DEF IInv, TypeOK, SupervisorTypeOK
<1>9. process' = [process EXCEPT ![c] = process'[c]] /\ process'[c] \in {"alive", "exited"}
    BY <1>3, <1>4
<1> QED
    BY <1>1, <1>2, <1>3, <1>5, <1>8, <1>9, QuietStep

\* A panic gives the command in flight back to the registry.
LEMMA StepProcessingPanics ==
    ASSUME IInv, NEW c \in Commands, ProcessingPanics(c), UNCHANGED callers
    PROVE  IInv'
<1> DEFINE count == IF panics[c] < MaxPanics THEN panics[c] + 1 ELSE MaxPanics
<1>1. /\ c \in in_flight /\ Requeue(c) /\ worker' = "backoff"
      /\ panics' = [panics EXCEPT ![c] = count]
      /\ admission_health' = IF count >= MaxPanics THEN "Degraded" ELSE admission_health
      /\ UNCHANGED <<process, permits, active_slots, attempts, strays>>
    BY DEF ProcessingPanics
<1>2. /\ RegistryOK' /\ Registered' = Registered
      /\ ready' \in Seq(Commands) /\ delayed' \subseteq Commands /\ in_flight' = {}
    BY <1>1, Requeued
<1>3. count \in 0..MaxPanics
    BY LimitsAssumption DEF IInv, TypeOK, SupervisorTypeOK
<1> HIDE DEF count
<1>4. SupervisorTypeOK'
    BY <1>1, <1>2, <1>3 DEF IInv, TypeOK, SupervisorTypeOK
<1>5. process' = [process EXCEPT ![c] = process'[c]] /\ process'[c] = process[c]
    BY <1>1 DEF IInv, TypeOK, SupervisorTypeOK
<1> QED
    BY <1>1, <1>2, <1>4, <1>5, QuietStep

\* The worker reaps a leader that is terminal and not reaped yet.
LEMMA StepReap ==
    ASSUME IInv, NEW c \in Commands, Reap(c), UNCHANGED callers
    PROVE  IInv'
<1>1. /\ c \in in_flight /\ process[c] = "exited" /\ process' = [process EXCEPT ![c] = "reaped"]
      /\ in_flight' = {} /\ ReleaseSlot(c) /\ worker' = "scan"
      /\ panics' = [panics EXCEPT ![c] = 0] /\ attempts' = [attempts EXCEPT ![c] = MaxAttempts]
      /\ UNCHANGED <<ready, delayed, admission_health, strays>>
    BY DEF Reap, Leader, Signalled
<1>2. UNCHANGED <<pc, cancellation, observed, local, outcome>>
    BY DEF callers
<1>3. c \in Registered
    BY <1>1 DEF Registered
<1>4. /\ SlotsOK' /\ permits' \subseteq Commands /\ active_slots' \in 0..MaxSlots
      /\ \A d \in Commands : d # c => (d \in permits' <=> d \in permits)
      /\ c \notin permits'
    BY <1>1, <1>3, RegisteredFacts, PermitDropped DEF IInv
<1>5. TypeOK'
    <2>1. panics' \in [Commands -> 0..MaxPanics] /\ attempts' \in [Commands -> 0..MaxAttempts]
        BY <1>1, LimitsAssumption DEF IInv, TypeOK, SupervisorTypeOK
    <2>2. SupervisorTypeOK'
        BY <1>1, <1>4, <2>1 DEF IInv, TypeOK, SupervisorTypeOK
    <2> QED
        BY <1>2, <2>2 DEF IInv, TypeOK
<1>6. in_flight = {c}
    BY <1>1 DEF IInv, TypeOK, SupervisorTypeOK
<1>7. RegistryOK' /\ Registered' = Registered \ {c}
    <2>1. RegistryOK'
        BY <1>1, <1>6 DEF IInv, RegistryOK
    <2>2. c \notin delayed
        BY <1>1 DEF IInv, RegistryOK
    <2>3. c \notin ToSet(ready)
        <3>1. ready \in Seq(Commands) /\ \A i \in 1..Len(ready) : ready[i] # c
            BY <1>1 DEF IInv, RegistryOK, TypeOK, SupervisorTypeOK
        <3> QED
            BY <3>1 DEF ToSet
    <2>4. Registered' = Registered \ {c}
        BY <1>1, <1>6, <2>2, <2>3 DEF Registered
    <2> QED
        BY <2>1, <2>4
<1>8. OthersAlone(c)
    BY <1>1, <1>2, <1>4, <1>7 DEF IInv, OthersAlone, TypeOK, SupervisorTypeOK
<1>9. CommandOK(c)'
    <2>1. process'[c] = "reaped" /\ c \notin Registered' /\ c \notin permits'
        BY <1>1, <1>4, <1>7 DEF IInv, TypeOK, SupervisorTypeOK
    <2>2. /\ pc'[c] \in {"notify", "supervised", "returned"}
          /\ pc'[c] = "returned" => outcome'[c] = "TerminationSupervised"
        BY <1>2, <1>3, RegisteredFacts
    <2> QED
        BY <2>1, <2>2 DEF CommandOK, PreflightOK, ForegroundOK, EndedOK, ReportOK, Foreground
<1> QED
    BY <1>1, <1>4, <1>5, <1>7, <1>8, <1>9, OneCommand DEF IInv, NoStraySignal

-----------------------------------------------------------------------------
(* The theorems *)

\* No command has a permit or a process, and the registry is empty.
LEMMA InitIInv ==
    ASSUME Init
    PROVE  IInv
<1> USE DEF Init, SupervisorInit
<1>1. TypeOK
    <2>1. Fresh \in Locals
        BY DEF Fresh, Locals
    <2>2. local \in [Commands -> Locals]
        BY <2>1
    <2>3. SupervisorTypeOK
        BY LimitsAssumption DEF SupervisorTypeOK
    <2>4. observed \in [Commands -> 0..MaxSlots]
        BY LimitsAssumption
    <2> QED
        BY <2>2, <2>3, <2>4 DEF TypeOK, Locals
<1>2. SlotsOK
    BY FS_EmptySet, LimitsAssumption DEF SlotsOK, SlotsAreExact
<1>3. Registered = {} /\ RegistryOK
    <2>1. Len(ready) = 0
        OBVIOUS
    <2>2. ToSet(ready) = {}
        BY DEF ToSet
    <2> QED
        BY <2>1, <2>2 DEF Registered, RegistryOK
<1>4. ASSUME NEW c \in Commands PROVE CommandOK(c)
    BY <1>3 DEF CommandOK, PreflightOK, ForegroundOK, EndedOK, ReportOK, Foreground
<1> QED
    BY <1>1, <1>2, <1>3, <1>4 DEF IInv, NoStraySignal

\* Every step of the callers, the processes and the worker keeps the invariant.
LEMMA NextIInv ==
    ASSUME IInv, Next
    PROVE  IInv'
<1>1. ASSUME UNCHANGED callers, TakeNextDue \/ ResumeLoop PROVE IInv'
    BY <1>1, StepTakeNextDue, StepResumeLoop
<1>2. ASSUME UNCHANGED callers, NEW c \in Commands,
             Exit(c) \/ BecomesDue(c) \/ Reap(c) \/ Retry(c) \/ ProcessingPanics(c)
      PROVE  IInv'
    BY <1>2, StepExit, StepBecomesDue, StepReap, StepRetry, StepProcessingPanics
<1>3. ASSUME NEW c \in Commands, Cancel(c) \/ GraceElapses(c) PROVE IInv'
    BY <1>3, StepCancel, StepGraceElapses
<1>4. ASSUME NEW c \in Commands, Caller(c) PROVE IInv'
    BY <1>4, StepBegin, StepEnsureWorkerStarted, StepEnsureAdmissionHealthy, StepLoadActiveSlots,
       StepReserveSlot, StepSpawn, StepCheckCancellation, StepObserve, StepDecide,
       StepAlreadyReaped, StepTerminateAndReap, StepHandOff, StepNotifyWorker,
       StepReturnSupervised DEF Caller
<1> QED
    BY <1>1, <1>2, <1>3, <1>4 DEF Next, SupervisorNext

\* So does a step that changes nothing.
LEMMA StutterIInv ==
    ASSUME IInv, UNCHANGED vars
    PROVE  IInv'
<1> USE DEF vars
<1>1. TypeOK'
    BY DEF IInv, TypeOK, SupervisorTypeOK
<1>2. RegistryOK' /\ Registered' = Registered
    BY QuietRegistry DEF IInv, registry
<1>3. ASSUME NEW d \in Commands PROVE CommandOK(d)'
    BY <1>2, Frame DEF IInv
<1> QED
    BY <1>1, <1>2, <1>3, QuietSlots DEF IInv, NoStraySignal

\* The invariant holds in every reachable state, for any commands and slots.
LEMMA Inductive == Spec => []IInv
<1>1. IInv /\ [Next]_vars => IInv'
    BY NextIInv, StutterIInv
<1> QED
    BY <1>1, InitIInv, PTL DEF Spec

\* Every variable of the callers and of the supervisor keeps its type, whatever
\* the number of callers: the counts of panics and attempts stay within their limits.
THEOREM TypeCorrect == Spec => []TypeOK
<1>1. IInv => TypeOK
    BY DEF IInv
<1> QED
    BY <1>1, Inductive, PTL

\* reserve_slot's compare-and-exchange and the permits' Drop keep active_slots equal
\* to the permits in existence, never more than MAX_COMMAND_SUPERVISION_SLOTS, for
\* any number of racing callers.
THEOREM SlotsTheorem == Spec => []SlotsAreExact
<1>1. IInv => SlotsAreExact
    BY DEF IInv, SlotsOK
<1> QED
    BY <1>1, Inductive, PTL

\* In the queue a command is at most once.
LEMMA AtMostOnce ==
    ASSUME RegistryOK, ready \in Seq(Commands), NEW c
    PROVE  LET at == {i \in 1..Len(ready) : ready[i] = c}
           IN  Cardinality(at) \in {0, 1} /\ (Cardinality(at) = 1 => c \notin delayed \cup in_flight)
<1> DEFINE at == {i \in 1..Len(ready) : ready[i] = c}
<1>1. CASE at = {}
    <2>1. Cardinality(at) = 0
        BY <1>1, FS_EmptySet
    <2> QED
        BY <2>1
<1>2. CASE at # {}
    <2>1. PICK i \in at : TRUE
        BY <1>2
    <2>2. at = {i}
        BY <2>1 DEF RegistryOK
    <2>3. Cardinality(at) = 1
        BY <2>2, FS_Singleton
    <2>4. c \notin delayed \cup in_flight
        BY <2>1 DEF RegistryOK
    <2> QED
        BY <2>3, <2>4
<1> QED
    BY <1>1, <1>2

\* At most one element of a set is a given one.
LEMMA OneOrNone ==
    ASSUME NEW S, NEW c
    PROVE  Cardinality({c} \cap S) = IF c \in S THEN 1 ELSE 0
<1>1. CASE c \in S
    <2>1. {c} \cap S = {c}
        BY <1>1
    <2> QED
        BY <1>1, <2>1, FS_Singleton
<1>2. CASE c \notin S
    <2>1. {c} \cap S = {}
        BY <1>2
    <2> QED
        BY <1>2, <2>1, FS_EmptySet
<1> QED
    BY <1>1, <1>2

\* A process group that is not reaped is owned by exactly one of its caller, the
\* registry and the worker, with a permit, across panics, cancellations, failed
\* kills and the hand-over of run_shell_command's cleanup.
THEOREM OwnershipTheorem == Spec => []EveryProcessIsOwned
<1>1. ASSUME IInv PROVE EveryProcessIsOwned
    <2>1. SUFFICES ASSUME NEW c \in Commands
                   PROVE  /\ process[c] \in {"alive", "exited"} =>
                                /\ c \in permits
                                /\ (c \in Foreground) # (c \in Registered)
                          /\ c \in Registered => process[c] \in {"alive", "exited"}
                          /\ Cardinality({i \in 1..Len(ready) : ready[i] = c})
                               + Cardinality({c} \cap delayed)
                               + Cardinality({c} \cap in_flight) <= 1
        BY DEF EveryProcessIsOwned
    <2>2. c \in Registered => process[c] \in {"alive", "exited"}
        BY <1>1, RegisteredFacts
    <2>3. ASSUME process[c] \in {"alive", "exited"}
          PROVE  c \in permits /\ (c \in Foreground) # (c \in Registered)
        <3>1. CommandOK(c)
            BY <1>1 DEF IInv
        <3>2. pc[c] \in {"check", "observe", "decide", "cleanup", "notify", "supervised", "returned"}
            BY <1>1, <2>3, <3>1 DEF IInv, TypeOK, CommandOK, PreflightOK
        <3>3. CASE c \in Foreground
            <4>1. c \notin Registered /\ c \in permits
                BY <3>1, <3>3 DEF CommandOK, ForegroundOK
            <4> QED
                BY <3>3, <4>1
        <3>4. CASE c \notin Foreground
            <4>1. pc[c] \in {"notify", "supervised", "returned"}
                BY <3>2, <3>4 DEF Foreground
            <4>2. c \in Registered /\ c \in permits
                BY <2>3, <3>1, <4>1 DEF CommandOK, EndedOK
            <4> QED
                BY <3>4, <4>2
        <3> QED
            BY <3>3, <3>4
    <2>4. Cardinality({i \in 1..Len(ready) : ready[i] = c})
            + Cardinality({c} \cap delayed) + Cardinality({c} \cap in_flight) <= 1
        <3> DEFINE queued == Cardinality({i \in 1..Len(ready) : ready[i] = c})
        <3>1. queued \in {0, 1} /\ (queued = 1 => c \notin delayed \cup in_flight)
            BY <1>1, AtMostOnce DEF IInv, TypeOK, SupervisorTypeOK
        <3>2. ~(c \in delayed /\ c \in in_flight)
            BY <1>1 DEF IInv, RegistryOK
        <3>3. /\ Cardinality({c} \cap delayed) = IF c \in delayed THEN 1 ELSE 0
              /\ Cardinality({c} \cap in_flight) = IF c \in in_flight THEN 1 ELSE 0
            BY OneOrNone
        <3> HIDE DEF queued
        <3>4. queued + Cardinality({c} \cap delayed) + Cardinality({c} \cap in_flight) <= 1
            BY <3>1, <3>2, <3>3
        <3> QED
            BY <3>4 DEF queued
    <2> QED
        BY <2>2, <2>3, <2>4
<1> QED
    BY <1>1, Inductive, PTL

\* What run_shell_command answers is true of the process group and of the output,
\* for every way its control loop and its cleanup can end.
THEOREM ReportTheorem == Spec => []ReportIsTrue
<1>1. ASSUME IInv PROVE ReportIsTrue
    BY <1>1 DEF IInv, CommandOK, ReportOK, ReportIsTrue, At
<1> QED
    BY <1>1, Inductive, PTL

\* No path of the loop, of the cleanup or of the worker signals a process group
\* whose leader was already reaped.
THEOREM NoStraySignalTheorem == Spec => []NoStraySignal
<1>1. IInv => NoStraySignal
    BY DEF IInv
<1> QED
    BY <1>1, Inductive, PTL

=============================================================================
