--------------------------- MODULE RunRecoveryProofs ---------------------------
(***************************************************************************)
(* A run and its log after an append error or a power loss, for any number *)
(* of turns, model events, call ids and stop reasons: whatever was written *)
(* replays, shows every effect and the true end, and reconciles.  And what *)
(* replay accepts, on timelines of every length and whatever they hold.    *)
(*                                                                         *)
(* Replay folds a timeline of any length.  The fold is a function that is  *)
(* defined by recursion; the first section derives its two equations from  *)
(* the well-foundedness of the natural numbers.                            *)
(***************************************************************************)
EXTENDS RunRecovery, ReplayTimelines, AgentRuntimeProofs, WellFoundedInduction

-----------------------------------------------------------------------------
(* Induction *)

\* Every set of numbers that is not empty has a least element.
LEMMA LeastElement ==
    ASSUME NEW T \in SUBSET Nat, T # {}
    PROVE  \E x \in T : \A y \in T : ~(y < x)
<1> DEFINE R == {ss \in Nat \X Nat : ss[1] < ss[2]}
<1>1. IsWellFoundedOn(R, Nat)
    BY NatLessThanWellFounded DEF OpToRel
<1>2. \E x \in T : \A y \in T : <<y, x>> \notin R
    <2> HIDE DEF R
    <2> QED
        BY <1>1, WFMin
<1> QED
    BY <1>2

\* A set of numbers that has 0 and, with each number, the next one, has them all.
LEMMA Induction ==
    ASSUME NEW P \in SUBSET Nat, 0 \in P, \A n \in P : n + 1 \in P
    PROVE  P = Nat
<1> SUFFICES ASSUME Nat \ P # {} PROVE FALSE
    OBVIOUS
<1>1. PICK x \in Nat \ P : \A y \in Nat \ P : ~(y < x)
    BY LeastElement
<1>2. x # 0 /\ x - 1 \in Nat
    BY <1>1
<1>3. x - 1 \in P
    BY <1>1, <1>2
<1> QED
    BY <1>1, <1>2, <1>3

\* What Max takes off a set of positions.
LEMMA MaxOfPositions ==
    ASSUME NEW n \in Nat, NEW s \in SUBSET (1..(n + 1))
    PROVE  /\ s # {} => Max(s) \in s
           /\ n + 1 \in s => Max(s) = n + 1
<1>1. ASSUME s # {} PROVE Max(s) \in s /\ \A y \in s : Max(s) >= y
    <2> DEFINE T == {k \in Nat : \A x \in s : x <= k}
    <2>1. n + 1 \in T
        OBVIOUS
    <2>2. PICK k \in T : \A y \in T : ~(y < k)
        BY <2>1, LeastElement
    <2>3. k \in s
        <3> SUFFICES ASSUME k \notin s PROVE FALSE
            OBVIOUS
        <3>1. PICK x \in s : x \in 1..(n + 1)
            BY <1>1
        <3>2. k \in Nat /\ k >= 1
            BY <3>1
        <3>3. \A y \in s : y <= k - 1
            <4> TAKE y \in s
            <4>1. y \in Nat /\ y <= k /\ y # k
                OBVIOUS
            <4> QED
                BY <3>2, <4>1
        <3>4. k - 1 \in T
            BY <3>2, <3>3
        <3> QED
            BY <2>2, <3>2, <3>4
    <2>4. \A y \in s : k >= y
        BY <2>2
    <2> QED
        BY <2>3, <2>4 DEF Max
<1>2. ASSUME n + 1 \in s PROVE Max(s) = n + 1
    <2>1. Max(s) \in 1..(n + 1) /\ Max(s) >= n + 1
        BY <1>1, <1>2
    <2> QED
        BY <2>1
<1> QED
    BY <1>1, <1>2

-----------------------------------------------------------------------------
(* The fold of a timeline *)

\* g is the function that defines the fold of the first n events, by sets of
\* positions whose greatest is taken off first.
IsFold(g, n, base, events, mode) ==
    g = [s \in SUBSET (1..n) |->
            IF s = {} THEN base
            ELSE ReplayStep(g[s \ {Max(s)}], events[Max(s)], mode)]

\* The recursion defines a function.
LEMMA FoldExists ==
    ASSUME NEW base, NEW events, NEW mode
    PROVE  \A n \in Nat : \E g : IsFold(g, n, base, events, mode)
<1> DEFINE P == {n \in Nat : \E g : IsFold(g, n, base, events, mode)}
<1>1. 0 \in P
    <2> DEFINE g == [s \in SUBSET (1..0) |-> base]
    <2>1. SUBSET (1..0) = {{}}
        OBVIOUS
    <2>2. g = [s \in SUBSET (1..0) |->
                  IF s = {} THEN base ELSE ReplayStep(g[s \ {Max(s)}], events[Max(s)], mode)]
        BY <2>1
    <2>3. IsFold(g, 0, base, events, mode)
        BY <2>2 DEF IsFold
    <2> QED
        BY <2>3
<1>2. ASSUME NEW n \in P PROVE n + 1 \in P
    <2>1. PICK g : IsFold(g, n, base, events, mode)
        OBVIOUS
    <2>2. \A s \in SUBSET (1..n) :
             g[s] = IF s = {} THEN base ELSE ReplayStep(g[s \ {Max(s)}], events[Max(s)], mode)
        BY <2>1 DEF IsFold
    <2> DEFINE h == [s \in SUBSET (1..(n + 1)) |->
                        IF n + 1 \in s THEN ReplayStep(g[s \ {n + 1}], events[n + 1], mode) ELSE g[s]]
    <2>3. ASSUME NEW s \in SUBSET (1..(n + 1))
          PROVE  h[s] = IF s = {} THEN base ELSE ReplayStep(h[s \ {Max(s)}], events[Max(s)], mode)
        <3>1. CASE n + 1 \in s
            <4>1. s \ {n + 1} \in SUBSET (1..(n + 1)) /\ n + 1 \notin s \ {n + 1}
                OBVIOUS
            <4>2. h[s \ {n + 1}] = g[s \ {n + 1}]
                BY <4>1
            <4> QED
                BY <3>1, <4>2, MaxOfPositions
        <3>2. CASE n + 1 \notin s
            <4>1. s \in SUBSET (1..n)
                BY <3>2
            <4>2. CASE s = {}
                BY <2>2, <3>2, <4>1, <4>2
            <4>3. CASE s # {}
                <5>1. s \ {Max(s)} \in SUBSET (1..(n + 1)) /\ n + 1 \notin s \ {Max(s)}
                    BY <3>2
                <5>2. h[s \ {Max(s)}] = g[s \ {Max(s)}]
                    BY <5>1
                <5>3. h[s] = g[s]
                    BY <3>2
                <5> QED
                    BY <2>2, <4>1, <4>3, <5>2, <5>3
            <4> QED
                BY <4>2, <4>3
        <3> QED
            BY <3>1, <3>2
    <2>4. h = [s \in SUBSET (1..(n + 1)) |->
                  IF s = {} THEN base ELSE ReplayStep(h[s \ {Max(s)}], events[Max(s)], mode)]
        BY <2>3
    <2>5. IsFold(h, n + 1, base, events, mode)
        BY <2>4 DEF IsFold
    <2> QED
        BY <2>5
<1> HIDE DEF P
<1>3. P = Nat
    <2>1. P \in SUBSET Nat
        BY DEF P
    <2> QED
        BY <1>1, <1>2, <2>1, Induction
<1> QED
    BY <1>3 DEF P

\* The value on the first k + 1 positions is one step from that on the first k.
LEMMA FoldRecursion ==
    ASSUME NEW n \in Nat, NEW k \in Nat, k + 1 <= n, NEW g, NEW base, NEW events, NEW mode,
           IsFold(g, n, base, events, mode)
    PROVE  g[1..(k + 1)] = ReplayStep(g[1..k], events[k + 1], mode)
<1> DEFINE s == 1..(k + 1)
<1>1. s \in SUBSET (1..n) /\ s \in SUBSET (1..(k + 1)) /\ k + 1 \in s /\ s # {}
    OBVIOUS
<1>2. s \ {k + 1} = 1..k
    OBVIOUS
<1> HIDE DEF s
<1>3. Max(s) = k + 1
    BY <1>1, MaxOfPositions
<1>4. g[s] = ReplayStep(g[s \ {Max(s)}], events[Max(s)], mode)
    BY <1>1 DEF IsFold
<1>5. g[s] = ReplayStep(g[1..k], events[k + 1], mode)
    BY <1>2, <1>3, <1>4
<1> QED
    BY <1>5 DEF s

\* The fold of a sequence of events, as Replay takes it.
Folded(events, base, mode) ==
    LET Step(st, e) == ReplayStep(st, e, mode)
    IN  FoldLeft(Step, base, events)

\* Its value is that of such a function, on all positions.
LEMMA FoldedDef ==
    ASSUME NEW E, NEW events \in Seq(E), NEW base, NEW mode
    PROVE  \E g : /\ IsFold(g, Len(events), base, events, mode)
                  /\ Folded(events, base, mode) = g[1..Len(events)]
<1> DEFINE iter == CHOOSE g : IsFold(g, Len(events), base, events, mode)
<1>1. IsFold(iter, Len(events), base, events, mode)
    BY FoldExists
<1>2. DOMAIN events = 1..Len(events)
    OBVIOUS
<1>3. Folded(events, base, mode) = iter[1..Len(events)]
    BY <1>2 DEF Folded, FoldLeft, MapThenFoldSet, IsFold
<1> QED
    BY <1>1, <1>3

\* Folding nothing.
LEMMA FoldedEmpty ==
    ASSUME NEW base, NEW mode
    PROVE  Folded(<<>>, base, mode) = base
<1>1. <<>> \in Seq({}) /\ Len(<<>>) = 0 /\ 1..0 = {}
    OBVIOUS
<1>2. \E g : /\ IsFold(g, Len(<<>>), base, <<>>, mode)
              /\ Folded(<<>>, base, mode) = g[1..Len(<<>>)]
    <2>1. <<>> \in Seq({})
        OBVIOUS
    <2> QED
        BY <2>1, FoldedDef
<1>3. PICK g : IsFold(g, 0, base, <<>>, mode) /\ Folded(<<>>, base, mode) = g[1..0]
    BY <1>1, <1>2
<1>4. {} \in SUBSET (1..0)
    OBVIOUS
<1> QED
    BY <1>1, <1>3, <1>4 DEF IsFold

\* One more event is one more step.
LEMMA FoldedAppend ==
    ASSUME NEW E, NEW events \in Seq(E), NEW e \in E, NEW base, NEW mode
    PROVE  Folded(Append(events, e), base, mode)
               = ReplayStep(Folded(events, base, mode), e, mode)
<1> DEFINE n == Len(events)
           more == Append(events, e)
<1>1. /\ n \in Nat /\ more \in Seq(E) /\ Len(more) = n + 1 /\ more[n + 1] = e
      /\ \A i \in 1..n : more[i] = events[i]
    OBVIOUS
<1> HIDE DEF n, more
<1>2. PICK g : IsFold(g, n, base, events, mode) /\ Folded(events, base, mode) = g[1..n]
    <2>1. \E g : /\ IsFold(g, Len(events), base, events, mode)
                 /\ Folded(events, base, mode) = g[1..Len(events)]
        BY FoldedDef
    <2> QED
        BY <2>1 DEF n
<1>3. PICK h : IsFold(h, n + 1, base, more, mode) /\ Folded(more, base, mode) = h[1..(n + 1)]
    <2>1. \E h : /\ IsFold(h, Len(more), base, more, mode)
                 /\ Folded(more, base, mode) = h[1..Len(more)]
        BY <1>1, FoldedDef
    <2> QED
        BY <1>1, <2>1
<1>4. \A k \in Nat : k <= n => g[1..k] = h[1..k]
    <2> DEFINE P == {k \in Nat : k <= n => g[1..k] = h[1..k]}
    <2>1. 0 \in P
        <3>1. 1..0 = {} /\ {} \in SUBSET (1..n) /\ {} \in SUBSET (1..(n + 1))
            OBVIOUS
        <3>2. g[{}] = base /\ h[{}] = base
            BY <1>2, <1>3, <3>1 DEF IsFold
        <3> QED
            BY <3>1, <3>2
    <2>2. ASSUME NEW k \in P PROVE k + 1 \in P
        <3> SUFFICES ASSUME k + 1 <= n PROVE g[1..(k + 1)] = h[1..(k + 1)]
            OBVIOUS
        <3>1. k \in Nat /\ k + 1 \in 1..n /\ k + 1 <= n + 1 /\ n + 1 \in Nat
            BY <1>1
        <3>2. g[1..(k + 1)] = ReplayStep(g[1..k], events[k + 1], mode)
            BY <1>1, <1>2, <3>1, FoldRecursion
        <3>3. h[1..(k + 1)] = ReplayStep(h[1..k], more[k + 1], mode)
            BY <1>3, <3>1, FoldRecursion
        <3>4. g[1..k] = h[1..k]
            BY <1>1
        <3> QED
            BY <1>1, <3>1, <3>2, <3>3, <3>4
    <2> HIDE DEF P
    <2>3. P \in SUBSET Nat
        BY DEF P
    <2>4. P = Nat
        BY <2>1, <2>2, <2>3, Induction
    <2> QED
        BY <2>4 DEF P
<1>5. h[1..(n + 1)] = ReplayStep(h[1..n], more[n + 1], mode)
    <2>1. n + 1 \in Nat /\ n + 1 <= n + 1
        BY <1>1
    <2> QED
        BY <1>1, <1>3, <2>1, FoldRecursion
<1>6. g[1..n] = h[1..n]
    BY <1>1, <1>4
<1> QED
    BY <1>1, <1>2, <1>3, <1>5, <1>6 DEF more

-----------------------------------------------------------------------------
(* What strict replay knows of a log *)

ReplayStates ==
    [accepted : BOOLEAN, run : {"this_run"}, finished : EventValues \cup {"no"},
     turns : SUBSET Nat, active : Nat,
     calls : SUBSET [id : Nat, turn : Nat, payload : EventValues],
     approvals : SUBSET [id : Nat, call : Nat],
     decisions : SUBSET [approval : Nat, decision : EventValues],
     results : SUBSET Nat,
     format : {"Undetermined", "Legacy", "Resolved"}]

\* The replay of the first n events of l.
ReplayedUpTo(l, n) == Replay(SubSeq(l, 1, n), "Strict")

\* Whether recovery would find call c: answered, or listed as work.
Found(st, c) == c \in st.results \cup RecoveryWork(st)

\* A replayed end is the status the latch keeps.
EndIsTrue(st, status) == st.finished # "no" => st.finished = status /\ status # "Undecided"

\* Whether the fold has taken the lifecycle step that event e records.
Reflected(st, e) ==
    /\ e.type = "ToolCallRequested" => \E c \in st.calls : c.id = e.call
    /\ e.type = "ToolResult" => e.call \in st.results
    /\ e.type = "ApprovalRequested" => \E a \in st.approvals : a.id = e.approval
    /\ e.type = "ApprovalResolved" => \E d \in st.decisions : d.approval = e.approval
    /\ e.type = "RunFinished" => st.finished # "no"

\* Every prefix of the log is a timeline that strict replay accepts and whose end,
\* if it has one, is the token's; no lifecycle step is recorded twice.
LogReplays ==
    /\ \A n \in 1..Len(log) :
          LET st == ReplayedUpTo(log, n)
          IN  st \in ReplayStates /\ st.accepted /\ EndIsTrue(st, terminal_status)
    /\ \A i \in 1..Len(log) : Reflected(Replayed, log[i])
    /\ \A i, j \in 1..Len(log) : i # j => ~SameDurableIdentity(log[i], log[j])

\* Wherever the log is cut behind its durable part, recovery finds every call
\* whose handler ran.
CutsShowEffects ==
    \A x \in ToSet(executed) : \A n \in synced..Len(log) :
        n > 0 /\ Found(ReplayedUpTo(log, n), x.call)

\* The turn of the run is the one replay is in.
TurnKnown(st) ==
    /\ \A t \in st.turns : t <= turn
    /\ pc \in {"turn", "start_turn"} => turn \notin st.turns
    /\ pc \in TurnLabels \ {"start_turn"} \/ (pc = "fail" /\ turn <= MaxTurns) =>
          turn \in st.turns /\ st.active = turn

Unanswered == InCall \ {"recorded"}

\* The calls replay knows are answered, but for the one that is being driven.
CallsKnown(st) ==
    /\ \A c \in st.calls : c.id <= tool_call_seq
    /\ \A id \in st.results : id <= tool_call_seq
    /\ pc \in Unanswered =>
          /\ Unresolved(st) = {tool_call_seq}
          /\ [id |-> tool_call_seq, turn |-> turn, payload |-> tool_calls[next_call]] \in st.calls
    /\ pc \notin Unanswered /\ (pc = "finish" => proposed \in {"Completed", "Failed"}) =>
          Unresolved(st) = {}

\* ... and so are the approvals; the decision on that call is the run's.
ApprovalsKnown(st) ==
    /\ \A a \in st.approvals : a.id <= approval_seq /\ \E c \in st.calls : c.id = a.call
    /\ \A d \in st.decisions : d.approval <= approval_seq
    /\ pc \in {"prepare", "ask"} => \A a \in st.approvals : a.call # tool_call_seq
    /\ pc \in {"decide", "resolve"} =>
          /\ [id |-> approval_seq, call |-> tool_call_seq] \in st.approvals
          /\ \A a \in st.approvals : a.call = tool_call_seq <=> a.id = approval_seq
          /\ \A d \in st.decisions : d.approval # approval_seq
    /\ pc = "resolve" => decision \in Decisions
    /\ pc \in {"authorize", "execute", "result"} => tool_call_seq \notin Pending(st)
    /\ pc \in {"authorize", "execute"} =>
          DecisionOn(st, tool_call_seq) \in {"Approve", "not_asked"}
    /\ pc = "result" =>
          IF output = "Denied" THEN DecisionOn(st, tool_call_seq) = "Deny"
          ELSE DecisionOn(st, tool_call_seq) \in {"Approve", "not_asked"}

\* Every call whose handler ran is answered, but for the one that has just run.
EffectsKnown(st) ==
    \A x \in ToSet(executed) :
        x.call \in st.results \/ (pc = "result" /\ x.call = tool_call_seq)

\* What is known while the run is on.
RunKnown ==
    pc \notin {"new", "returned"} =>
        /\ log # <<>>
        /\ Replayed.finished = "no"
        /\ TurnKnown(Replayed) /\ CallsKnown(Replayed)
        /\ ApprovalsKnown(Replayed) /\ EffectsKnown(Replayed)
        /\ pc \in InCall => synced = Len(log)

\* Strict replay takes event e next, e accounts for every effect, and the end it
\* records, if it does, is the given status.
Takes(e, status) ==
    /\ e.type = "RunFinished" => e.value \in TerminalRunStatus
    /\ log = <<>> => e.type = "RunStarted" /\ executed = <<>>
    /\ log # <<>> =>
          /\ ~Rejects(Replayed, e, "Strict")
          /\ \A x \in ToSet(executed) : x.call \in Record(Replayed, e).results
          /\ EndIsTrue(Record(Replayed, e), status)

\* An event that a failed append did not leave in the log may still be appended.
ReportTaken ==
    /\ pc = "new" => log = <<>> /\ executed = <<>>
    /\ outcome.kind = "Indeterminate" /\ outcome.event.seq = Len(log) + 1 =>
          Takes(outcome.event, terminal_status)

RunInv ==
    /\ TypeInv /\ EndInv /\ StopInv
    /\ LogReplays /\ CutsShowEffects /\ RunKnown /\ ReportTaken

\* After a power loss nothing happens any more.
RecoveryInv ==
    IF phase # "crashed" THEN RunInv
    ELSE EveryLogReplays /\ RecoveryFindsEffects /\ ReplayedEndIsTheTokens

-----------------------------------------------------------------------------
(* Replaying one event more *)

\* Two sequences of the same length with the same elements are equal.
LEMMA SameSequence ==
    ASSUME NEW E, NEW s \in Seq(E), NEW t \in Seq(E), Len(s) = Len(t),
           \A i \in 1..Len(s) : s[i] = t[i]
    PROVE  s = t
<1>1. s = [i \in 1..Len(s) |-> s[i]] /\ t = [i \in 1..Len(t) |-> t[i]]
    OBVIOUS
<1> QED
    BY <1>1

\* The prefixes of a sequence, of a longer one, and of a prefix.
LEMMA PrefixFacts ==
    ASSUME NEW E, NEW s \in Seq(E), NEW e \in E, NEW n \in 0..Len(s)
    PROVE  /\ SubSeq(s, 1, n) \in Seq(E) /\ Len(SubSeq(s, 1, n)) = n
           /\ \A i \in 1..n : SubSeq(s, 1, n)[i] = s[i]
           /\ SubSeq(s, 1, Len(s)) = s
           /\ SubSeq(Append(s, e), 1, n) = SubSeq(s, 1, n)
           /\ SubSeq(Append(s, e), 1, Len(s) + 1) = Append(s, e)
           /\ \A k \in 0..n : SubSeq(SubSeq(s, 1, n), 1, k) = SubSeq(s, 1, k)
<1> DEFINE t == Append(s, e)
<1>1. /\ t \in Seq(E) /\ Len(t) = Len(s) + 1 /\ Len(s) \in Nat /\ n \in Nat
      /\ \A i \in 1..Len(s) : t[i] = s[i]
    OBVIOUS
<1>2. ASSUME NEW u \in Seq(E), NEW k \in 0..Len(u)
      PROVE  /\ SubSeq(u, 1, k) \in Seq(E) /\ Len(SubSeq(u, 1, k)) = k
             /\ \A i \in 1..k : SubSeq(u, 1, k)[i] = u[i]
    BY <1>2
<1> HIDE DEF t
<1>3. SubSeq(s, 1, Len(s)) = s
    <2>1. Len(s) \in 0..Len(s)
        BY <1>1
    <2>2. /\ SubSeq(s, 1, Len(s)) \in Seq(E) /\ Len(SubSeq(s, 1, Len(s))) = Len(s)
          /\ \A i \in 1..Len(s) : SubSeq(s, 1, Len(s))[i] = s[i]
        BY <1>2, <2>1
    <2> QED
        BY <2>2, SameSequence
<1>4. SubSeq(t, 1, n) = SubSeq(s, 1, n)
    <2>1. n \in 0..Len(t)
        BY <1>1
    <2>2. /\ SubSeq(t, 1, n) \in Seq(E) /\ Len(SubSeq(t, 1, n)) = n
          /\ \A i \in 1..n : SubSeq(t, 1, n)[i] = t[i]
        BY <1>1, <1>2, <2>1
    <2>3. /\ SubSeq(s, 1, n) \in Seq(E) /\ Len(SubSeq(s, 1, n)) = n
          /\ \A i \in 1..n : SubSeq(s, 1, n)[i] = s[i]
        BY <1>2
    <2> QED
        BY <1>1, <2>2, <2>3, SameSequence
<1>5. SubSeq(t, 1, Len(s) + 1) = t
    <2>1. Len(t) \in 0..Len(t)
        BY <1>1
    <2>2. /\ SubSeq(t, 1, Len(t)) \in Seq(E) /\ Len(SubSeq(t, 1, Len(t))) = Len(t)
          /\ \A i \in 1..Len(t) : SubSeq(t, 1, Len(t))[i] = t[i]
        BY <1>1, <1>2, <2>1
    <2> QED
        BY <1>1, <2>2, SameSequence
<1>6. ASSUME NEW k \in 0..n PROVE SubSeq(SubSeq(s, 1, n), 1, k) = SubSeq(s, 1, k)
    <2>1. /\ SubSeq(s, 1, n) \in Seq(E) /\ Len(SubSeq(s, 1, n)) = n
          /\ \A i \in 1..n : SubSeq(s, 1, n)[i] = s[i]
        BY <1>2
    <2>2. k \in 0..Len(s) /\ k \in 0..Len(SubSeq(s, 1, n))
        BY <1>1, <2>1
    <2>3. /\ SubSeq(s, 1, k) \in Seq(E) /\ Len(SubSeq(s, 1, k)) = k
          /\ \A i \in 1..k : SubSeq(s, 1, k)[i] = s[i]
        BY <1>2, <2>2
    <2>4. /\ SubSeq(SubSeq(s, 1, n), 1, k) \in Seq(E) /\ Len(SubSeq(SubSeq(s, 1, n), 1, k)) = k
          /\ \A i \in 1..k : SubSeq(SubSeq(s, 1, n), 1, k)[i] = SubSeq(s, 1, n)[i]
        BY <1>2, <2>1, <2>2
    <2> QED
        BY <2>1, <2>3, <2>4, SameSequence
<1> QED
    BY <1>2, <1>3, <1>4, <1>5, <1>6 DEF t

\* A log that holds nothing but the start of its run.
LEMMA ReplayOne ==
    ASSUME NEW E, NEW e \in E, e.type = "RunStarted", NEW mode, mode # "Strict" => e.seq = 0
    PROVE  Replay(<<e>>, mode) = Started(e)
<1>1. <<e>> # <<>> /\ <<e>>[1] = e /\ Tail(<<e>>) = <<>>
    OBVIOUS
<1>2. mode # "Strict" => ~\E i \in 1..Len(<<e>>) : <<e>>[i].seq # 0
    OBVIOUS
<1>3. Replay(<<e>>, mode) = Folded(Tail(<<e>>), Started(<<e>>[1]), mode)
    BY <1>1, <1>2 DEF Replay, Folded
<1>4. Replay(<<e>>, mode) = Folded(<<>>, Started(e), mode)
    BY <1>1, <1>3
<1> QED
    BY <1>4, FoldedEmpty

\* A log that begins with the start of its run takes the next event in one step; legacy
\* replay only if no event has a sequence.
LEMMA ReplayNextIn ==
    ASSUME NEW E, NEW l \in Seq(E), NEW e \in E, l # <<>>, l[1].type = "RunStarted", NEW mode,
           mode # "Strict" => e.seq = 0 /\ \A i \in 1..Len(l) : l[i].seq = 0
    PROVE  Replay(Append(l, e), mode) = ReplayStep(Replay(l, mode), e, mode)
<1> DEFINE more == Append(l, e)
<1>1. more # <<>> /\ more[1] = l[1] /\ Tail(more) = Append(Tail(l), e) /\ Tail(l) \in Seq(E)
    <2>1. /\ more \in Seq(E) /\ Len(more) = Len(l) + 1 /\ Len(l) \in Nat \ {0}
          /\ more[Len(l) + 1] = e /\ \A i \in 1..Len(l) : more[i] = l[i]
        OBVIOUS
    <2> HIDE DEF more
    <2>2. /\ Tail(l) \in Seq(E) /\ Len(Tail(l)) = Len(l) - 1
          /\ \A i \in 1..(Len(l) - 1) : Tail(l)[i] = l[i + 1]
        BY <2>1
    <2>3. /\ Tail(more) \in Seq(E) /\ Len(Tail(more)) = Len(l)
          /\ \A i \in 1..Len(l) : Tail(more)[i] = more[i + 1]
        BY <2>1
    <2>4. /\ Append(Tail(l), e) \in Seq(E) /\ Len(Append(Tail(l), e)) = Len(l)
          /\ Append(Tail(l), e)[Len(l)] = e
          /\ \A i \in 1..(Len(l) - 1) : Append(Tail(l), e)[i] = Tail(l)[i]
        BY <2>1, <2>2
    <2>5. \A i \in 1..Len(l) : Tail(more)[i] = Append(Tail(l), e)[i]
        <3> TAKE i \in 1..Len(l)
        <3>1. CASE i = Len(l)
            BY <2>1, <2>3, <2>4, <3>1
        <3>2. CASE i # Len(l)
            <4>1. i \in 1..(Len(l) - 1) /\ i + 1 \in 1..Len(l)
                BY <2>1, <3>2
            <4> QED
                BY <2>1, <2>2, <2>3, <2>4, <4>1
        <3> QED
            BY <3>1, <3>2
    <2>6. Tail(more) = Append(Tail(l), e)
        BY <2>3, <2>4, <2>5, SameSequence
    <2>7. more # <<>>
        BY <2>1
    <2> QED
        BY <2>1, <2>2, <2>6, <2>7
<1>2. /\ mode # "Strict" => ~\E i \in 1..Len(l) : l[i].seq # 0
      /\ mode # "Strict" => ~\E i \in 1..Len(more) : more[i].seq # 0
    OBVIOUS
<1>3 Replay(l, mode) = Folded(Tail(l), Started(l[1]), mode)
    BY <1>2 DEF Replay, Folded
<1> HIDE DEF more
<1>4. Replay(more, mode) = Folded(Tail(more), Started(more[1]), mode)
    BY <1>1, <1>2 DEF Replay, Folded
<1>5. Folded(Append(Tail(l), e), Started(l[1]), mode)
          = ReplayStep(Folded(Tail(l), Started(l[1]), mode), e, mode)
    <2> DEFINE t == Tail(l)
               base == Started(l[1])
    <2>1. t \in Seq(E)
        BY <1>1
    <2> HIDE DEF t, base
    <2>2. Folded(Append(t, e), base, mode) = ReplayStep(Folded(t, base, mode), e, mode)
        BY <2>1, FoldedAppend
    <2> QED
        BY <2>2 DEF t, base
<1> QED
    BY <1>1, <1>3, <1>4, <1>5 DEF more

\* Strict replay always does.
LEMMA ReplayNext ==
    ASSUME NEW E, NEW l \in Seq(E), NEW e \in E, l # <<>>, l[1].type = "RunStarted"
    PROVE  Replay(Append(l, e), "Strict") = ReplayStep(Replay(l, "Strict"), e, "Strict")
    BY ReplayNextIn

-----------------------------------------------------------------------------
(* What recording an event does to the state of the fold *)

\* The state is a record with these fields.
IsState(st) ==
    st = [accepted |-> st.accepted, run |-> st.run, finished |-> st.finished,
          turns |-> st.turns, active |-> st.active, calls |-> st.calls,
          approvals |-> st.approvals, decisions |-> st.decisions, results |-> st.results,
          format |-> st.format]

\* Each field of the state after an event.
LEMMA FieldsAfter ==
    ASSUME NEW st, IsState(st), NEW e
    PROVE  LET after == Record(st, e)
           IN  /\ IsState(after)
               /\ after.accepted = st.accepted /\ after.run = st.run
               /\ after.finished = (IF e.type = "RunFinished" THEN e.value ELSE st.finished)
               /\ after.turns = (IF e.type = "TurnStarted" THEN st.turns \cup {e.turn} ELSE st.turns)
               /\ after.active = (IF e.type = "TurnStarted" THEN e.turn ELSE st.active)
               /\ after.calls = (IF e.type = "ToolCallRequested"
                                 THEN st.calls \cup {CallOf(e)} ELSE st.calls)
               /\ after.approvals = (IF e.type = "ApprovalRequested"
                                     THEN st.approvals \cup {[id |-> e.approval, call |-> e.call]}
                                     ELSE st.approvals)
               /\ after.decisions = (IF e.type = "ApprovalResolved"
                                     THEN st.decisions
                                            \cup {[approval |-> e.approval, decision |-> e.value]}
                                     ELSE st.decisions)
               /\ after.results = (IF e.type = "ToolResult"
                                   THEN st.results \cup {e.call} ELSE st.results)
               /\ after.format = (IF e.type = "ApprovalResolved" THEN "Resolved"
                                  ELSE IF e.type = "ToolResult" /\ DecisionOn(st, e.call) = "undecided"
                                       THEN "Legacy" ELSE st.format)
<1> DEFINE T == st.turns \cup {e.turn}
           C == st.calls \cup {CallOf(e)}
           A == st.approvals \cup {[id |-> e.approval, call |-> e.call]}
           D == st.decisions \cup {[approval |-> e.approval, decision |-> e.value]}
           S == st.results \cup {e.call}
           F == IF DecisionOn(st, e.call) = "undecided" THEN "Legacy" ELSE st.format
<1>1. /\ e.type = "TurnStarted" => Record(st, e) = [st EXCEPT !.turns = T, !.active = e.turn]
      /\ e.type = "ToolCallRequested" => Record(st, e) = [st EXCEPT !.calls = C]
      /\ e.type = "ApprovalRequested" => Record(st, e) = [st EXCEPT !.approvals = A]
      /\ e.type = "ApprovalResolved" =>
            Record(st, e) = [st EXCEPT !.decisions = D, !.format = "Resolved"]
      /\ e.type = "ToolResult" => Record(st, e) = [st EXCEPT !.results = S, !.format = F]
      /\ e.type = "RunFinished" => Record(st, e) = [st EXCEPT !.finished = e.value]
      /\ e.type \notin {"TurnStarted", "ToolCallRequested", "ApprovalRequested",
                        "ApprovalResolved", "ToolResult", "RunFinished"} => Record(st, e) = st
    BY DEF Record, IsState
<1> HIDE DEF T, C, A, D, S, F
<1>2. CASE e.type = "TurnStarted"
    <2>1. Record(st, e) = [st EXCEPT !.turns = T, !.active = e.turn]
        BY ONLY <1>1, <1>2
    <2> QED
        BY ONLY <2>1, <1>2, IsState(st) DEF IsState, T
<1>3. CASE e.type = "ToolCallRequested"
    <2>1. Record(st, e) = [st EXCEPT !.calls = C]
        BY ONLY <1>1, <1>3
    <2> QED
        BY ONLY <2>1, <1>3, IsState(st) DEF IsState, C
<1>4. CASE e.type = "ApprovalRequested"
    <2>1. Record(st, e) = [st EXCEPT !.approvals = A]
        BY ONLY <1>1, <1>4
    <2> QED
        BY ONLY <2>1, <1>4, IsState(st) DEF IsState, A
<1>5. CASE e.type = "ApprovalResolved"
    <2>1. Record(st, e) = [st EXCEPT !.decisions = D, !.format = "Resolved"]
        BY ONLY <1>1, <1>5
    <2> QED
        BY ONLY <2>1, <1>5, IsState(st) DEF IsState, D
<1>6. CASE e.type = "ToolResult"
    <2>1. Record(st, e) = [st EXCEPT !.results = S, !.format = F]
        BY ONLY <1>1, <1>6
    <2> QED
        BY ONLY <2>1, <1>6, IsState(st) DEF IsState, S, F
<1>7. CASE e.type = "RunFinished"
    <2>1. Record(st, e) = [st EXCEPT !.finished = e.value]
        BY ONLY <1>1, <1>7
    <2> QED
        BY ONLY <2>1, <1>7, IsState(st) DEF IsState
<1>8. CASE e.type \notin {"TurnStarted", "ToolCallRequested", "ApprovalRequested",
                          "ApprovalResolved", "ToolResult", "RunFinished"}
    <2>1. Record(st, e) = st
        BY ONLY <1>1, <1>8
    <2> QED
        BY ONLY <2>1, <1>8, IsState(st) DEF IsState
<1> QED
    BY <1>2, <1>3, <1>4, <1>5, <1>6, <1>7, <1>8

\* What an event changes in the state.
RecordsOnly(st, e, after) ==
    /\ after.accepted = st.accepted /\ after.run = st.run
    /\ after.finished = (IF e.type = "RunFinished" THEN e.value ELSE st.finished)
    /\ after.turns = (IF e.type = "TurnStarted" THEN st.turns \cup {e.turn} ELSE st.turns)
    /\ after.active = (IF e.type = "TurnStarted" THEN e.turn ELSE st.active)
    /\ after.calls = (IF e.type = "ToolCallRequested"
                      THEN st.calls \cup {CallOf(e)} ELSE st.calls)
    /\ after.approvals = (IF e.type = "ApprovalRequested"
                          THEN st.approvals \cup {[id |-> e.approval, call |-> e.call]}
                          ELSE st.approvals)
    /\ after.decisions = (IF e.type = "ApprovalResolved"
                          THEN st.decisions
                                 \cup {[approval |-> e.approval, decision |-> e.value]}
                          ELSE st.decisions)
    /\ after.results = (IF e.type = "ToolResult"
                        THEN st.results \cup {e.call} ELSE st.results)

\* The fields of the state after an event.
LEMMA RecordFields ==
    ASSUME NEW st \in ReplayStates, NEW e \in AgentEvents
    PROVE  Record(st, e) \in ReplayStates /\ RecordsOnly(st, e, Record(st, e))
<1> DEFINE after == Record(st, e)
<1>1. /\ e.turn \in Nat /\ e.call \in Nat /\ e.approval \in Nat /\ e.value \in EventValues
      /\ CallOf(e) \in [id : Nat, turn : Nat, payload : EventValues]
    BY DEF AgentEvents, CallOf
<1>2. /\ IsState(st) /\ st.accepted \in BOOLEAN /\ st.turns \in SUBSET Nat
      /\ st.calls \in SUBSET [id : Nat, turn : Nat, payload : EventValues]
      /\ st.approvals \in SUBSET [id : Nat, call : Nat]
      /\ st.decisions \in SUBSET [approval : Nat, decision : EventValues]
      /\ st.results \in SUBSET Nat /\ st.active \in Nat
      /\ st.format \in {"Undetermined", "Legacy", "Resolved"}
    BY DEF ReplayStates, IsState
<1>3. /\ IsState(after)
      /\ after.accepted = st.accepted /\ after.run = st.run
      /\ after.finished = (IF e.type = "RunFinished" THEN e.value ELSE st.finished)
      /\ after.turns = (IF e.type = "TurnStarted" THEN st.turns \cup {e.turn} ELSE st.turns)
      /\ after.active = (IF e.type = "TurnStarted" THEN e.turn ELSE st.active)
      /\ after.calls = (IF e.type = "ToolCallRequested"
                        THEN st.calls \cup {CallOf(e)} ELSE st.calls)
      /\ after.approvals = (IF e.type = "ApprovalRequested"
                            THEN st.approvals \cup {[id |-> e.approval, call |-> e.call]}
                            ELSE st.approvals)
      /\ after.decisions = (IF e.type = "ApprovalResolved"
                            THEN st.decisions
                                   \cup {[approval |-> e.approval, decision |-> e.value]}
                            ELSE st.decisions)
      /\ after.results = (IF e.type = "ToolResult"
                          THEN st.results \cup {e.call} ELSE st.results)
      /\ after.format = (IF e.type = "ApprovalResolved" THEN "Resolved"
                         ELSE IF e.type = "ToolResult" /\ DecisionOn(st, e.call) = "undecided"
                              THEN "Legacy" ELSE st.format)
    BY <1>2, FieldsAfter
<1> HIDE DEF after
<1>4. /\ after.accepted \in BOOLEAN /\ after.run = "this_run"
      /\ after.finished \in EventValues \cup {"no"}
    BY <1>1, <1>2, <1>3 DEF ReplayStates
<1>5. /\ after.turns \in SUBSET Nat /\ after.active \in Nat /\ after.results \in SUBSET Nat
      /\ after.format \in {"Undetermined", "Legacy", "Resolved"}
    BY <1>1, <1>2, <1>3
<1>6. after.calls \in SUBSET [id : Nat, turn : Nat, payload : EventValues]
    BY <1>1, <1>2, <1>3
<1>7. after.approvals \in SUBSET [id : Nat, call : Nat]
    BY <1>1, <1>2, <1>3
<1>8. after.decisions \in SUBSET [approval : Nat, decision : EventValues]
    BY <1>1, <1>2, <1>3
<1>9. after \in ReplayStates
    BY <1>3, <1>4, <1>5, <1>6, <1>7, <1>8 DEF ReplayStates, IsState
<1> QED
    BY <1>3, <1>9 DEF after, RecordsOnly

\* Replay starts with nothing known.
LEMMA StartedFields ==
    ASSUME NEW e \in AgentEvents
    PROVE  /\ Started(e) \in ReplayStates
           /\ Started(e).accepted /\ Started(e).finished = "no" /\ Started(e).run = "this_run"
           /\ Started(e).turns = {} /\ Started(e).calls = {} /\ Started(e).approvals = {}
           /\ Started(e).decisions = {} /\ Started(e).results = {}
    BY DEF Started, ReplayStates, AgentEvents

\* A recorded end is not taken for none.
LEMMA NoEndIsNoValue ==
    ASSUME NEW e \in AgentEvents, e.type = "RunFinished" => e.value \in TerminalRunStatus
    PROVE  e.type = "RunFinished" => e.value # "no"
    BY NoEndAssumption DEF TerminalRunStatus

\* What the fold has taken it keeps, and it takes the event it records.
LEMMA ReflectedStays ==
    ASSUME NEW st \in ReplayStates, NEW e \in AgentEvents, NEW x \in AgentEvents,
           e.type = "RunFinished" => e.value \in TerminalRunStatus
    PROVE  /\ Reflected(st, x) => Reflected(Record(st, e), x)
           /\ Reflected(Record(st, e), e)
<1> DEFINE after == Record(st, e)
<1>1. Reflected(after, e)
    <2>1. CallOf(e).id = e.call
        BY DEF CallOf
    <2>2. /\ e.type = "RunFinished" => after.finished = e.value
          /\ e.type = "ToolCallRequested" => CallOf(e) \in after.calls
          /\ e.type = "ApprovalRequested" => [id |-> e.approval, call |-> e.call] \in after.approvals
          /\ e.type = "ApprovalResolved" => [approval |-> e.approval, decision |-> e.value] \in after.decisions
          /\ e.type = "ToolResult" => e.call \in after.results
        <3>1. RecordsOnly(st, e, after)
            BY RecordFields
        <3> HIDE DEF after
        <3> QED
            BY ONLY <3>1 DEF RecordsOnly
    <2> HIDE DEF after
    <2> QED
        BY <2>1, <2>2, NoEndIsNoValue DEF Reflected
<1>2. /\ st.calls \subseteq after.calls /\ st.approvals \subseteq after.approvals
      /\ st.decisions \subseteq after.decisions /\ st.results \subseteq after.results
      /\ st.finished # "no" => after.finished # "no"
    <2>1. RecordsOnly(st, e, after)
        BY RecordFields
    <2>2. e.type = "RunFinished" => e.value # "no"
        BY NoEndIsNoValue
    <2> HIDE DEF after
    <2> QED
        BY ONLY <2>1, <2>2 DEF RecordsOnly
<1>3. Reflected(st, x) => Reflected(after, x)
    <2> HIDE DEF after
    <2> QED
        BY <1>2 DEF Reflected
<1> QED
    BY <1>1, <1>3

\* An event that repeats a lifecycle step is rejected.
LEMMA RepeatedIsRejected ==
    ASSUME NEW st, NEW e, NEW x, Reflected(st, x), ~Rejects(st, e, "Strict")
    PROVE  ~SameDurableIdentity(x, e) /\ ~SameDurableIdentity(e, x)
    BY DEF Reflected, Rejects, SameDurableIdentity, BadRequest, BadApprovalRequest, BadResolution,
           BadResult

-----------------------------------------------------------------------------
(* Appending to a log that replays *)


\* The whole log is one of its prefixes.
LEMMA WholeLog ==
    ASSUME TypeInv
    PROVE  /\ Len(log) \in Nat /\ synced \in 0..Len(log) /\ log \in Seq(AgentEvents)
           /\ log = <<>> <=> Len(log) = 0
           /\ ReplayedUpTo(log, Len(log)) = Replayed
<1>1. log \in Seq(AgentEvents) /\ synced \in 0..Len(log)
    BY DEF TypeInv, TypeOK
<1>2. CASE log = <<>>
    <2>1. SubSeq(log, 1, Len(log)) = log
        BY <1>2
    <2> QED
        BY <1>1, <1>2, <2>1 DEF ReplayedUpTo, Replayed
<1>3. CASE log # <<>>
    <2>1. log[1] \in AgentEvents /\ Len(log) \in 0..Len(log)
        BY <1>1, <1>3
    <2>2. SubSeq(log, 1, Len(log)) = log
        BY <1>1, <2>1, PrefixFacts
    <2>3. ReplayedUpTo(log, Len(log)) = Replayed
        BY <2>2 DEF ReplayedUpTo, Replayed
    <2>4. Len(log) # 0
        BY <1>1, <1>3
    <2> QED
        BY <1>1, <1>3, <2>3, <2>4
<1> QED
    BY <1>2, <1>3

\* Only a log that begins with the start of its run is accepted.
LEMMA LogBegins ==
    ASSUME TypeInv, LogReplays, log # <<>>
    PROVE  /\ log[1].type = "RunStarted"
           /\ Replayed \in ReplayStates /\ Replayed.accepted
           /\ EndIsTrue(Replayed, terminal_status)
<1>1. Len(log) \in 1..Len(log) /\ ReplayedUpTo(log, Len(log)) = Replayed
    BY WholeLog
<1>2. /\ Replayed \in ReplayStates /\ Replayed.accepted
      /\ EndIsTrue(Replayed, terminal_status)
    BY <1>1 DEF LogReplays
<1>3. NoRun.accepted = FALSE
    BY DEF NoRun, Started
<1>4. Replayed # NoRun
    BY <1>2, <1>3
<1>5. log[1].type = "RunStarted"
    BY <1>4 DEF Replayed, Replay
<1> QED
    BY <1>2, <1>5

\* A latch that has decided keeps its status.
StatusKept == terminal_status # "Undecided" => terminal_status' = terminal_status

\* A true end stays true.
LEMMA EndStaysTrue ==
    ASSUME NEW st, StatusKept, EndIsTrue(st, terminal_status)
    PROVE  EndIsTrue(st, terminal_status')
    BY DEF StatusKept, EndIsTrue

\* A step that appends nothing.
LEMMA LogStays ==
    ASSUME TypeInv, LogReplays, CutsShowEffects, StatusKept,
           UNCHANGED <<log, executed>>, synced' \in synced..Len(log)
    PROVE  LogReplays' /\ CutsShowEffects' /\ Replayed' = Replayed
<1>1. (\A n : ReplayedUpTo(log', n) = ReplayedUpTo(log, n)) /\ Replayed' = Replayed
    BY DEF ReplayedUpTo, Replayed
<1>2. \A n \in 1..Len(log) :
          LET st == ReplayedUpTo(log, n)
          IN  st \in ReplayStates /\ st.accepted /\ EndIsTrue(st, terminal_status')
    BY EndStaysTrue DEF LogReplays
<1>3. LogReplays'
    BY <1>1, <1>2 DEF LogReplays
<1>4. CutsShowEffects'
    BY <1>1, WholeLog DEF CutsShowEffects
<1> QED
    BY <1>1, <1>3, <1>4

\* A step that appends an event that replay takes, and runs no handler.
LEMMA LogTakes ==
    ASSUME TypeInv, LogReplays, CutsShowEffects, StatusKept, NEW e \in AgentEvents,
           Takes(e, terminal_status'),
           log' = Append(log, e), executed' = executed, synced' \in synced..(Len(log) + 1)
    PROVE  /\ LogReplays' /\ CutsShowEffects'
           /\ log' # <<>>
           /\ Replayed' = (IF log = <<>> THEN Started(e) ELSE Record(Replayed, e))
<1> DEFINE n == Len(log)
           after == IF log = <<>> THEN Started(e) ELSE Record(Replayed, e)
<1>1. /\ n \in Nat /\ synced \in 0..n /\ log \in Seq(AgentEvents) /\ (log = <<>> <=> n = 0)
      /\ Len(log') = n + 1 /\ log'[n + 1] = e /\ \A i \in 1..n : log'[i] = log[i] /\ log[i] \in AgentEvents
      /\ log' # <<>>
    BY WholeLog
<1>2. \A k \in 0..n : ReplayedUpTo(log', k) = ReplayedUpTo(log, k)
    <2> TAKE k \in 0..n
    <2>1. SubSeq(Append(log, e), 1, k) = SubSeq(log, 1, k)
        BY <1>1, PrefixFacts
    <2> QED
        BY <2>1 DEF ReplayedUpTo
<1>3. ReplayedUpTo(log', n + 1) = Replayed'
    <2>1. n \in 0..n
        BY <1>1
    <2>2. SubSeq(Append(log, e), 1, n + 1) = Append(log, e)
        BY <1>1, <2>1, PrefixFacts
    <2> QED
        BY <2>2 DEF ReplayedUpTo, Replayed
<1>4. Replayed' = after
    <2>1. CASE log = <<>>
        <3>1. Append(log, e) = <<e>> /\ e.type = "RunStarted"
            BY <2>1 DEF Takes
        <3> QED
            BY <2>1, <3>1, ReplayOne DEF Replayed
    <2>2. CASE log # <<>>
        <3>1. Replay(Append(log, e), "Strict") = ReplayStep(Replay(log, "Strict"), e, "Strict")
            BY <1>1, <2>2, LogBegins, ReplayNext
        <3>2. Replayed' = ReplayStep(Replayed, e, "Strict")
            BY <3>1 DEF Replayed
        <3> QED
            BY <2>2, <3>2, LogBegins DEF ReplayStep, Takes
    <2> QED
        BY <2>1, <2>2
<1>5. /\ after \in ReplayStates /\ after.accepted /\ EndIsTrue(after, terminal_status')
      /\ Reflected(after, e)
      /\ \A i \in 1..n : Reflected(after, log[i])
      /\ \A x \in ToSet(executed) : x.call \in after.results
    <2>1. CASE log = <<>>
        <3>1. after = Started(e) /\ e.type = "RunStarted" /\ executed = <<>> /\ n = 0
            BY <1>1, <2>1 DEF Takes
        <3>2. ToSet(executed) = {}
            BY <3>1 DEF ToSet
        <3>3. Reflected(after, e) /\ EndIsTrue(after, terminal_status')
            BY <3>1, StartedFields DEF Reflected, EndIsTrue
        <3> QED
            BY <1>1, <3>1, <3>2, <3>3, StartedFields
    <2>2. CASE log # <<>>
        <3>1. after = Record(Replayed, e) /\ Replayed \in ReplayStates /\ Replayed.accepted
            BY <2>2, LogBegins
        <3>2. /\ e.type = "RunFinished" => e.value \in TerminalRunStatus
              /\ EndIsTrue(after, terminal_status')
              /\ \A x \in ToSet(executed) : x.call \in after.results
            BY <2>2, <3>1 DEF Takes
        <3> HIDE DEF after
        <3>3. after \in ReplayStates /\ after.accepted
            BY <3>1, RecordFields DEF RecordsOnly
        <3>4. Reflected(after, e)
            BY <3>1, <3>2, ReflectedStays
        <3>5. ASSUME NEW i \in 1..n PROVE Reflected(after, log[i])
            <4>1. log[i] \in AgentEvents /\ Reflected(Replayed, log[i])
                BY <1>1 DEF LogReplays
            <4> QED
                BY <3>1, <3>2, <4>1, ReflectedStays
        <3> QED
            BY <3>2, <3>3, <3>4, <3>5
    <2> QED
        BY <2>1, <2>2
<1>6. \A i \in 1..n : ~SameDurableIdentity(log[i], e) /\ ~SameDurableIdentity(e, log[i])
    <2> TAKE i \in 1..n
    <2>1. log # <<>>
        BY <1>1
    <2>2. Reflected(Replayed, log[i]) /\ ~Rejects(Replayed, e, "Strict")
        BY <2>1 DEF LogReplays, Takes
    <2> QED
        BY <2>2, RepeatedIsRejected
<1> HIDE DEF n, after
<1>7. \A k \in 1..(n + 1) :
          LET st == ReplayedUpTo(log', k)
          IN  st \in ReplayStates /\ st.accepted /\ EndIsTrue(st, terminal_status')
    <2> TAKE k \in 1..(n + 1)
    <2>1. CASE k = n + 1
        BY <1>3, <1>4, <1>5, <2>1
    <2>2. CASE k # n + 1
        <3>1. k \in 1..n /\ k \in 0..n
            BY <1>1, <2>2
        <3>2. /\ ReplayedUpTo(log, k) \in ReplayStates /\ ReplayedUpTo(log, k).accepted
              /\ EndIsTrue(ReplayedUpTo(log, k), terminal_status)
            BY <3>1 DEF LogReplays, n
        <3> QED
            BY <1>2, <3>1, <3>2, EndStaysTrue
    <2> QED
        BY <2>1, <2>2
<1>8. \A i \in 1..(n + 1) : Reflected(Replayed', log'[i])
    BY <1>1, <1>4, <1>5
<1>9. \A i, j \in 1..(n + 1) : i # j => ~SameDurableIdentity(log'[i], log'[j])
    <2> TAKE i, j \in 1..(n + 1)
    <2>1. CASE i \in 1..n /\ j \in 1..n
        BY <1>1, <2>1 DEF LogReplays, n
    <2>2. CASE i = n + 1 \/ j = n + 1
        BY <1>1, <1>6, <2>2
    <2> QED
        BY <1>1, <2>1, <2>2
<1>10. LogReplays'
    BY <1>1, <1>7, <1>8, <1>9 DEF LogReplays
<1>11. CutsShowEffects'
    <2> SUFFICES ASSUME NEW x \in ToSet(executed), NEW k \in synced'..(n + 1)
                 PROVE  k > 0 /\ Found(ReplayedUpTo(log', k), x.call)
        BY <1>1 DEF CutsShowEffects
    <2>1. CASE k = n + 1
        BY <1>1, <1>3, <1>4, <1>5, <2>1 DEF Found
    <2>2. CASE k # n + 1
        <3>1. k \in synced..n /\ k \in 0..n
            BY <1>1, <2>2 DEF n
        <3>2. k > 0 /\ Found(ReplayedUpTo(log, k), x.call)
            BY <3>1 DEF CutsShowEffects, n
        <3> QED
            BY <1>2, <3>1, <3>2
    <2> QED
        BY <2>1, <2>2
<1> QED
    BY <1>1, <1>4, <1>10, <1>11 DEF after

-----------------------------------------------------------------------------
(* One append of the run *)

\* What is known of a run that is on.
LEMMA RunIsKnown ==
    ASSUME RunInv, pc \notin {"new", "returned"}
    PROVE  /\ log # <<>> /\ Replayed \in ReplayStates /\ Replayed.accepted
           /\ Replayed.finished = "no" /\ Replayed.run = "this_run"
           /\ TurnKnown(Replayed) /\ CallsKnown(Replayed)
           /\ ApprovalsKnown(Replayed) /\ EffectsKnown(Replayed)
           /\ pc \in InCall => synced = Len(log)
           /\ outcome.kind # "Indeterminate"
<1>1. log # <<>> /\ Replayed \in ReplayStates /\ Replayed.accepted
    BY LogBegins DEF RunInv, RunKnown
<1>2. Replayed.run = "this_run"
    BY <1>1 DEF ReplayStates
<1>3. outcome.kind # "Indeterminate"
    BY DEF RunInv, EndInv, OpenOK
<1> QED
    BY <1>1, <1>2, <1>3 DEF RunInv, RunKnown

\* An event of a run that is on and that fits what replay knows is taken.
LEMMA FittingIsTaken ==
    ASSUME RunInv, pc \notin {"new", "returned"}, NEW e \in AgentEvents,
           e.type \notin {"RunStarted", "RunFinished"},
           ~BadTurn(Replayed, e), ~BadRequest(Replayed, e), ~BadApprovalRequest(Replayed, e),
           ~BadResolution(Replayed, e, "Strict"), ~BadResult(Replayed, e, "Strict"),
           pc = "result" => e.type = "ToolResult" /\ e.call = tool_call_seq
    PROVE  Takes(e, terminal_status)
<1>1. e.run = "this_run"
    BY DEF AgentEvents
<1>2. ~Rejects(Replayed, e, "Strict")
    BY <1>1, RunIsKnown DEF Rejects, BadFinish
<1>3. Record(Replayed, e).finished = "no"
    BY RunIsKnown, RecordFields DEF RecordsOnly
<1>4. EndIsTrue(Record(Replayed, e), terminal_status)
    BY <1>3 DEF EndIsTrue
<1>5. ASSUME NEW x \in ToSet(executed) PROVE x.call \in Record(Replayed, e).results
    <2>1. x.call \in Replayed.results \/ (pc = "result" /\ x.call = tool_call_seq)
        BY RunIsKnown DEF EffectsKnown
    <2>2. Record(Replayed, e).results =
              (IF e.type = "ToolResult" THEN Replayed.results \cup {e.call} ELSE Replayed.results)
        BY RunIsKnown, RecordFields DEF RecordsOnly
    <2> QED
        BY <2>1, <2>2
<1> QED
    BY <1>2, <1>4, <1>5, RunIsKnown DEF Takes

\* What an accepted append makes of the log.
LEMMA CommittedIsTaken ==
    ASSUME RunInv, NEW e \in AgentEvents, NEW durability, StatusKept, Takes(e, terminal_status'),
           UNCHANGED executed, Committed(e, durability)
    PROVE  /\ LogReplays' /\ CutsShowEffects' /\ log' # <<>>
           /\ Replayed' = (IF log = <<>> THEN Started(e) ELSE Record(Replayed, e))
           /\ Len(log') = Len(log) + 1
           /\ durability = "Durable" => synced' = Len(log')
<1>1. Len(log) \in Nat /\ synced \in 0..Len(log) /\ log \in Seq(AgentEvents)
    BY WholeLog DEF RunInv
<1>2. /\ log' = Append(log, e) /\ synced' \in synced..(Len(log) + 1)
      /\ Len(log') = Len(log) + 1
      /\ durability = "Durable" => synced' = Len(log')
    BY <1>1 DEF Committed
<1> QED
    BY <1>2, LogTakes DEF RunInv

\* What a failed append makes of it: the event is in the log, or may be appended.
LEMMA IndeterminateIsTaken ==
    ASSUME RunInv, NEW e \in AgentEvents, NEW durability, StatusKept, Takes(e, terminal_status'),
           UNCHANGED executed, pc # "returned", e.seq = next_event_sequence,
           Indeterminate(e, durability)
    PROVE  LogReplays' /\ CutsShowEffects' /\ ReportTaken' /\ RunKnown'
<1>1. Len(log) \in Nat /\ synced \in 0..Len(log) /\ log \in Seq(AgentEvents)
    BY WholeLog DEF RunInv
<1>2. e.seq = Len(log) + 1
    BY DEF RunInv, EndInv, SequenceOK
<1>3. /\ outcome'.kind = "Indeterminate" /\ outcome'.event = e /\ pc' = "returned"
      /\ synced' = synced
    BY DEF Indeterminate
<1>4. RunKnown'
    BY <1>3 DEF RunKnown
<1>5. CASE log' = Append(log, e)
    <2>1. synced' \in synced..(Len(log) + 1) /\ Len(log') = Len(log) + 1
        BY <1>1, <1>3, <1>5
    <2>2. LogReplays' /\ CutsShowEffects'
        BY <1>5, <2>1, LogTakes DEF RunInv
    <2>3. ReportTaken'
        BY <1>1, <1>2, <1>3, <2>1 DEF ReportTaken
    <2> QED
        BY <1>4, <2>2, <2>3
<1>6. CASE log' = log
    <2>1. synced' \in synced..Len(log)
        BY <1>1, <1>3
    <2>2. LogReplays' /\ CutsShowEffects' /\ Replayed' = Replayed
        BY <1>6, <2>1, LogStays DEF RunInv
    <2>3. ReportTaken'
        BY <1>3, <1>6, <2>2 DEF ReportTaken, Takes
    <2> QED
        BY <1>4, <2>2, <2>3
<1> QED
    BY <1>5, <1>6 DEF Indeterminate

\* An append of the run: the rest is to show what is known if it is accepted.
LEMMA EmitIsTaken ==
    ASSUME RunInv, NEW e \in AgentEvents, NEW durability, NEW next, Takes(e, terminal_status),
           UNCHANGED <<latch, executed>>, pc # "returned", e.seq = next_event_sequence,
           next # "new", Emit(e, durability, next)
    PROVE  /\ LogReplays' /\ CutsShowEffects' /\ ReportTaken'
           /\ \/ RunKnown'
              \/ /\ pc' = next /\ log' # <<>>
                 /\ Replayed' = (IF log = <<>> THEN Started(e) ELSE Record(Replayed, e))
                 /\ durability = "Durable" => synced' = Len(log')
<1>1. StatusKept /\ Takes(e, terminal_status')
    BY DEF StatusKept, latch
<1>2. CASE Indeterminate(e, durability)
    BY <1>1, <1>2, IndeterminateIsTaken
<1>3. CASE Committed(e, durability) /\ pc' = next /\ UNCHANGED outcome
    <2>1. outcome.kind # "Indeterminate"
        BY DEF RunInv, EndInv, OpenOK
    <2>2. ReportTaken'
        BY <1>3, <2>1 DEF ReportTaken
    <2> QED
        BY <1>1, <1>3, <2>2, CommittedIsTaken
<1> QED
    BY <1>2, <1>3 DEF Emit

\* A step of the run that appends nothing and runs no handler.
LEMMA QuietKeepsLog ==
    ASSUME RunInv, StatusKept, UNCHANGED <<sink, executed>>, pc' # "new" \/ pc = "new"
    PROVE  LogReplays' /\ CutsShowEffects' /\ ReportTaken' /\ Replayed' = Replayed
<1>1. synced' \in synced..Len(log)
    BY WholeLog DEF RunInv, sink
<1>2. LogReplays' /\ CutsShowEffects' /\ Replayed' = Replayed
    BY <1>1, LogStays DEF RunInv, sink
<1>3. ASSUME NEW st, EndIsTrue(st, terminal_status) PROVE EndIsTrue(st, terminal_status')
    BY <1>3, EndStaysTrue
<1>4. ReportTaken'
    <2>1. \A e : Takes(e, terminal_status) => (Takes(e, terminal_status))'
        BY <1>2, <1>3 DEF Takes, sink
    <2> QED
        BY <2>1 DEF ReportTaken, RunInv, sink
<1> QED
    BY <1>2, <1>4

-----------------------------------------------------------------------------
(* The steps of the run *)

\* What a step of the run has to keep.
Kept == LogReplays' /\ CutsShowEffects' /\ RunKnown' /\ ReportTaken'

\* While a run is on, the latch has decided nothing or a stop.
LEMMA OnlyStopsAreKept ==
    ASSUME RunInv, pc # "returned"
    PROVE  /\ terminal_status \in Stops \cup {"Undecided"}
           /\ cancellation => terminal_status \in Stops
           /\ Stops \cap {"Undecided", "Completed", "Failed"} = {}
    BY StopsAssumption
    DEF RunInv, TypeInv, TypeOK, ControlOK, LatchTypeOK, StopInv, LatchOK, TerminalRunStatus

\* A checkpoint lets the run go on, or leaves the loop with a stop as its status.
LEMMA CheckpointKnown ==
    ASSUME RunInv, pc # "returned", NEW next, Checkpoint(next) \/ StoppedOr(next)
    PROVE  /\ StatusKept
           /\ pc' = next \/ (pc' = "finish" /\ proposed' \in Stops)
<1>1. CASE StoppedOr(next)
    BY <1>1, OnlyStopsAreKept DEF StoppedOr, StopNow, StatusKept, latch
<1>2. ASSUME NEW stop \in Stops, ResolveTerminal(stop), pc' = "finish", proposed' = Resolved(stop)
      PROVE  StatusKept /\ proposed' \in Stops
    BY <1>2, OnlyStopsAreKept DEF StatusKept, ResolveTerminal, Resolved
<1> QED
    BY <1>1, <1>2 DEF Checkpoint

\* The steps between two turns and within the model's stream that append nothing.
LEMMA TurnSteps ==
    ASSUME RunInv,
           BeginTurn \/ TurnLimitReached \/ OpenStream \/ StreamYields \/ StreamEnds
              \/ TurnCollected \/ TurnDone
    PROVE  Kept
<1> DEFINE st == Replayed
<1>1. /\ UNCHANGED <<sink, executed, tool_call_seq, approval_seq>>
      /\ pc \in {"turn", "open_stream", "stream", "collected", "call"}
    BY DEF BeginTurn, TurnLimitReached, OpenStream, StreamYields, StreamEnds, TurnCollected, TurnDone,
           call, effects
<1>2. /\ StatusKept
      /\ \/ pc = "turn" /\ turn <= MaxTurns /\ pc' \in {"start_turn", "finish"} /\ turn' = turn
         \/ pc = "turn" /\ turn > MaxTurns /\ pc' = "fail" /\ turn' = turn
         \/ pc = "open_stream" /\ pc' \in {"stream", "fail", "finish"} /\ turn' = turn
         \/ pc = "stream" /\ pc' \in {"model_event", "fail", "finish"} /\ turn' = turn
         \/ pc = "collected" /\ pc' \in {"call", "finish"} /\ turn' = turn
         \/ pc = "call" /\ pc' = "turn" /\ turn' = turn + 1
    <2>1. CASE BeginTurn
        BY <1>1, <2>1, CheckpointKnown DEF BeginTurn, stream
    <2>2. CASE TurnLimitReached
        BY <2>2 DEF TurnLimitReached, stream, latch, StatusKept
    <2>3. CASE OpenStream
        BY <1>1, <2>3, CheckpointKnown DEF OpenStream, stream, latch, StatusKept
    <2>4. CASE StreamYields \/ StreamEnds
        BY <1>1, <2>4, CheckpointKnown DEF StreamYields, StreamEnds, stream
    <2>5. CASE TurnCollected
        BY <2>5 DEF TurnCollected, StopNow, stream, latch, StatusKept
    <2>6. CASE TurnDone
        BY <2>6 DEF TurnDone, latch, StatusKept
    <2> QED
        BY <2>1, <2>2, <2>3, <2>4, <2>5, <2>6
<1>3. LogReplays' /\ CutsShowEffects' /\ ReportTaken' /\ Replayed' = Replayed
    BY <1>1, <1>2, QuietKeepsLog
<1>4. /\ log # <<>> /\ st \in ReplayStates /\ st.finished = "no"
      /\ TurnKnown(st) /\ CallsKnown(st) /\ ApprovalsKnown(st) /\ EffectsKnown(st)
    BY <1>1, RunIsKnown
<1>5. turn \in Nat /\ MaxTurns \in Nat /\ \A t \in st.turns : t \in Nat
    BY <1>4, BoundsAssumption DEF RunInv, TypeInv, TypeOK, ReplayStates
<1> HIDE DEF st
<1>6. TurnKnown(st)'
    BY <1>2, <1>3, <1>4, <1>5 DEF TurnKnown, TurnLabels, InCall, st
<1>7. CallsKnown(st)'
    BY <1>1, <1>2, <1>3, <1>4 DEF CallsKnown, Unanswered, InCall, st
<1>8. ApprovalsKnown(st)' /\ EffectsKnown(st)'
    BY <1>1, <1>2, <1>3, <1>4 DEF ApprovalsKnown, EffectsKnown, st
<1> QED
    BY <1>1, <1>2, <1>3, <1>4, <1>6, <1>7, <1>8 DEF Kept, RunKnown, InCall, st, sink

\* The start of the run is all that a new log takes.
LEMMA StartStep ==
    ASSUME RunInv, StartRun
    PROVE  Kept
<1> DEFINE e == RunStarted
<1>1. /\ pc = "new" /\ log = <<>> /\ executed = <<>> /\ UNCHANGED <<latch, executed, turn>>
      /\ Emit(e, "Buffered", "turn")
    BY DEF StartRun, RunInv, ReportTaken, effects, stream
<1>2. e \in AgentEvents /\ e.type = "RunStarted" /\ e.seq = next_event_sequence
    BY EventsAreTyped DEF RunStarted, Event, RunInv
<1> HIDE DEF e
<1>3. Takes(e, terminal_status)
    BY <1>1, <1>2 DEF Takes
<1>4. /\ LogReplays' /\ CutsShowEffects' /\ ReportTaken'
      /\ \/ RunKnown'
         \/ pc' = "turn" /\ log' # <<>> /\ Replayed' = Started(e)
    BY <1>1, <1>2, <1>3, EmitIsTaken
<1>5. ASSUME pc' = "turn", log' # <<>>, Replayed' = Started(e) PROVE RunKnown'
    <2> DEFINE st == Replayed
    <2>1. /\ st'.finished = "no" /\ st'.turns = {} /\ st'.calls = {} /\ st'.approvals = {}
          /\ st'.decisions = {} /\ st'.results = {}
        BY <1>2, <1>5, StartedFields
    <2>2. ToSet(executed') = {}
        BY <1>1 DEF ToSet
    <2> HIDE DEF st
    <2>3. TurnKnown(st)' /\ CallsKnown(st)' /\ ApprovalsKnown(st)' /\ EffectsKnown(st)'
        BY <1>5, <2>1, <2>2
        DEF TurnKnown, CallsKnown, ApprovalsKnown, EffectsKnown, Unresolved, TurnLabels, Unanswered, InCall
    <2> QED
        BY <1>5, <2>1, <2>3 DEF RunKnown, InCall, st
<1> QED
    BY <1>4, <1>5 DEF Kept

\* Events that tell replay nothing but, at most, that a turn has begun.
LEMMA TurnEventSteps ==
    ASSUME RunInv, StartTurn \/ Fail \/ \E m \in ModelStreamEvents : RecordModelEvent(m)
    PROVE  Kept
<1> DEFINE st == Replayed
<1>1. PICK e \in AgentEvents, next \in {"open_stream", "collected", "fail", "stream", "finish"} :
          /\ Emit(e, "Buffered", next) /\ e.seq = next_event_sequence
          /\ \/ pc = "start_turn" /\ next = "open_stream" /\ e.type = "TurnStarted" /\ e.turn = turn
             \/ pc = "model_event" /\ next # "finish" /\ e.type = "ModelOutput" /\ e.turn = turn
             \/ /\ pc = "fail" /\ next = "finish" /\ e.type = "Error"
                /\ e.turn = (IF turn <= MaxTurns THEN turn ELSE 0)
    <2>1. CASE StartTurn
        BY <2>1, EventsAreTyped DEF StartTurn, TurnStarted, Event, RunInv
    <2>2. CASE Fail
        BY <2>2, EventsAreTyped DEF Fail, FatalError, Event, RunInv
    <2>3. ASSUME NEW m \in ModelStreamEvents, RecordModelEvent(m)
          PROVE  /\ pc = "model_event" /\ ModelOutput(m) \in AgentEvents
                 /\ \E next \in {"collected", "fail", "stream"} : Emit(ModelOutput(m), "Buffered", next)
                 /\ ModelOutput(m).seq = next_event_sequence /\ ModelOutput(m).turn = turn
                 /\ ModelOutput(m).type = "ModelOutput"
        BY <2>3, EventsAreTyped DEF RecordModelEvent, ModelOutput, Event, RunInv
    <2> QED
        BY <2>1, <2>2, <2>3
<1>2. /\ UNCHANGED <<latch, executed, turn, tool_call_seq, approval_seq>>
      /\ pc \in {"start_turn", "model_event", "fail"}
    BY DEF StartTurn, Fail, RecordModelEvent, effects, call, stream
<1>3. /\ log # <<>> /\ st \in ReplayStates /\ st.finished = "no"
      /\ TurnKnown(st) /\ CallsKnown(st) /\ ApprovalsKnown(st) /\ EffectsKnown(st)
    BY <1>2, RunIsKnown
<1>4. /\ turn \in Nat \ {0} /\ MaxTurns \in Nat /\ (pc \in TurnLabels => turn <= MaxTurns)
      /\ \A t \in st.turns : t \in Nat
    BY <1>3, BoundsAssumption DEF RunInv, TypeInv, TypeOK, ControlOK, ReplayStates
<1> HIDE DEF st
<1>5. Takes(e, terminal_status)
    <2>1. ~BadTurn(st, e)
        BY <1>1, <1>2, <1>3, <1>4 DEF BadTurn, TurnKnown, CallsKnown, TurnLabels, Unanswered, InCall, InTurn
    <2>2. /\ ~BadRequest(st, e) /\ ~BadApprovalRequest(st, e) /\ ~BadResolution(st, e, "Strict")
          /\ ~BadResult(st, e, "Strict")
        BY <1>1 DEF BadRequest, BadApprovalRequest, BadResolution, BadResult
    <2> QED
        BY <1>1, <1>2, <2>1, <2>2, FittingIsTaken DEF st
<1>6. /\ LogReplays' /\ CutsShowEffects' /\ ReportTaken'
      /\ RunKnown' \/ (pc' = next /\ log' # <<>> /\ st' = Record(st, e))
    BY <1>1, <1>2, <1>3, <1>5, EmitIsTaken DEF st
<1>7. ASSUME pc' = next, log' # <<>>, st' = Record(st, e) PROVE RunKnown'
    <2>1. /\ st'.finished = "no" /\ st'.calls = st.calls /\ st'.results = st.results
          /\ st'.approvals = st.approvals /\ st'.decisions = st.decisions
          /\ st'.turns = (IF e.type = "TurnStarted" THEN st.turns \cup {e.turn} ELSE st.turns)
          /\ st'.active = (IF e.type = "TurnStarted" THEN e.turn ELSE st.active)
        <3> DEFINE after == Record(st, e)
        <3>1. /\ e \in AgentEvents /\ st \in ReplayStates /\ st.finished = "no"
              /\ e.type \in {"TurnStarted", "ModelOutput", "Error"}
            BY <1>1, <1>3
        <3>2. RecordsOnly(st, e, after)
            BY ONLY <3>1, RecordFields
        <3>3. st' = after
            BY ONLY <1>7
        <3> HIDE DEF after
        <3> QED
            BY ONLY <3>1, <3>2, <3>3 DEF RecordsOnly
    <2>2. TurnKnown(st)'
        BY <1>1, <1>2, <1>3, <1>4, <1>7, <2>1 DEF TurnKnown, TurnLabels, InCall
    <2>3. CallsKnown(st)'
        BY <1>1, <1>2, <1>3, <1>7, <2>1 DEF CallsKnown, Unresolved, Unanswered, InCall
    <2>4. ApprovalsKnown(st)' /\ EffectsKnown(st)'
        BY <1>1, <1>2, <1>3, <1>7, <2>1 DEF ApprovalsKnown, EffectsKnown
    <2> QED
        BY <1>1, <1>7, <2>1, <2>2, <2>3, <2>4 DEF RunKnown, InCall, st
<1> QED
    BY <1>6, <1>7 DEF Kept

\* The request of a call uses an id that replay has not seen.
LEMMA RequestStep ==
    ASSUME RunInv, RequestToolCall
    PROVE  Kept
<1> DEFINE st == Replayed
           e == ToolCallRequested
           id == tool_call_seq + 1
<1>1. /\ pc = "call" /\ next_call <= Len(tool_calls) /\ Emit(e, "Durable", "prepare")
      /\ UNCHANGED <<latch, executed, turn, tool_calls, next_call, approval_seq>>
      /\ tool_call_seq' = id
    BY DEF RequestToolCall, effects, stream
<1>2. /\ e \in AgentEvents /\ e.type = "ToolCallRequested" /\ e.seq = next_event_sequence
      /\ e.turn = turn /\ e.call = id
      /\ CallOf(e) = [id |-> id, turn |-> turn, payload |-> tool_calls[next_call]]
    BY <1>1, EventsAreTyped DEF ToolCallRequested, Event, RunInv, CallOf
<1>3. /\ log # <<>> /\ st \in ReplayStates /\ st.finished = "no"
      /\ TurnKnown(st) /\ CallsKnown(st) /\ ApprovalsKnown(st) /\ EffectsKnown(st)
    BY <1>1, RunIsKnown
<1>4. turn \in Nat /\ tool_call_seq \in Nat /\ id \in Nat
    BY DEF RunInv, TypeInv, TypeOK
<1> HIDE DEF st, e
<1>5. /\ \A c \in st.calls : c.id \in Nat /\ c.id <= tool_call_seq
      /\ \A c \in st.results : c \in Nat /\ c <= tool_call_seq
      /\ Unresolved(st) = {}
      /\ turn \in st.turns /\ st.active = turn
    BY <1>1, <1>3 DEF CallsKnown, TurnKnown, TurnLabels, Unanswered, InCall, ReplayStates
<1>6. Takes(e, terminal_status)
    <2>1. ~BadTurn(st, e)
        BY <1>2, <1>5 DEF BadTurn
    <2>2. ~BadRequest(st, e)
        BY <1>2, <1>4, <1>5 DEF BadRequest
    <2>3. ~BadApprovalRequest(st, e) /\ ~BadResolution(st, e, "Strict") /\ ~BadResult(st, e, "Strict")
        BY <1>2 DEF BadApprovalRequest, BadResolution, BadResult
    <2> QED
        BY <1>1, <1>2, <2>1, <2>2, <2>3, FittingIsTaken DEF st
<1>7. /\ LogReplays' /\ CutsShowEffects' /\ ReportTaken'
      /\ RunKnown' \/ (pc' = "prepare" /\ log' # <<>> /\ st' = Record(st, e) /\ synced' = Len(log'))
    BY <1>1, <1>2, <1>3, <1>6, EmitIsTaken DEF st
<1>8. ASSUME pc' = "prepare", log' # <<>>, st' = Record(st, e), synced' = Len(log') PROVE RunKnown'
    <2>1. /\ st'.finished = "no" /\ st'.calls = st.calls \cup {CallOf(e)} /\ st'.results = st.results
          /\ st'.approvals = st.approvals /\ st'.decisions = st.decisions
          /\ st'.turns = st.turns /\ st'.active = st.active
        <3> DEFINE after == Record(st, e)
        <3>1. /\ e \in AgentEvents /\ st \in ReplayStates /\ st.finished = "no"
              /\ e.type = "ToolCallRequested"
            BY <1>2, <1>3
        <3>2. RecordsOnly(st, e, after)
            BY ONLY <3>1, RecordFields
        <3>3. st' = after
            BY ONLY <1>8
        <3> HIDE DEF after
        <3> QED
            BY ONLY <3>1, <3>2, <3>3 DEF RecordsOnly
    <2>2. TurnKnown(st)'
        BY <1>1, <1>3, <1>5, <1>8, <2>1 DEF TurnKnown, TurnLabels, InCall
    <2>3. CallsKnown(st)'
        <3>1. Unresolved(st') = {id}
            BY <1>2, <1>4, <1>5, <2>1 DEF Unresolved
        <3>2. (\A c \in st'.calls : c.id <= id) /\ \A c \in st'.results : c <= id
            BY <1>2, <1>4, <1>5, <2>1
        <3>3. [id |-> id, turn |-> turn, payload |-> tool_calls[next_call]] \in st'.calls
            BY <1>2, <2>1
        <3> HIDE DEF id
        <3> QED
            BY <1>1, <1>8, <3>1, <3>2, <3>3 DEF CallsKnown, Unanswered, InCall
    <2>4. ApprovalsKnown(st)'
        <3>1. \A a \in st.approvals : a.call # id
            BY <1>3, <1>4, <1>5 DEF ApprovalsKnown
        <3> QED
            BY <1>1, <1>3, <1>8, <2>1, <3>1 DEF ApprovalsKnown
    <2>5. EffectsKnown(st)'
        BY <1>1, <1>3, <1>8, <2>1 DEF EffectsKnown
    <2> QED
        BY <1>8, <2>1, <2>2, <2>3, <2>4, <2>5 DEF RunKnown, st
<1> QED
    BY <1>7, <1>8 DEF Kept

\* The steps of a call that append nothing and run no handler.
LEMMA CallQuietSteps ==
    ASSUME RunInv,
           \/ \E d \in {"Ready", "RequiresApproval", "Reject"} : Prepare(d)
           \/ \E d \in Decisions : DecideApproval(d)
           \/ Authorize
    PROVE  Kept
<1> DEFINE st == Replayed
<1>1. /\ UNCHANGED <<sink, executed, turn, tool_calls, next_call, tool_call_seq, approval_seq>>
      /\ pc \in {"prepare", "decide", "authorize"}
    BY DEF Prepare, DecideApproval, Authorize, stream, call, effects
<1>2. /\ StatusKept
      /\ \/ pc = "prepare" /\ pc' \in {"ask", "authorize"}
         \/ pc = "decide" /\ pc' = "resolve" /\ decision' \in Decisions
         \/ pc = "authorize" /\ pc' = "execute"
         \/ pc' = "finish" /\ proposed' \in Stops
    <2>1. CASE \E d \in {"Ready", "RequiresApproval", "Reject"} : Prepare(d)
        BY <2>1 DEF Prepare, latch, StatusKept
    <2>2. CASE \E d \in Decisions : DecideApproval(d)
        BY <1>1, <2>2, CheckpointKnown DEF DecideApproval
    <2>3. CASE Authorize
        BY <1>1, <2>3, CheckpointKnown DEF Authorize
    <2> QED
        BY <2>1, <2>2, <2>3
<1>3. LogReplays' /\ CutsShowEffects' /\ ReportTaken' /\ Replayed' = Replayed
    BY <1>1, <1>2, QuietKeepsLog
<1>4. /\ log # <<>> /\ st \in ReplayStates /\ st.finished = "no" /\ synced = Len(log)
      /\ TurnKnown(st) /\ CallsKnown(st) /\ ApprovalsKnown(st) /\ EffectsKnown(st)
    BY <1>1, RunIsKnown DEF InCall
<1> HIDE DEF st
<1>5. TurnKnown(st)'
    BY <1>1, <1>2, <1>3, <1>4 DEF TurnKnown, TurnLabels, InCall, st
<1>6. CallsKnown(st)'
    BY <1>1, <1>2, <1>3, <1>4, StopsAssumption DEF CallsKnown, Unanswered, InCall, st
<1>7. ApprovalsKnown(st)'
    <2>1. (\A a \in st.approvals : a.call # tool_call_seq)
              => tool_call_seq \notin Pending(st) /\ DecisionOn(st, tool_call_seq) = "not_asked"
        BY DEF Pending, DecisionOn
    <2> QED
        BY <1>1, <1>2, <1>3, <1>4, <2>1 DEF ApprovalsKnown, st
<1>8. EffectsKnown(st)'
    BY <1>1, <1>2, <1>3, <1>4 DEF EffectsKnown, st
<1> QED
    BY <1>1, <1>2, <1>3, <1>4, <1>5, <1>6, <1>7, <1>8 DEF Kept, RunKnown, InCall, st, sink

\* The call that is being driven is requested, in the running turn, and not answered.
LEMMA CallIsOpen ==
    ASSUME RunInv, pc \in Unanswered
    PROVE  /\ log # <<>> /\ Replayed \in ReplayStates /\ Replayed.finished = "no"
           /\ TurnKnown(Replayed) /\ CallsKnown(Replayed)
           /\ ApprovalsKnown(Replayed) /\ EffectsKnown(Replayed) /\ synced = Len(log)
           /\ turn \in Replayed.turns /\ Replayed.active = turn
           /\ Unresolved(Replayed) = {tool_call_seq} /\ tool_call_seq \notin Replayed.results
           /\ [id |-> tool_call_seq, turn |-> turn, payload |-> tool_calls[next_call]]
                  \in Replayed.calls
           /\ turn \in Nat /\ tool_call_seq \in Nat /\ approval_seq \in Nat
<1>1. pc \in InCall /\ pc \in TurnLabels \ {"start_turn"} /\ pc \notin {"new", "returned"}
    BY DEF Unanswered, InCall, TurnLabels
<1>2. Unresolved(Replayed) = {tool_call_seq}
    BY <1>1, RunIsKnown DEF CallsKnown
<1>3. tool_call_seq \notin Replayed.results
    BY <1>2 DEF Unresolved
<1> QED
    BY <1>1, <1>2, <1>3, RunIsKnown DEF CallsKnown, TurnKnown, RunInv, TypeInv, TypeOK

\* The approval request names the open call and an id that replay has not seen.
LEMMA ApprovalRequestStep ==
    ASSUME RunInv, RequestApproval
    PROVE  Kept
<1> DEFINE st == Replayed
           e == ApprovalRequested
           id == approval_seq + 1
           asked == [id |-> id, call |-> tool_call_seq]
<1>1. /\ pc = "ask" /\ pc \in Unanswered /\ Emit(e, "Durable", "decide")
      /\ UNCHANGED <<latch, executed, turn, tool_calls, next_call, tool_call_seq>>
      /\ approval_seq' = id
    BY DEF RequestApproval, effects, stream, Unanswered, InCall
<1>2. /\ e \in AgentEvents /\ e.type = "ApprovalRequested" /\ e.seq = next_event_sequence
      /\ e.turn = turn /\ e.call = tool_call_seq /\ e.approval = id
      /\ CallOf(e) = [id |-> tool_call_seq, turn |-> turn, payload |-> tool_calls[next_call]]
      /\ [id |-> e.approval, call |-> e.call] = asked
    <2>1. next_call <= Len(tool_calls)
        BY <1>1 DEF RunInv, TypeInv, ControlOK, InCall
    <2> QED
        BY <2>1, EventsAreTyped DEF ApprovalRequested, Event, RunInv, CallOf
<1>3. /\ log # <<>> /\ st \in ReplayStates /\ st.finished = "no"
      /\ TurnKnown(st) /\ CallsKnown(st) /\ ApprovalsKnown(st) /\ EffectsKnown(st)
      /\ turn \in st.turns /\ st.active = turn /\ tool_call_seq \notin st.results
      /\ [id |-> tool_call_seq, turn |-> turn, payload |-> tool_calls[next_call]] \in st.calls
      /\ turn \in Nat /\ tool_call_seq \in Nat /\ approval_seq \in Nat
    BY <1>1, CallIsOpen
<1>4. /\ \A a \in st.approvals : a.id \in Nat /\ a.id <= approval_seq /\ a.call # tool_call_seq
      /\ \A d \in st.decisions : d.approval \in Nat /\ d.approval <= approval_seq
    BY <1>1, <1>3 DEF ApprovalsKnown, ReplayStates
<1> HIDE DEF st, e
<1>5. Takes(e, terminal_status)
    <2>1. ~BadTurn(st, e)
        BY <1>2, <1>3 DEF BadTurn
    <2>2. ~BadApprovalRequest(st, e)
        BY <1>2, <1>3, <1>4 DEF BadApprovalRequest
    <2>3. ~BadRequest(st, e) /\ ~BadResolution(st, e, "Strict") /\ ~BadResult(st, e, "Strict")
        BY <1>2 DEF BadRequest, BadResolution, BadResult
    <2> QED
        BY <1>1, <1>2, <2>1, <2>2, <2>3, FittingIsTaken DEF st
<1>6. /\ LogReplays' /\ CutsShowEffects' /\ ReportTaken'
      /\ RunKnown' \/ (pc' = "decide" /\ log' # <<>> /\ st' = Record(st, e) /\ synced' = Len(log'))
    BY <1>1, <1>2, <1>3, <1>5, EmitIsTaken DEF st
<1>7. ASSUME pc' = "decide", log' # <<>>, st' = Record(st, e), synced' = Len(log') PROVE RunKnown'
    <2>1. /\ st'.finished = "no" /\ st'.calls = st.calls /\ st'.results = st.results
          /\ st'.approvals = st.approvals \cup {asked} /\ st'.decisions = st.decisions
          /\ st'.turns = st.turns /\ st'.active = st.active
        <3> DEFINE after == Record(st, e)
        <3>1. /\ e \in AgentEvents /\ st \in ReplayStates /\ st.finished = "no"
              /\ e.type = "ApprovalRequested"
              /\ [id |-> e.approval, call |-> e.call] = asked
            BY <1>2, <1>3
        <3>2. RecordsOnly(st, e, after)
            BY ONLY <3>1, RecordFields
        <3>3. st' = after
            BY ONLY <1>7
        <3> HIDE DEF after
        <3> QED
            BY ONLY <3>1, <3>2, <3>3 DEF RecordsOnly
    <2>2. TurnKnown(st)' /\ EffectsKnown(st)'
        BY <1>1, <1>3, <1>7, <2>1 DEF TurnKnown, EffectsKnown, TurnLabels, InCall
    <2>3. CallsKnown(st)'
        BY <1>1, <1>3, <1>7, <2>1 DEF CallsKnown, Unresolved, Unanswered, InCall
    <2>4. ApprovalsKnown(st)'
        <3>1. \A a \in st.approvals : a.id <= id /\ \E c \in st.calls : c.id = a.call
            BY <1>3, <1>4 DEF ApprovalsKnown
        <3>2. \E c \in st.calls : c.id = asked.call
            BY <1>3
        <3>3. \A d \in st.decisions : d.approval <= id /\ d.approval # id
            BY <1>3, <1>4
        <3>4. \A a \in st.approvals : a.call # tool_call_seq /\ a.id # id
            BY <1>3, <1>4
        <3>5. asked.id = id /\ asked.call = tool_call_seq /\ id <= id
            BY <1>3
        <3> HIDE DEF id
        <3> QED
            BY <1>1, <1>7, <2>1, <3>1, <3>2, <3>3, <3>4, <3>5 DEF ApprovalsKnown
    <2> QED
        BY <1>7, <2>1, <2>2, <2>3, <2>4 DEF RunKnown, st
<1> QED
    BY <1>6, <1>7 DEF Kept

\* The resolution decides the pending approval, and with it the call.
LEMMA ResolutionStep ==
    ASSUME RunInv, ResolveApproval
    PROVE  Kept
<1> DEFINE st == Replayed
           e == ApprovalResolved
           resolved == [approval |-> approval_seq, decision |-> decision]
<1>1. /\ pc = "resolve" /\ pc \in Unanswered
      /\ Emit(e, "Durable", IF decision = "Approve" THEN "authorize" ELSE "result")
      /\ UNCHANGED <<latch, executed, turn, tool_calls, next_call, tool_call_seq, approval_seq, decision>>
      /\ output' = IF decision = "Approve" THEN output ELSE "Denied"
    BY DEF ResolveApproval, effects, stream, Unanswered, InCall
<1>2. /\ e \in AgentEvents /\ e.type = "ApprovalResolved" /\ e.seq = next_event_sequence
      /\ e.turn = turn /\ e.approval = approval_seq
      /\ [approval |-> e.approval, decision |-> e.value] = resolved
    BY EventsAreTyped DEF ApprovalResolved, Event, RunInv
<1>3. /\ log # <<>> /\ st \in ReplayStates /\ st.finished = "no"
      /\ TurnKnown(st) /\ CallsKnown(st) /\ ApprovalsKnown(st) /\ EffectsKnown(st)
      /\ turn \in st.turns /\ st.active = turn /\ tool_call_seq \notin st.results
      /\ [id |-> tool_call_seq, turn |-> turn, payload |-> tool_calls[next_call]] \in st.calls
      /\ turn \in Nat /\ tool_call_seq \in Nat /\ approval_seq \in Nat
    BY <1>1, CallIsOpen
<1>4. /\ [id |-> approval_seq, call |-> tool_call_seq] \in st.approvals
      /\ \A a \in st.approvals : a.call = tool_call_seq <=> a.id = approval_seq
      /\ \A d \in st.decisions : d.approval # approval_seq
      /\ decision \in Decisions
    BY <1>1, <1>3 DEF ApprovalsKnown
<1> HIDE DEF st, e
<1>5. Takes(e, terminal_status)
    <2>1. ~BadTurn(st, e)
        BY <1>2, <1>3 DEF BadTurn
    <2>2. ~BadResolution(st, e, "Strict")
        BY <1>2, <1>3, <1>4 DEF BadResolution
    <2>3. ~BadRequest(st, e) /\ ~BadApprovalRequest(st, e) /\ ~BadResult(st, e, "Strict")
        BY <1>2 DEF BadRequest, BadApprovalRequest, BadResult
    <2> QED
        BY <1>1, <1>2, <2>1, <2>2, <2>3, FittingIsTaken DEF st
<1>6. /\ LogReplays' /\ CutsShowEffects' /\ ReportTaken'
      /\ \/ RunKnown'
         \/ /\ pc' = IF decision = "Approve" THEN "authorize" ELSE "result"
            /\ log' # <<>> /\ st' = Record(st, e) /\ synced' = Len(log')
    BY <1>1, <1>2, <1>3, <1>5, EmitIsTaken DEF st
<1>7. ASSUME pc' = IF decision = "Approve" THEN "authorize" ELSE "result",
             log' # <<>>, st' = Record(st, e), synced' = Len(log')
      PROVE  RunKnown'
    <2>1. /\ st'.finished = "no" /\ st'.calls = st.calls /\ st'.results = st.results
          /\ st'.approvals = st.approvals /\ st'.decisions = st.decisions \cup {resolved}
          /\ st'.turns = st.turns /\ st'.active = st.active
        <3> DEFINE after == Record(st, e)
        <3>1. /\ e \in AgentEvents /\ st \in ReplayStates /\ st.finished = "no"
              /\ e.type = "ApprovalResolved"
              /\ [approval |-> e.approval, decision |-> e.value] = resolved
            BY <1>2, <1>3
        <3>2. RecordsOnly(st, e, after)
            BY ONLY <3>1, RecordFields
        <3>3. st' = after
            BY ONLY <1>7
        <3> HIDE DEF after
        <3> QED
            BY ONLY <3>1, <3>2, <3>3 DEF RecordsOnly
    <2>2. TurnKnown(st)' /\ EffectsKnown(st)'
        BY <1>1, <1>3, <1>7, <2>1 DEF TurnKnown, EffectsKnown, TurnLabels, InCall
    <2>3. CallsKnown(st)'
        BY <1>1, <1>3, <1>7, <2>1 DEF CallsKnown, Unresolved, Unanswered, InCall
    <2>4. tool_call_seq \notin Pending(st')
        <3>1. ASSUME NEW a \in st.approvals, a.call = tool_call_seq
              PROVE  ~\A d \in st'.decisions : d.approval # a.id
            <4>1. a.id = approval_seq /\ resolved \in st'.decisions /\ resolved.approval = approval_seq
                BY <1>4, <2>1, <3>1
            <4> QED
                BY <4>1
        <3> QED
            BY <2>1, <3>1 DEF Pending
    <2>5. DecisionOn(st', tool_call_seq) = decision
        <3>0. /\ resolved \in st'.decisions /\ resolved.approval = approval_seq
              /\ resolved.decision = decision
              /\ \A d \in st'.decisions : d.approval = approval_seq => d = resolved
            BY <1>4, <2>1
        <3> HIDE DEF resolved
        <3>1. {a.id : a \in {x \in st'.approvals : x.call = tool_call_seq}} = {approval_seq}
            BY <1>4, <2>1
        <3>2. {d.decision : d \in {x \in st'.decisions : x.approval \in {approval_seq}}} = {decision}
            BY <3>0
        <3>3. (CHOOSE d \in {decision} : TRUE) = decision
            OBVIOUS
        <3> QED
            BY <3>1, <3>2, <3>3 DEF DecisionOn
    <2>6. /\ \A a \in st'.approvals : a.id <= approval_seq /\ \E c \in st'.calls : c.id = a.call
          /\ \A d \in st'.decisions : d.approval <= approval_seq
        BY <1>3, <2>1 DEF ApprovalsKnown
    <2>7. ApprovalsKnown(st)'
        BY <1>1, <1>4, <1>7, <2>4, <2>5, <2>6 DEF ApprovalsKnown, Decisions
    <2> QED
        BY <1>7, <2>1, <2>2, <2>3, <2>7 DEF RunKnown, st
<1> QED
    BY <1>6, <1>7 DEF Kept

\* The result answers the open call, and fits what was decided about it.
LEMMA ResultStep ==
    ASSUME RunInv, RecordResult
    PROVE  Kept
<1> DEFINE st == Replayed
           e == ToolResult
<1>1. /\ pc = "result" /\ pc \in Unanswered /\ Emit(e, "Durable", "recorded")
      /\ UNCHANGED <<latch, executed, turn, tool_calls, next_call, tool_call_seq, approval_seq, output>>
    BY DEF RecordResult, effects, stream, call, Unanswered, InCall
<1>2. /\ e \in AgentEvents /\ e.type = "ToolResult" /\ e.seq = next_event_sequence
      /\ e.turn = turn /\ e.call = tool_call_seq /\ e.value = output
    BY EventsAreTyped DEF ToolResult, Event, RunInv
<1>3. /\ log # <<>> /\ st \in ReplayStates /\ st.finished = "no"
      /\ TurnKnown(st) /\ CallsKnown(st) /\ ApprovalsKnown(st) /\ EffectsKnown(st)
      /\ turn \in st.turns /\ st.active = turn /\ tool_call_seq \notin st.results
      /\ [id |-> tool_call_seq, turn |-> turn, payload |-> tool_calls[next_call]] \in st.calls
      /\ Unresolved(st) = {tool_call_seq}
      /\ turn \in Nat /\ tool_call_seq \in Nat /\ approval_seq \in Nat
    BY <1>1, CallIsOpen
<1>4. /\ output \in Outputs \cup {"none"}
      /\ IF output = "Denied" THEN DecisionOn(st, tool_call_seq) = "Deny"
         ELSE DecisionOn(st, tool_call_seq) \in {"Approve", "not_asked"}
    BY <1>1, <1>3 DEF ApprovalsKnown, RunInv, TypeInv, TypeOK
<1> HIDE DEF st, e
<1>5. Takes(e, terminal_status)
    <2>1. ~BadTurn(st, e)
        BY <1>2, <1>3 DEF BadTurn
    <2>2. ~BadOutput(st, e, "Strict")
        BY <1>2, <1>4 DEF BadOutput, Outputs, Denials
    <2>3. ~BadResult(st, e, "Strict")
        BY <1>2, <1>3, <2>2 DEF BadResult
    <2>4. ~BadRequest(st, e) /\ ~BadApprovalRequest(st, e) /\ ~BadResolution(st, e, "Strict")
        BY <1>2 DEF BadRequest, BadApprovalRequest, BadResolution
    <2> QED
        BY <1>1, <1>2, <2>1, <2>3, <2>4, FittingIsTaken DEF st
<1>6. /\ LogReplays' /\ CutsShowEffects' /\ ReportTaken'
      /\ RunKnown' \/ (pc' = "recorded" /\ log' # <<>> /\ st' = Record(st, e) /\ synced' = Len(log'))
    BY <1>1, <1>2, <1>3, <1>5, EmitIsTaken DEF st
<1>7. ASSUME pc' = "recorded", log' # <<>>, st' = Record(st, e), synced' = Len(log') PROVE RunKnown'
    <2>1. /\ st'.finished = "no" /\ st'.calls = st.calls /\ st'.results = st.results \cup {tool_call_seq}
          /\ st'.approvals = st.approvals /\ st'.decisions = st.decisions
          /\ st'.turns = st.turns /\ st'.active = st.active
        <3> DEFINE after == Record(st, e)
        <3>1. /\ e \in AgentEvents /\ st \in ReplayStates /\ st.finished = "no"
              /\ e.type = "ToolResult"
              /\ e.call = tool_call_seq
            BY <1>2, <1>3
        <3>2. RecordsOnly(st, e, after)
            BY ONLY <3>1, RecordFields
        <3>3. st' = after
            BY ONLY <1>7
        <3> HIDE DEF after
        <3> QED
            BY ONLY <3>1, <3>2, <3>3 DEF RecordsOnly
    <2>2. TurnKnown(st)' /\ EffectsKnown(st)'
        BY <1>1, <1>3, <1>7, <2>1 DEF TurnKnown, EffectsKnown, TurnLabels, InCall
    <2>3. Unresolved(st') = {}
        BY <1>3, <2>1 DEF Unresolved
    <2>4. CallsKnown(st)'
        BY <1>1, <1>3, <1>7, <2>1, <2>3 DEF CallsKnown, Unanswered, InCall
    <2>5. ApprovalsKnown(st)'
        BY <1>1, <1>3, <1>7, <2>1 DEF ApprovalsKnown
    <2> QED
        BY <1>7, <2>1, <2>2, <2>4, <2>5 DEF RunKnown, st
<1> QED
    BY <1>6, <1>7 DEF Kept

\* After the result the run goes on, with an error recorded if the call failed.
LEMMA CallDoneStep ==
    ASSUME RunInv, CallDone
    PROVE  Kept
<1> DEFINE st == Replayed
           e == RecoverableError
<1>1. /\ pc = "recorded"
      /\ UNCHANGED <<latch, executed, turn, tool_call_seq, approval_seq>>
      /\ \/ Emit(e, "Buffered", "call")
         \/ UNCHANGED sink /\ pc' = "call"
         \/ UNCHANGED sink /\ pc' = "finish"
    BY DEF CallDone, StopNow, effects, stream
<1>2. /\ e \in AgentEvents /\ e.type = "Error" /\ e.seq = next_event_sequence /\ e.turn = turn
    BY EventsAreTyped DEF RecoverableError, Event, RunInv
<1>3. /\ log # <<>> /\ st \in ReplayStates /\ st.finished = "no"
      /\ TurnKnown(st) /\ CallsKnown(st) /\ ApprovalsKnown(st) /\ EffectsKnown(st)
    BY <1>1, RunIsKnown
<1>4. /\ turn \in st.turns /\ st.active = turn /\ Unresolved(st) = {}
    BY <1>1, <1>3 DEF TurnKnown, CallsKnown, TurnLabels, Unanswered, InCall
<1> HIDE DEF st, e
<1>5. ASSUME pc' \in {"call", "finish"}, log' # <<>>, st'.finished = "no", st'.calls = st.calls,
             st'.results = st.results, st'.approvals = st.approvals, st'.decisions = st.decisions,
             st'.turns = st.turns, st'.active = st.active
      PROVE  RunKnown'
    <2>1. TurnKnown(st)' /\ EffectsKnown(st)'
        BY <1>1, <1>3, <1>4, <1>5 DEF TurnKnown, EffectsKnown, TurnLabels, InCall
    <2>2. CallsKnown(st)'
        BY <1>1, <1>3, <1>4, <1>5 DEF CallsKnown, Unresolved, Unanswered, InCall
    <2>3. ApprovalsKnown(st)'
        BY <1>1, <1>3, <1>5 DEF ApprovalsKnown
    <2> QED
        BY <1>5, <2>1, <2>2, <2>3 DEF RunKnown, InCall, st
<1>6. CASE Emit(e, "Buffered", "call")
    <2>1. Takes(e, terminal_status)
        <3>1. ~BadTurn(st, e)
            BY <1>2, <1>4 DEF BadTurn
        <3>2. /\ ~BadRequest(st, e) /\ ~BadApprovalRequest(st, e) /\ ~BadResolution(st, e, "Strict")
              /\ ~BadResult(st, e, "Strict")
            BY <1>2 DEF BadRequest, BadApprovalRequest, BadResolution, BadResult
        <3> QED
            BY <1>1, <1>2, <3>1, <3>2, FittingIsTaken DEF st
    <2>2. /\ LogReplays' /\ CutsShowEffects' /\ ReportTaken'
          /\ RunKnown' \/ (pc' = "call" /\ log' # <<>> /\ st' = Record(st, e))
        BY <1>1, <1>2, <1>3, <1>6, <2>1, EmitIsTaken DEF st
    <2>3. ASSUME pc' = "call", log' # <<>>, st' = Record(st, e) PROVE RunKnown'
        <3> DEFINE after == Record(st, e)
        <3>1. /\ e \in AgentEvents /\ st \in ReplayStates /\ st.finished = "no"
              /\ e.type = "Error"
            BY <1>2, <1>3
        <3>2. RecordsOnly(st, e, after)
            BY ONLY <3>1, RecordFields
        <3>3. st' = after
            BY ONLY <2>3
        <3> HIDE DEF after
        <3>4. /\ st'.finished = "no" /\ st'.calls = st.calls /\ st'.results = st.results
              /\ st'.approvals = st.approvals /\ st'.decisions = st.decisions
              /\ st'.turns = st.turns /\ st'.active = st.active
            BY ONLY <3>1, <3>2, <3>3 DEF RecordsOnly
        <3> QED
            BY <1>5, <2>3, <3>4
    <2> QED
        BY <2>2, <2>3 DEF Kept
<1>7. CASE UNCHANGED sink /\ pc' \in {"call", "finish"}
    <2>1. LogReplays' /\ CutsShowEffects' /\ ReportTaken' /\ st' = st
        BY <1>1, <1>7, QuietKeepsLog DEF StatusKept, latch, st
    <2>2. log' # <<>>
        BY <1>3, <1>7 DEF sink
    <2> QED
        BY <1>3, <1>5, <1>7, <2>1, <2>2 DEF Kept
<1> QED
    BY <1>1, <1>6, <1>7

\* The handler of the open call runs when the whole log is durable and lists the
\* call as work.
LEMMA ExecuteStep ==
    ASSUME RunInv, NEW result \in {"Success", "Failure"}, Execute(result)
    PROVE  Kept
<1> DEFINE st == Replayed
<1>1. /\ pc = "execute" /\ pc' = "result" /\ pc \in Unanswered
      /\ UNCHANGED <<latch, sink, turn, tool_calls, next_call, tool_call_seq, approval_seq>>
      /\ output' = result
      /\ \/ executed' = executed
         \/ executed' = Append(executed, [call |-> tool_call_seq, disposition |-> prepared,
                                          stopped |-> stop_pc])
    BY DEF Execute, effects, stream, Unanswered, InCall
<1>2. /\ log # <<>> /\ st \in ReplayStates /\ st.finished = "no" /\ synced = Len(log)
      /\ TurnKnown(st) /\ CallsKnown(st) /\ ApprovalsKnown(st) /\ EffectsKnown(st)
      /\ Unresolved(st) = {tool_call_seq}
    BY <1>1, CallIsOpen
<1>3. \A x \in ToSet(executed') : x \in ToSet(executed) \/ x.call = tool_call_seq
    <2>1. CASE executed' = executed
        BY <2>1
    <2>2. CASE executed' # executed
        <3> DEFINE r == [call |-> tool_call_seq, disposition |-> prepared, stopped |-> stop_pc]
        <3>1. executed \in Seq(Executions) /\ executed' = Append(executed, r) /\ r.call = tool_call_seq
            BY <1>1, <2>2 DEF RunInv, TypeInv, TypeOK
        <3> HIDE DEF r
        <3>2. ToSet(executed') = ToSet(executed) \cup {r}
            BY <3>1, ToSetOfAppend
        <3> QED
            BY <3>1, <3>2
    <2> QED
        BY <2>1, <2>2
<1>4. Found(st, tool_call_seq)
    <2>1. \A a \in st.approvals : \E c \in st.calls : c.id = a.call
        BY <1>2 DEF ApprovalsKnown
    <2>2. tool_call_seq \notin Pending(st)
        BY <1>1, <1>2 DEF ApprovalsKnown
    <2>3. Pending(st) \subseteq Unresolved(st)
        BY <2>1 DEF Pending, Unresolved
    <2>4. RecoveryWork(st) = {tool_call_seq}
        BY <1>2, <2>2, <2>3 DEF RecoveryWork, RunStatus
    <2> QED
        BY <2>4 DEF Found
<1>5. Len(log) > 0 /\ ReplayedUpTo(log, Len(log)) = st
    BY <1>2, WholeLog DEF RunInv
<1> HIDE DEF st
<1>6. (\A n : ReplayedUpTo(log', n) = ReplayedUpTo(log, n)) /\ st' = st
    BY <1>1 DEF sink, st, Replayed
<1>7. LogReplays'
    BY <1>1, <1>6 DEF LogReplays, RunInv, sink, latch, st
<1>8. CutsShowEffects'
    <2> SUFFICES ASSUME NEW x \in ToSet(executed'), NEW n \in synced..Len(log)
                 PROVE  n > 0 /\ Found(ReplayedUpTo(log, n), x.call)
        BY <1>1, <1>6 DEF CutsShowEffects, sink
    <2>1. n = Len(log)
        BY <1>2, WholeLog DEF RunInv
    <2> QED
        BY <1>3, <1>4, <1>5, <2>1 DEF CutsShowEffects, RunInv
<1>9. ReportTaken'
    <2>1. outcome'.kind # "Indeterminate"
        BY <1>1, RunIsKnown DEF Unanswered, InCall, sink
    <2> QED
        BY <1>1, <2>1 DEF ReportTaken
<1>10. EffectsKnown(st)'
    <2>1. \A x \in ToSet(executed) : x.call \in st.results
        BY <1>1, <1>2 DEF EffectsKnown
    <2> QED
        BY <1>1, <1>3, <1>6, <2>1 DEF EffectsKnown
<1>11. TurnKnown(st)'
    BY <1>1, <1>2, <1>6 DEF TurnKnown, TurnLabels, InCall
<1>12. CallsKnown(st)'
    BY <1>1, <1>2, <1>6 DEF CallsKnown, Unanswered, InCall
<1>13. ApprovalsKnown(st)'
    BY <1>1, <1>2, <1>6 DEF ApprovalsKnown
<1> QED
    BY <1>1, <1>2, <1>6, <1>7, <1>8, <1>9, <1>10, <1>11, <1>12, <1>13 DEF Kept, RunKnown, st, sink

\* The end that is recorded is the latch's, and every call that ran is answered.
LEMMA FinishStep ==
    ASSUME RunInv, Finish
    PROVE  Kept
<1> DEFINE st == Replayed
           status == Resolved(proposed)
           e == RunFinished(status)
<1>1. /\ pc = "finish" /\ pc' = "returned" /\ UNCHANGED executed
      /\ terminal_status' = status
      /\ \/ Committed(e, "Durable") /\ outcome' = [kind |-> "Finished", status |-> status]
         \/ Indeterminate(e, "Durable")
    BY DEF Finish, ResolveTerminal, Indeterminate, effects
<1>2. /\ log # <<>> /\ st \in ReplayStates /\ st.finished = "no" /\ st.run = "this_run"
      /\ CallsKnown(st) /\ EffectsKnown(st)
    BY <1>1, RunIsKnown
<1>3. status \in TerminalRunStatus /\ status # "Undecided" /\ StatusKept
    BY <1>1, StopsAssumption
    DEF RunInv, TypeInv, TypeOK, ControlOK, LatchTypeOK, Resolved, TerminalRunStatus, StatusKept
<1>4. status \in {"Completed", "Failed"} => Unresolved(st) = {}
    BY <1>1, <1>2, OnlyStopsAreKept DEF Resolved, CallsKnown, Unanswered, InCall
<1>5. /\ e \in AgentEvents /\ e.type = "RunFinished" /\ e.seq = next_event_sequence
      /\ e.run = "this_run" /\ e.value = status
    BY <1>3, EventsAreTyped DEF RunFinished, Event, RunInv
<1> HIDE DEF st, e, status
<1>6. Takes(e, terminal_status')
    <2>1. ~Rejects(st, e, "Strict")
        BY <1>2, <1>4, <1>5 DEF Rejects, BadTurn, BadRequest, BadApprovalRequest, BadResolution,
                                BadResult, BadFinish, InTurn
    <2>2. Record(st, e).finished = status /\ Record(st, e).results = st.results
        BY <1>2, <1>5, RecordFields DEF RecordsOnly
    <2>3. \A x \in ToSet(executed) : x.call \in st.results
        BY <1>1, <1>2 DEF EffectsKnown
    <2> QED
        BY <1>1, <1>2, <1>3, <1>5, <2>1, <2>2, <2>3 DEF Takes, EndIsTrue, st
<1>7. CASE Indeterminate(e, "Durable")
    <2>1. pc # "returned"
        BY <1>1
    <2> QED
        BY <1>1, <1>3, <1>5, <1>6, <1>7, <2>1, IndeterminateIsTaken DEF Kept
<1>8. CASE Committed(e, "Durable") /\ outcome' = [kind |-> "Finished", status |-> status]
    <2>1. LogReplays' /\ CutsShowEffects'
        BY <1>1, <1>3, <1>5, <1>6, <1>8, CommittedIsTaken
    <2>2. RunKnown' /\ ReportTaken'
        BY <1>1, <1>8 DEF RunKnown, ReportTaken
    <2> QED
        BY <2>1, <2>2 DEF Kept
<1> QED
    BY <1>1, <1>7, <1>8

\* A stop moves nothing but the latch, and the latch only once.
LEMMA StopStep ==
    ASSUME RunInv, RequestStop
    PROVE  Kept
<1>1. /\ StatusKept
      /\ UNCHANGED <<pc, sink, executed, turn, tool_calls, next_call, tool_call_seq, approval_seq,
                     decision, output, proposed>>
    BY DEF RequestStop, ResolveTerminal, Resolved, StatusKept, stream, call
<1>2. LogReplays' /\ CutsShowEffects' /\ ReportTaken' /\ Replayed' = Replayed
    BY <1>1, QuietKeepsLog
<1>3. RunKnown'
    BY <1>1, <1>2
    DEF RunInv, RunKnown, TurnKnown, CallsKnown, ApprovalsKnown, EffectsKnown, sink
<1> QED
    BY <1>2, <1>3 DEF Kept

\* Every step of the run, or of another holder of its token, keeps the invariant.
LEMMA RunStepInv == RunInv /\ RunStep => RunInv'
<1> SUFFICES ASSUME RunInv, RunStep PROVE RunInv'
    OBVIOUS
<1>1. Running \/ Awaiting \/ RequestStop
    BY DEF RunStep
<1>2. [Next]_vars
    BY <1>1 DEF Next
<1>3. TypeInv' /\ EndInv' /\ StopInv'
    BY <1>2, StepTypeInv, StepEndInv, StepStopInv DEF RunInv
<1>4. Kept
    <2>1. CASE Running
        BY <2>1, StartStep, TurnSteps, TurnEventSteps, RequestStep, CallQuietSteps, ApprovalRequestStep,
           ResolutionStep, ResultStep, CallDoneStep, FinishStep
        DEF Running
    <2>2. CASE Awaiting
        BY <2>2, TurnSteps, CallQuietSteps, ExecuteStep DEF Awaiting
    <2>3. CASE RequestStop
        BY <2>3, StopStep
    <2> QED
        BY <1>1, <2>1, <2>2, <2>3
<1> QED
    BY <1>3, <1>4 DEF RunInv, Kept

-----------------------------------------------------------------------------
(* After the run: reconcile, and the loss of power *)

\* The report of a failed append is typed, and only a run that returned made it.
LEMMA ReportIsTyped ==
    ASSUME RunInv, outcome.kind = "Indeterminate"
    PROVE  outcome.event \in AgentEvents /\ pc = "returned"
<1>1. outcome \in Outcomes
    BY DEF RunInv, TypeInv, TypeOK
<1>2. outcome.event \in AgentEvents
    BY <1>1 DEF Outcomes, NoOutcome
<1> QED
    BY <1>2 DEF RunInv, EndInv, OpenOK

\* Reconciling writes the reported event if it is missing, and nothing else.
LEMMA ReconcileInv == RunInv /\ Reconcile => RunInv'
<1> SUFFICES ASSUME RunInv, Reconcile PROVE RunInv'
    OBVIOUS
<1> DEFINE e == outcome.event
<1>1. /\ UNCHANGED <<latch, pc, token_owner, stream, call, messages, proposed,
                     next_event_sequence, outcome, effects>>
      /\ outcome.kind = "Indeterminate"
      /\ \/ ReconcileVerdict = "missing" /\ log' = Append(log, e)
         \/ log' = log
      /\ synced' \in {synced, Len(log')}
    BY DEF Reconcile
<1>2. e \in AgentEvents /\ pc = "returned"
    BY <1>1, ReportIsTyped
<1>3. Len(log) \in Nat /\ synced \in 0..Len(log) /\ log \in Seq(AgentEvents)
    BY WholeLog DEF RunInv
<1>4. ReconcileVerdict = "missing" => e.seq = Len(log) + 1
    BY DEF ReconcileVerdict, Verdict
<1> HIDE DEF e
<1>5. /\ log' \in Seq(AgentEvents) /\ synced' \in 0..Len(log') /\ synced' >= synced
      /\ Len(log') \in {Len(log), Len(log) + 1}
    BY <1>1, <1>2, <1>3
<1>6. TypeInv'
    BY <1>1, <1>5 DEF RunInv, TypeInv, TypeOK, ControlOK, LatchTypeOK, latch, stream, call, effects
<1>7. StopInv'
    BY <1>1 DEF RunInv, StopInv, LatchOK, TokenOK, ExecutionOK, NoEffectAfterStop, latch, effects
<1>8. RunKnown'
    BY <1>1, <1>2 DEF RunKnown
<1>9. StatusKept /\ executed' = executed
    BY <1>1 DEF StatusKept, latch, effects
<1>10. CASE ReconcileVerdict = "missing" /\ log' = Append(log, e)
    <2>1. Takes(e, terminal_status')
        BY <1>1, <1>4, <1>10 DEF RunInv, ReportTaken, e, latch
    <2>2. LogReplays' /\ CutsShowEffects'
        <3>1. synced' \in synced..(Len(log) + 1)
            BY <1>3, <1>5
        <3> QED
            BY <1>2, <1>9, <1>10, <2>1, <3>1, LogTakes DEF RunInv
    <2>3. /\ Len(log') = Len(log) + 1 /\ log'[Len(log')] = e
          /\ \A i \in 1..Len(log) : log'[i] = log[i]
        BY <1>3, <1>10
    <2>4. EndInv'
        <3>1. SequenceOK'
            BY <1>1, <1>2, <1>3, <1>4, <1>10, <2>3 DEF RunInv, EndInv, SequenceOK
        <3>2. OpenOK' /\ FinishedOK'
            BY <1>1, <1>2 DEF OpenOK, FinishedOK
        <3>3. ReportOK'
            BY <1>1, <1>3, <2>3 DEF ReportOK, e
        <3> QED
            BY <3>1, <3>2, <3>3 DEF EndInv
    <2>5. ReportTaken'
        BY <1>1, <1>2, <1>3, <1>4, <1>10, <2>3 DEF ReportTaken, e
    <2> QED
        BY <1>6, <1>7, <1>8, <2>2, <2>4, <2>5 DEF RunInv
<1>11. CASE log' = log
    <2>1. LogReplays' /\ CutsShowEffects' /\ Replayed' = Replayed
        <3>1. synced' \in synced..Len(log)
            BY <1>3, <1>5, <1>11
        <3> QED
            BY <1>9, <1>11, <3>1, LogStays DEF RunInv
    <2>2. EndInv'
        BY <1>1, <1>2, <1>11 DEF RunInv, EndInv, SequenceOK, OpenOK, FinishedOK, ReportOK
    <2>3. ReportTaken'
        BY <1>1, <1>9, <1>11, <2>1 DEF RunInv, ReportTaken, Takes, latch
    <2> QED
        BY <1>6, <1>7, <1>8, <2>1, <2>2, <2>3 DEF RunInv
<1> QED
    BY <1>1, <1>10, <1>11

\* What the invariant says of the log that is there.
LEMMA RunInvShows ==
    ASSUME RunInv
    PROVE  EveryLogReplays /\ RecoveryFindsEffects /\ ReplayedEndIsTheTokens
<1>1. EveryLogReplays /\ ReplayedEndIsTheTokens
    BY LogBegins DEF RunInv, EveryLogReplays, ReplayedEndIsTheTokens, EndIsTrue
<1>2. RecoveryFindsEffects
    <2>1. Len(log) \in synced..Len(log) /\ ReplayedUpTo(log, Len(log)) = Replayed
        BY WholeLog DEF RunInv
    <2> QED
        BY <2>1 DEF RunInv, CutsShowEffects, Found, RecoveryFindsEffects
<1> QED
    BY <1>1, <1>2

\* What survives a loss of power is one of the prefixes the invariant is about.
LEMMA PowerLossShows ==
    ASSUME RunInv, PowerLoss
    PROVE  (EveryLogReplays /\ RecoveryFindsEffects /\ ReplayedEndIsTheTokens)'
<1>1. PICK n \in synced..Len(log) : log' = SubSeq(log, 1, n)
    BY DEF PowerLoss
<1>2. executed' = executed /\ terminal_status' = terminal_status
    BY DEF PowerLoss, effects, latch
<1>3. Len(log) \in Nat /\ synced \in 0..Len(log) /\ log \in Seq(AgentEvents)
    BY WholeLog DEF RunInv
<1>4. Replayed' = ReplayedUpTo(log, n)
    BY <1>1 DEF Replayed, ReplayedUpTo
<1>5. Len(log') = n
    BY <1>1, <1>3
<1>6. log' # <<>> => n \in 1..Len(log)
    BY <1>1, <1>3, <1>5
<1>7. log' # <<>> => Replayed'.accepted /\ EndIsTrue(Replayed', terminal_status)
    BY <1>4, <1>6 DEF RunInv, LogReplays
<1>8. \A x \in ToSet(executed) : Found(Replayed', x.call)
    BY <1>1, <1>4 DEF RunInv, CutsShowEffects
<1> QED
    BY <1>2, <1>7, <1>8
    DEF EveryLogReplays, RecoveryFindsEffects, ReplayedEndIsTheTokens, EndIsTrue, Found

\* Nothing is logged before the run starts.
LEMMA InitRecoveryInv == RecoveryInit => RecoveryInv
<1> SUFFICES ASSUME RecoveryInit PROVE RunInv
    BY DEF RecoveryInit, RecoveryInv
<1>1. TypeInv /\ EndInv /\ StopInv
    BY InitTypeInv, InitEndInv, InitStopInv DEF RecoveryInit
<1>2. log = <<>> /\ executed = <<>> /\ pc = "new" /\ outcome.kind # "Indeterminate"
    BY DEF RecoveryInit, Init, NoOutcome
<1>3. Len(log) = 0 /\ ToSet(executed) = {}
    BY <1>2 DEF ToSet
<1> QED
    BY <1>1, <1>2, <1>3 DEF RunInv, LogReplays, CutsShowEffects, RunKnown, ReportTaken

\* Running, reconciling and losing power keep the invariant.
LEMMA StepRecoveryInv == RecoveryInv /\ [RecoveryNext]_recoveryVars => RecoveryInv'
<1> SUFFICES ASSUME RecoveryInv, [RecoveryNext]_recoveryVars PROVE RecoveryInv'
    OBVIOUS
<1>1. CASE RunStep
    BY <1>1, RunStepInv DEF RunStep, RecoveryInv
<1>2. CASE Reconcile
    BY <1>2, ReconcileInv DEF Reconcile, RecoveryInv
<1>3. CASE PowerLoss
    BY <1>3, PowerLossShows DEF PowerLoss, RecoveryInv
<1>4. CASE UNCHANGED recoveryVars
    <2>1. UNCHANGED vars /\ phase' = phase
        BY <1>4 DEF recoveryVars, vars
    <2>2. RunInv => RunInv'
        <3> SUFFICES ASSUME RunInv PROVE RunInv'
            OBVIOUS
        <3>1. TypeInv' /\ EndInv' /\ StopInv'
            BY <2>1, StepTypeInv, StepEndInv, StepStopInv DEF RunInv
        <3>2. Replayed' = Replayed /\ \A n : ReplayedUpTo(log', n) = ReplayedUpTo(log, n)
            BY <2>1 DEF vars, Replayed
        <3>3. LogReplays' /\ CutsShowEffects'
            BY <2>1, <3>2 DEF RunInv, LogReplays, CutsShowEffects, vars
        <3>4. RunKnown' /\ ReportTaken'
            BY <2>1, <3>2 DEF RunInv, RunKnown, TurnKnown, CallsKnown, ApprovalsKnown, EffectsKnown,
                              ReportTaken, Takes, vars
        <3> QED
            BY <3>1, <3>3, <3>4 DEF RunInv
    <2>3. /\ EveryLogReplays => EveryLogReplays'
          /\ RecoveryFindsEffects => RecoveryFindsEffects'
          /\ ReplayedEndIsTheTokens => ReplayedEndIsTheTokens'
        BY <2>1 DEF vars, Replayed, EveryLogReplays, RecoveryFindsEffects, ReplayedEndIsTheTokens
    <2> QED
        BY <2>1, <2>2, <2>3 DEF RecoveryInv
<1> QED
    BY <1>1, <1>2, <1>3, <1>4 DEF RecoveryNext

\* The invariant of a run, its reconciliation and its recovery.
LEMMA RecoveryInvariance == RecoverySpec => []RecoveryInv
<1>1. RecoveryInit => RecoveryInv
    BY InitRecoveryInv
<1>2. RecoveryInv /\ [RecoveryNext]_recoveryVars => RecoveryInv'
    BY StepRecoveryInv
<1> QED
    BY <1>1, <1>2, PTL DEF RecoverySpec

-----------------------------------------------------------------------------
(* Well-formed timelines, one event at a time *)

\* The first p events of timeline l that have a type.
At(l, p, type) == {j \in 1..p : l[j].type = type}

\* Whether turn t is the last one that started.
InTurnAfter(l, p, t) ==
    \E j \in At(l, p, "TurnStarted") :
        l[j].turn = t /\ \A k \in (j + 1)..p : l[k].type # "TurnStarted"

CallAnsweredIn(l, p, id) == \E j \in At(l, p, "ToolResult") : l[j].call = id

Settled(l, p) == \A j \in At(l, p, "ToolCallRequested") : CallAnsweredIn(l, p, l[j].call)

\* What event e needs of the first p events of l to come next.
FitsRun(l, p, e) ==
    e.type # "RunStarted" /\ e.run = l[1].run /\ At(l, p, "RunFinished") = {}

FitsTurn(l, p, e) ==
    /\ e.type = "TurnStarted" =>
          /\ Settled(l, p)
          /\ \A j \in At(l, p, "TurnStarted") : l[j].turn # e.turn
    /\ e.type \in InTurn => (e.type = "Error" /\ e.turn = 0) \/ InTurnAfter(l, p, e.turn)
    /\ e.type = "RunFinished" /\ e.value = "Completed" => Settled(l, p)

FitsRequest(l, p, e) ==
    e.type = "ToolCallRequested" =>
        \A j \in At(l, p, "ToolCallRequested") : l[j].call # e.call

FitsApproval(l, p, e) ==
    e.type = "ApprovalRequested" =>
        /\ \E j \in At(l, p, "ToolCallRequested") :
              l[j].call = e.call /\ l[j].turn = e.turn /\ l[j].value = e.value
        /\ ~CallAnsweredIn(l, p, e.call)
        /\ \A j \in At(l, p, "ApprovalRequested") :
              l[j].call # e.call /\ l[j].approval # e.approval

FitsResolution(l, p, e) ==
    e.type = "ApprovalResolved" =>
        /\ \E j \in At(l, p, "ApprovalRequested") :
              /\ l[j].approval = e.approval /\ l[j].turn = e.turn
              /\ ~CallAnsweredIn(l, p, l[j].call)
        /\ \A j \in At(l, p, "ApprovalResolved") : l[j].approval # e.approval

FitsResult(l, p, e) ==
    e.type = "ToolResult" =>
        /\ \E j \in At(l, p, "ToolCallRequested") : l[j].call = e.call /\ l[j].turn = e.turn
        /\ ~CallAnsweredIn(l, p, e.call)
        /\ \A j \in At(l, p, "ApprovalRequested") : l[j].call = e.call =>
              \E k \in At(l, p, "ApprovalResolved") :
                 /\ l[k].approval = l[j].approval
                 /\ IF l[k].value = "Deny" THEN e.value = "Denied" ELSE e.value \notin Denials
        /\ (\A j \in At(l, p, "ApprovalRequested") : l[j].call # e.call) => e.value \notin Denials

Fits(l, p, e) ==
    /\ FitsRun(l, p, e) /\ FitsTurn(l, p, e) /\ FitsRequest(l, p, e)
    /\ FitsApproval(l, p, e) /\ FitsResolution(l, p, e) /\ FitsResult(l, p, e)

WellFormedIn(l) ==
    /\ l # <<>> /\ l[1].type = "RunStarted"
    /\ \A i \in 2..Len(l) : Fits(l, i - 1, l[i])

\* A timeline is well formed when each event fits what comes before it.
LEMMA WellFormedByEvent ==
    ASSUME NEW E, timeline \in Seq(E)
    PROVE  WellFormed <=> WellFormedIn(timeline)
<1> DEFINE n == Len(timeline)
<1>1. n \in Nat /\ (timeline # <<>> <=> n # 0)
    OBVIOUS
<1> HIDE DEF n
<1>2. SUFFICES ASSUME timeline # <<>>, 1 \in 1..n
               PROVE  WellFormed <=> WellFormedIn(timeline)
    BY <1>1 DEF WellFormed, OneRun, WellFormedIn
<1>3. ASSUME NEW i \in 1..n
      PROVE  /\ \A c : HasAnswer(i, c) <=> CallAnsweredIn(timeline, i - 1, c)
             /\ AllAnswered(i) <=> Settled(timeline, i - 1)
             /\ RequestOf(i) = {j \in At(timeline, i - 1, "ToolCallRequested") :
                                    timeline[j].call = timeline[i].call}
             /\ \A c : ApprovalsOf(i, c) = {j \in At(timeline, i - 1, "ApprovalRequested") :
                                                timeline[j].call = c}
             /\ \A a : ResolutionsOf(i, a) = {j \in At(timeline, i - 1, "ApprovalResolved") :
                                                  timeline[j].approval = a}
    BY DEF HasAnswer, CallAnsweredIn, AllAnswered, Settled, RequestOf, ApprovalsOf, ResolutionsOf,
           At, Is
<1>4. OneRun <=> /\ timeline[1].type = "RunStarted"
                 /\ \A i \in 2..n : FitsRun(timeline, i - 1, timeline[i])
    <2>1. ASSUME OneRun
          PROVE  /\ timeline[1].type = "RunStarted"
                 /\ \A i \in 2..n : FitsRun(timeline, i - 1, timeline[i])
        <3>1. \A i \in 1..n : /\ timeline[i].type = "RunStarted" <=> i = 1
                              /\ timeline[i].run = timeline[1].run
                              /\ timeline[i].type = "RunFinished" => i = n
            BY <2>1 DEF OneRun, Is, n
        <3>2. ASSUME NEW i \in 2..n PROVE FitsRun(timeline, i - 1, timeline[i])
            <4>1. i \in 1..n /\ i # 1 /\ \A j \in 1..(i - 1) : j \in 1..n /\ j # n
                BY <1>1
            <4> QED
                BY <3>1, <4>1 DEF FitsRun, At
        <3> QED
            BY <1>2, <3>1, <3>2
    <2>2. ASSUME timeline[1].type = "RunStarted",
                 \A i \in 2..n : FitsRun(timeline, i - 1, timeline[i])
          PROVE  OneRun
        <3>1. ASSUME NEW i \in 1..n
              PROVE  /\ Is(i, "RunStarted") <=> i = 1
                     /\ timeline[i].run = timeline[1].run
            <4>1. CASE i = 1
                BY <2>2, <4>1 DEF Is
            <4>2. CASE i # 1
                <5>1. i \in 2..n
                    BY <1>1, <4>2
                <5> QED
                    BY <2>2, <4>2, <5>1 DEF FitsRun, Is
            <4> QED
                BY <4>1, <4>2
        <3>2. ASSUME NEW i \in 1..n, Is(i, "RunFinished") PROVE i = n
            <4> SUFFICES ASSUME i # n PROVE FALSE
                OBVIOUS
            <4>1. n \in 2..n /\ i \in 1..(n - 1)
                BY <1>1
            <4> QED
                BY <2>2, <3>2, <4>1 DEF FitsRun, At, Is
        <3> QED
            BY <1>2, <3>1, <3>2 DEF OneRun, n
    <2> QED
        BY <2>1, <2>2
<1>5. TurnsNest <=> \A i \in 1..n : FitsTurn(timeline, i - 1, timeline[i])
    <2>1. ASSUME NEW i \in 1..n, timeline[i].type \in InTurn
          PROVE  InTurnAfter(timeline, i - 1, timeline[i].turn)
                 <=> \E j \in 1..(i - 1) :
                        /\ Is(j, "TurnStarted") /\ timeline[j].turn = timeline[i].turn
                        /\ \A k \in (j + 1)..i : ~Is(k, "TurnStarted")
        <3>1. timeline[i].type # "TurnStarted"
            BY <2>1 DEF InTurn
        <3>2. ASSUME NEW j \in 1..(i - 1)
              PROVE  (\A k \in (j + 1)..i : ~Is(k, "TurnStarted"))
                     <=> (\A k \in (j + 1)..(i - 1) : timeline[k].type # "TurnStarted")
            <4>1. /\ \A k \in (j + 1)..i : k = i \/ k \in (j + 1)..(i - 1)
                  /\ \A k \in (j + 1)..(i - 1) : k \in (j + 1)..i
                BY <1>1
            <4> QED
                BY <3>1, <4>1 DEF Is
        <3> QED
            BY <3>2 DEF InTurnAfter, At, Is
    <2>2. ASSUME NEW i \in 1..n
          PROVE  FitsTurn(timeline, i - 1, timeline[i])
                 <=> /\ Is(i, "TurnStarted") =>
                          /\ AllAnswered(i)
                          /\ \A j \in 1..(i - 1) : Is(j, "TurnStarted") =>
                                timeline[j].turn # timeline[i].turn
                     /\ (Is(i, "Error") /\ timeline[i].turn = 0) \/ timeline[i].type \notin InTurn
                        \/ \E j \in 1..(i - 1) :
                              /\ Is(j, "TurnStarted") /\ timeline[j].turn = timeline[i].turn
                              /\ \A k \in (j + 1)..i : ~Is(k, "TurnStarted")
                     /\ Is(i, "RunFinished") /\ timeline[i].value = "Completed" => AllAnswered(i)
        <3>1. AllAnswered(i) <=> Settled(timeline, i - 1)
            BY <1>3
        <3>2. (\A j \in 1..(i - 1) : Is(j, "TurnStarted") => timeline[j].turn # timeline[i].turn)
              <=> \A j \in At(timeline, i - 1, "TurnStarted") : timeline[j].turn # timeline[i].turn
            BY DEF At, Is
        <3> QED
            BY <2>1, <3>1, <3>2 DEF FitsTurn, Is
    <2> QED
        BY <2>2 DEF TurnsNest, n
<1>6. ApprovalsFollowRequests
      <=> \A i \in 1..n : /\ FitsRequest(timeline, i - 1, timeline[i])
                          /\ FitsApproval(timeline, i - 1, timeline[i])
                          /\ FitsResolution(timeline, i - 1, timeline[i])
    <2>1. ASSUME NEW i \in 1..n
          PROVE  FitsRequest(timeline, i - 1, timeline[i])
                 <=> (Is(i, "ToolCallRequested") => RequestOf(i) = {})
        BY <1>3 DEF FitsRequest, Is
    <2>2. ASSUME NEW i \in 1..n
          PROVE  FitsApproval(timeline, i - 1, timeline[i])
                 <=> (Is(i, "ApprovalRequested") =>
                         /\ \E j \in RequestOf(i) : timeline[j].turn = timeline[i].turn
                                                    /\ timeline[j].value = timeline[i].value
                         /\ ~HasAnswer(i, timeline[i].call)
                         /\ \A j \in 1..(i - 1) : Is(j, "ApprovalRequested") =>
                               timeline[j].call # timeline[i].call
                               /\ timeline[j].approval # timeline[i].approval)
        <3>1. (\A j \in 1..(i - 1) : Is(j, "ApprovalRequested") =>
                    timeline[j].call # timeline[i].call /\ timeline[j].approval # timeline[i].approval)
              <=> \A j \in At(timeline, i - 1, "ApprovalRequested") :
                    timeline[j].call # timeline[i].call /\ timeline[j].approval # timeline[i].approval
            BY DEF At, Is
        <3> QED
            BY <1>3, <3>1 DEF FitsApproval, Is
    <2>3. ASSUME NEW i \in 1..n
          PROVE  FitsResolution(timeline, i - 1, timeline[i])
                 <=> (Is(i, "ApprovalResolved") =>
                         /\ \E j \in 1..(i - 1) :
                               /\ Is(j, "ApprovalRequested")
                               /\ timeline[j].approval = timeline[i].approval
                               /\ timeline[j].turn = timeline[i].turn
                               /\ ~HasAnswer(i, timeline[j].call)
                         /\ ResolutionsOf(i, timeline[i].approval) = {})
        <3>1. (\E j \in 1..(i - 1) :
                    /\ Is(j, "ApprovalRequested") /\ timeline[j].approval = timeline[i].approval
                    /\ timeline[j].turn = timeline[i].turn /\ ~HasAnswer(i, timeline[j].call))
              <=> \E j \in At(timeline, i - 1, "ApprovalRequested") :
                    /\ timeline[j].approval = timeline[i].approval
                    /\ timeline[j].turn = timeline[i].turn
                    /\ ~CallAnsweredIn(timeline, i - 1, timeline[j].call)
            BY <1>3 DEF At, Is
        <3>2. ResolutionsOf(i, timeline[i].approval) = {}
              <=> \A j \in At(timeline, i - 1, "ApprovalResolved") :
                     timeline[j].approval # timeline[i].approval
            BY DEF ResolutionsOf, At, Is
        <3>3. Is(i, "ApprovalResolved") <=> timeline[i].type = "ApprovalResolved"
            BY DEF Is
        <3> QED
            BY <3>1, <3>2, <3>3 DEF FitsResolution
    <2> QED
        BY <2>1, <2>2, <2>3 DEF ApprovalsFollowRequests, n
<1>7. ResultsFollowDecisions <=> \A i \in 1..n : FitsResult(timeline, i - 1, timeline[i])
    <2>1. ASSUME NEW i \in 1..n
          PROVE  FitsResult(timeline, i - 1, timeline[i])
                 <=> (Is(i, "ToolResult") =>
                        /\ \E j \in RequestOf(i) : timeline[j].turn = timeline[i].turn
                        /\ ~HasAnswer(i, timeline[i].call)
                        /\ \A j \in ApprovalsOf(i, timeline[i].call) :
                              \E k \in ResolutionsOf(i, timeline[j].approval) :
                                 IF timeline[k].value = "Deny" THEN timeline[i].value = "Denied"
                                 ELSE timeline[i].value \notin Denials
                        /\ ApprovalsOf(i, timeline[i].call) = {} =>
                              timeline[i].value \notin Denials)
        <3>1. Is(i, "ToolResult") <=> timeline[i].type = "ToolResult"
            BY DEF Is
        <3>2. (\E j \in RequestOf(i) : timeline[j].turn = timeline[i].turn)
              <=> \E j \in At(timeline, i - 1, "ToolCallRequested") :
                     timeline[j].call = timeline[i].call /\ timeline[j].turn = timeline[i].turn
            BY <1>3
        <3>3. HasAnswer(i, timeline[i].call) <=> CallAnsweredIn(timeline, i - 1, timeline[i].call)
            BY <1>3
        <3>4. /\ \A j : j \in ApprovalsOf(i, timeline[i].call)
                          <=> /\ j \in At(timeline, i - 1, "ApprovalRequested")
                              /\ timeline[j].call = timeline[i].call
              /\ \A a, k : k \in ResolutionsOf(i, a)
                             <=> /\ k \in At(timeline, i - 1, "ApprovalResolved")
                                 /\ timeline[k].approval = a
            BY <1>3
        <3>5. (\A j \in ApprovalsOf(i, timeline[i].call) :
                    \E k \in ResolutionsOf(i, timeline[j].approval) :
                       IF timeline[k].value = "Deny" THEN timeline[i].value = "Denied"
                       ELSE timeline[i].value \notin Denials)
              <=> \A j \in At(timeline, i - 1, "ApprovalRequested") :
                     timeline[j].call = timeline[i].call =>
                        \E k \in At(timeline, i - 1, "ApprovalResolved") :
                           /\ timeline[k].approval = timeline[j].approval
                           /\ IF timeline[k].value = "Deny" THEN timeline[i].value = "Denied"
                              ELSE timeline[i].value \notin Denials
            BY <3>4
        <3>6. ApprovalsOf(i, timeline[i].call) = {}
              <=> \A j \in At(timeline, i - 1, "ApprovalRequested") :
                     timeline[j].call # timeline[i].call
            BY <3>4
        <3> QED
            BY <3>1, <3>2, <3>3, <3>5, <3>6 DEF FitsResult
    <2> QED
        BY <2>1 DEF ResultsFollowDecisions, n
<1>8. ASSUME timeline[1].type = "RunStarted"
      PROVE  /\ FitsTurn(timeline, 0, timeline[1]) /\ FitsRequest(timeline, 0, timeline[1])
             /\ FitsApproval(timeline, 0, timeline[1]) /\ FitsResolution(timeline, 0, timeline[1])
             /\ FitsResult(timeline, 0, timeline[1])
    BY <1>8 DEF FitsTurn, FitsRequest, FitsApproval, FitsResolution, FitsResult, InTurn
<1>9. /\ \A i \in 1..n : i = 1 \/ i \in 2..n
      /\ \A i \in 2..n : i \in 1..n
      /\ 1 - 1 = 0
    BY <1>1
<1> QED
    BY <1>2, <1>4, <1>5, <1>6, <1>7, <1>8, <1>9 DEF WellFormed, WellFormedIn, Fits, n

\* Appending an event leaves the earlier ones as they were.
LEMMA FitsAppend ==
    ASSUME NEW E, NEW l \in Seq(E), NEW e \in E, NEW p \in 0..Len(l), NEW x
    PROVE  /\ \A type : At(Append(l, e), p, type) = At(l, p, type)
           /\ l # <<>> => (Fits(Append(l, e), p, x) <=> Fits(l, p, x))
<1> DEFINE m == Append(l, e)
<1>1. /\ Len(l) \in Nat /\ p \in Nat /\ \A j \in 1..p : m[j] = l[j]
      /\ l # <<>> => m[1] = l[1]
    OBVIOUS
<1> HIDE DEF m
<1>2. \A type : At(m, p, type) = At(l, p, type)
    BY <1>1 DEF At
<1>3. \A type : \A j \in At(l, p, type) : m[j] = l[j]
    BY <1>1 DEF At
<1>4. /\ \A c : CallAnsweredIn(m, p, c) <=> CallAnsweredIn(l, p, c)
      /\ Settled(m, p) <=> Settled(l, p)
    BY <1>2, <1>3 DEF CallAnsweredIn, Settled
<1>5. \A t : InTurnAfter(m, p, t) <=> InTurnAfter(l, p, t)
    <2>1. \A j \in 1..p : \A k \in (j + 1)..p : k \in 1..p
        BY <1>1
    <2>2. \A j \in 1..p : (\A k \in (j + 1)..p : m[k].type # "TurnStarted")
                          <=> \A k \in (j + 1)..p : l[k].type # "TurnStarted"
        BY <1>1, <2>1
    <2> QED
        BY <1>1, <2>2 DEF InTurnAfter, At
<1>6. FitsTurn(m, p, x) <=> FitsTurn(l, p, x)
    BY <1>2, <1>3, <1>4, <1>5 DEF FitsTurn
<1>7. FitsRequest(m, p, x) <=> FitsRequest(l, p, x)
    BY <1>2, <1>3 DEF FitsRequest
<1>8. FitsApproval(m, p, x) <=> FitsApproval(l, p, x)
    BY <1>2, <1>3, <1>4 DEF FitsApproval
<1>9. FitsResolution(m, p, x) <=> FitsResolution(l, p, x)
    BY <1>2, <1>3, <1>4 DEF FitsResolution
<1>10. FitsResult(m, p, x) <=> FitsResult(l, p, x)
    BY <1>2, <1>3, <1>4 DEF FitsResult
<1>11. l # <<>> => (FitsRun(m, p, x) <=> FitsRun(l, p, x))
    BY <1>1, <1>2 DEF FitsRun
<1> QED
    BY <1>2, <1>6, <1>7, <1>8, <1>9, <1>10, <1>11 DEF Fits, m

\* A timeline stays well formed exactly when the event it grows by fits.
LEMMA WellFormedAppend ==
    ASSUME NEW E, NEW l \in Seq(E), NEW e \in E
    PROVE  WellFormedIn(Append(l, e))
           <=> IF l = <<>> THEN e.type = "RunStarted" ELSE WellFormedIn(l) /\ Fits(l, Len(l), e)
<1> DEFINE m == Append(l, e)
<1>1. /\ Len(l) \in Nat /\ Len(m) = Len(l) + 1 /\ m # <<>> /\ m[Len(l) + 1] = e
      /\ \A j \in 1..Len(l) : m[j] = l[j]
      /\ l = <<>> <=> Len(l) = 0
    OBVIOUS
<1>2. ASSUME NEW p \in 0..Len(l), NEW x, l # <<>> PROVE Fits(m, p, x) <=> Fits(l, p, x)
    BY <1>2, FitsAppend
<1> HIDE DEF m
<1>3. CASE l = <<>>
    <2>1. 2..Len(m) = {} /\ m[1] = e
        BY <1>1, <1>3
    <2> QED
        BY <1>1, <1>3, <2>1 DEF WellFormedIn, m
<1>4. CASE l # <<>>
    <2>1. /\ \A i \in 2..Len(m) : i = Len(l) + 1 \/ i \in 2..Len(l)
          /\ \A i \in 2..Len(l) : i \in 2..Len(m) /\ i \in 1..Len(l) /\ i - 1 \in 0..Len(l)
          /\ Len(l) + 1 \in 2..Len(m) /\ Len(l) + 1 - 1 = Len(l) /\ Len(l) \in 0..Len(l)
          /\ 1 \in 1..Len(l)
        BY <1>1, <1>4
    <2>2. ASSUME NEW i \in 2..Len(l) PROVE Fits(m, i - 1, m[i]) <=> Fits(l, i - 1, l[i])
        BY <1>1, <1>2, <1>4, <2>1
    <2>3. Fits(m, Len(l), e) <=> Fits(l, Len(l), e)
        BY <1>2, <1>4, <2>1
    <2>4. WellFormedIn(m) <=> WellFormedIn(l) /\ Fits(m, Len(l), e)
        BY <1>1, <1>4, <2>1, <2>2 DEF WellFormedIn
    <2> QED
        BY <1>4, <2>3, <2>4 DEF m
<1> QED
    BY <1>3, <1>4

-----------------------------------------------------------------------------
(* The state of the fold sums up the timeline *)

\* What the events of a timeline are, by type.
Kinds(e) ==
    /\ e.type \in EventTypes
    /\ e.type \in InTurn \ {"Error"} => e.turn \in Turns
    /\ e.type = "TurnStarted" => e.turn \in Turns
    /\ e.type = "Error" => e.turn = 0
    /\ e.type = "ApprovalResolved" => e.value \in {"Approve", "Deny"}
    /\ e.type = "RunFinished" => e.value \in {"Completed", "Interrupted"}

\* An event is a record; its sequence is not one of its other fields.
IsEvent(e) ==
    e = [run |-> e.run, seq |-> e.seq, type |-> e.type, turn |-> e.turn, call |-> e.call,
         approval |-> e.approval, value |-> e.value]

LEMMA UnsequencedKinds == ASSUME NEW e \in Unsequenced PROVE IsEvent(e) /\ Kinds(e)
<1>1. ASSUME NEW type, NEW t, NEW c, NEW a, NEW v
      PROVE  /\ IsEvent(Ev(type, t, c, a, v))
             /\ Ev(type, t, c, a, v).type = type /\ Ev(type, t, c, a, v).turn = t
             /\ Ev(type, t, c, a, v).value = v
    BY DEF Ev, IsEvent
<1>2. CASE e = [Ev("Error", 0, 0, 0, "fatal") EXCEPT !.run = "other"]
    BY <1>2 DEF Ev, EventTypes, InTurn, IsEvent, Kinds
<1>3. CASE e # [Ev("Error", 0, 0, 0, "fatal") EXCEPT !.run = "other"]
    <2>1. \/ e \in {Ev("RunStarted", 0, 0, 0, "none"), Ev("Error", 0, 0, 0, "fatal")}
          \/ \E t \in Turns : e = Ev("TurnStarted", t, 0, 0, "none")
                              \/ e = Ev("ModelOutput", t, 0, 0, "Delta")
          \/ \E t \in Turns, c \in Calls : e = Ev("ToolCallRequested", t, c, 0, "p")
          \/ \E t \in Turns, c \in Calls, a \in Approvals, v \in {"p", "q"} :
                e = Ev("ApprovalRequested", t, c, a, v)
          \/ \E t \in Turns, a \in Approvals, v \in {"Approve", "Deny"} :
                e = Ev("ApprovalResolved", t, 0, a, v)
          \/ \E t \in Turns, c \in Calls, v \in {"Success"} \cup Denials :
                e = Ev("ToolResult", t, c, 0, v)
          \/ \E v \in {"Completed", "Interrupted"} : e = Ev("RunFinished", 0, 0, 0, v)
        BY <1>3 DEF Unsequenced
    <2>2. IsEvent(e)
        BY ONLY <1>1, <2>1
    <2>3. Kinds(e)
        BY ONLY <1>1, <2>1 DEF EventTypes, InTurn, Kinds
    <2> QED
        BY ONLY <2>2, <2>3
<1> QED
    BY ONLY <1>2, <1>3

LEMMA UniverseKinds == ASSUME NEW e \in Universe PROVE Kinds(e)
<1>1. PICK f \in Unsequenced : \E n \in SequenceNumbers[f.type] : e = [f EXCEPT !.seq = n]
    BY DEF Universe
<1>2. PICK n : e = [f EXCEPT !.seq = n]
    BY <1>1
<1>3. IsEvent(f) /\ Kinds(f)
    BY UnsequencedKinds
<1>4. e.type = f.type /\ e.turn = f.turn /\ e.value = f.value
    BY ONLY <1>2, <1>3 DEF IsEvent
<1> QED
    BY ONLY <1>3, <1>4 DEF Kinds

\* What the state of the fold says of timeline l.
Summarises(l, st) ==
    /\ IsState(st) /\ st.accepted /\ st.run = l[1].run /\ st.format # "Legacy"
    /\ st.finished = "no" <=> At(l, Len(l), "RunFinished") = {}
    /\ st.turns = {l[j].turn : j \in At(l, Len(l), "TurnStarted")}
    /\ \A t \in Turns : st.active = t <=> InTurnAfter(l, Len(l), t)
    /\ st.calls = {CallOf(l[j]) : j \in At(l, Len(l), "ToolCallRequested")}
    /\ st.approvals = {[id |-> l[j].approval, call |-> l[j].call] :
                          j \in At(l, Len(l), "ApprovalRequested")}
    /\ st.decisions = {[approval |-> l[j].approval, decision |-> l[j].value] :
                          j \in At(l, Len(l), "ApprovalResolved")}
    /\ st.results = {l[j].call : j \in At(l, Len(l), "ToolResult")}

\* No call, approval or resolution is recorded twice, and an approval is asked in the
\* turn of its call.
Distinct(l, st) ==
    /\ \A c, d \in st.calls : c.id = d.id => c = d
    /\ \A a, b \in st.approvals : a.id = b.id \/ a.call = b.call => a = b
    /\ \A x, y \in st.decisions : x.approval = y.approval => x = y
    /\ \A j \in At(l, Len(l), "ApprovalRequested") :
          \E c \in st.calls : c.id = l[j].call /\ c.turn = l[j].turn

\* What was decided on a call.
LEMMA DecisionFacts ==
    ASSUME NEW st, NEW id,
           \A a, b \in st.approvals : a.id = b.id \/ a.call = b.call => a = b,
           \A x, y \in st.decisions : x.approval = y.approval => x = y
    PROVE  /\ (\A a \in st.approvals : a.call # id) => DecisionOn(st, id) = "not_asked"
           /\ \A a \in st.approvals : a.call = id =>
                 /\ (\A d \in st.decisions : d.approval # a.id) => DecisionOn(st, id) = "undecided"
                 /\ \A d \in st.decisions : d.approval = a.id => DecisionOn(st, id) = d.decision
<1> DEFINE asked == {a.id : a \in {x \in st.approvals : x.call = id}}
           decided == {d.decision : d \in {x \in st.decisions : x.approval \in asked}}
<1>1. DecisionOn(st, id) = IF asked = {} THEN "not_asked"
                             ELSE IF decided = {} THEN "undecided"
                             ELSE CHOOSE d \in decided : TRUE
    BY DEF DecisionOn
<1>2. (\A a \in st.approvals : a.call # id) => asked = {}
    OBVIOUS
<1>3. ASSUME NEW a \in st.approvals, a.call = id PROVE asked = {a.id}
    BY <1>3
<1>4. ASSUME NEW a \in st.approvals, a.call = id, \A d \in st.decisions : d.approval # a.id
      PROVE  decided = {}
    <2>1. asked = {a.id}
        BY <1>3, <1>4
    <2> HIDE DEF asked
    <2> QED
        BY <1>4, <2>1
<1>5. ASSUME NEW a \in st.approvals, a.call = id, NEW d \in st.decisions, d.approval = a.id
      PROVE  decided = {d.decision}
    <2>1. asked = {a.id}
        BY <1>3, <1>5
    <2> HIDE DEF asked
    <2> QED
        BY <1>5, <2>1
<1> HIDE DEF asked, decided
<1> QED
    BY <1>1, <1>2, <1>3, <1>4, <1>5

\* How the fields of the state answer what an event needs.
LEMMA SummaryAnswers ==
    ASSUME NEW l, Len(l) \in Nat, NEW st, Summarises(l, st)
    PROVE  /\ \A c : CallAnsweredIn(l, Len(l), c) <=> c \in st.results
           /\ Settled(l, Len(l)) <=> Unresolved(st) = {}
           /\ \A t \in Turns : InTurnAfter(l, Len(l), t) => t \in st.turns
           /\ \A j \in At(l, Len(l), "ToolCallRequested") : CallOf(l[j]) \in st.calls
           /\ \A j \in At(l, Len(l), "ApprovalRequested") :
                 [id |-> l[j].approval, call |-> l[j].call] \in st.approvals
           /\ \A j \in At(l, Len(l), "ApprovalResolved") :
                 [approval |-> l[j].approval, decision |-> l[j].value] \in st.decisions
<1>1. \A c : CallAnsweredIn(l, Len(l), c) <=> c \in st.results
    BY DEF Summarises, CallAnsweredIn
<1>2. Settled(l, Len(l)) <=> Unresolved(st) = {}
    <2>1. \A j \in At(l, Len(l), "ToolCallRequested") : CallOf(l[j]).id = l[j].call
        BY DEF CallOf
    <2>2. st.calls = {CallOf(l[j]) : j \in At(l, Len(l), "ToolCallRequested")}
        BY DEF Summarises
    <2> QED
        BY <1>1, <2>1, <2>2 DEF Settled, Unresolved
<1>3. \A t \in Turns : InTurnAfter(l, Len(l), t) => t \in st.turns
    BY DEF Summarises, InTurnAfter
<1> QED
    BY <1>1, <1>2, <1>3 DEF Summarises

\* Strict replay takes exactly the events that fit.
LEMMA StrictTakesWhatFits ==
    ASSUME NEW l \in Seq(Universe), NEW st, Summarises(l, st), Distinct(l, st), NEW e \in Universe
    PROVE  Fits(l, Len(l), e) <=> ~Rejects(st, e, "Strict")
<1> DEFINE n == Len(l)
<1>1. /\ e.type \in EventTypes
      /\ e.type \in InTurn \ {"Error"} => e.turn \in Turns
      /\ e.type = "Error" => e.turn = 0
      /\ e.type = "ApprovalResolved" => e.value \in {"Approve", "Deny"}
      /\ e.type = "RunFinished" => e.value \in {"Completed", "Interrupted"}
    BY UniverseKinds DEF Kinds
<1>2. /\ \A c : CallAnsweredIn(l, n, c) <=> c \in st.results
      /\ Settled(l, n) <=> Unresolved(st) = {}
      /\ \A t \in Turns : InTurnAfter(l, n, t) <=> t \in st.turns /\ st.active = t
    <2>1. Len(l) \in Nat
        OBVIOUS
    <2> QED
        BY <2>1, SummaryAnswers DEF Summarises
<1>3. /\ st.calls = {CallOf(l[j]) : j \in At(l, n, "ToolCallRequested")}
      /\ st.approvals = {[id |-> l[j].approval, call |-> l[j].call] :
                            j \in At(l, n, "ApprovalRequested")}
      /\ st.decisions = {[approval |-> l[j].approval, decision |-> l[j].value] :
                            j \in At(l, n, "ApprovalResolved")}
      /\ st.turns = {l[j].turn : j \in At(l, n, "TurnStarted")}
      /\ \A j : /\ CallOf(l[j]).id = l[j].call /\ CallOf(l[j]).turn = l[j].turn
                /\ CallOf(l[j]).payload = l[j].value
    BY DEF Summarises, CallOf
<1>4. /\ \A c \in st.calls : \E j \in At(l, n, "ToolCallRequested") :
             c.id = l[j].call /\ c.turn = l[j].turn /\ c.payload = l[j].value
      /\ \A a \in st.approvals : \E j \in At(l, n, "ApprovalRequested") :
             a.id = l[j].approval /\ a.call = l[j].call
      /\ \A d \in st.decisions : \E j \in At(l, n, "ApprovalResolved") :
             d.approval = l[j].approval /\ d.decision = l[j].value
      /\ \A j \in At(l, n, "ToolCallRequested") : CallOf(l[j]) \in st.calls
      /\ \A j \in At(l, n, "ApprovalRequested") : \E a \in st.approvals :
             a.id = l[j].approval /\ a.call = l[j].call
      /\ \A j \in At(l, n, "ApprovalResolved") : \E d \in st.decisions :
             d.approval = l[j].approval /\ d.decision = l[j].value
    <2> HIDE DEF n
    <2>1. ASSUME NEW c \in st.calls
          PROVE  \E j \in At(l, n, "ToolCallRequested") :
                    c.id = l[j].call /\ c.turn = l[j].turn /\ c.payload = l[j].value
        <3>1. PICK j \in At(l, n, "ToolCallRequested") : c = CallOf(l[j])
            BY <1>3
        <3> QED
            BY <1>3, <3>1
    <2>2. ASSUME NEW a \in st.approvals
          PROVE  \E j \in At(l, n, "ApprovalRequested") :
                    a.id = l[j].approval /\ a.call = l[j].call
        <3>1. PICK j \in At(l, n, "ApprovalRequested") :
                      a = [id |-> l[j].approval, call |-> l[j].call]
            BY <1>3
        <3> QED
            BY <3>1
    <2>3. ASSUME NEW d \in st.decisions
          PROVE  \E j \in At(l, n, "ApprovalResolved") :
                    d.approval = l[j].approval /\ d.decision = l[j].value
        <3>1. PICK j \in At(l, n, "ApprovalResolved") :
                      d = [approval |-> l[j].approval, decision |-> l[j].value]
            BY <1>3
        <3> QED
            BY <3>1
    <2>4. ASSUME NEW j \in At(l, n, "ApprovalRequested")
          PROVE  \E a \in st.approvals : a.id = l[j].approval /\ a.call = l[j].call
        <3>1. [id |-> l[j].approval, call |-> l[j].call] \in st.approvals
            BY <1>3
        <3> QED
            BY <3>1
    <2>5. ASSUME NEW j \in At(l, n, "ApprovalResolved")
          PROVE  \E d \in st.decisions : d.approval = l[j].approval /\ d.decision = l[j].value
        <3>1. [approval |-> l[j].approval, decision |-> l[j].value] \in st.decisions
            BY <1>3
        <3> QED
            BY <3>1
    <2>6. \A j \in At(l, n, "ToolCallRequested") : CallOf(l[j]) \in st.calls
        BY <1>3
    <2> QED
        BY <2>1, <2>2, <2>3, <2>4, <2>5, <2>6
<1> HIDE DEF n
<1>5. FitsRun(l, n, e) <=> st.finished = "no" /\ e.run = st.run /\ e.type # "RunStarted"
    BY DEF FitsRun, Summarises, n
<1>6. FitsTurn(l, n, e) <=> ~BadTurn(st, e) /\ ~BadFinish(st, e)
    <2>1. (\A j \in At(l, n, "TurnStarted") : l[j].turn # e.turn) <=> e.turn \notin st.turns
        <3>1. st.turns = {l[j].turn : j \in At(l, n, "TurnStarted")}
            BY <1>3
        <3> QED
            BY <3>1
    <2>2. e.type \in InTurn /\ e.type # "Error" =>
             (InTurnAfter(l, n, e.turn) <=> e.turn \in st.turns /\ st.active = e.turn)
        BY <1>1, <1>2
    <2>3. CASE e.type = "TurnStarted"
        BY <1>2, <2>1, <2>3 DEF FitsTurn, BadTurn, BadFinish, InTurn
    <2>4. CASE e.type \in InTurn
        BY <1>1, <2>2, <2>4 DEF FitsTurn, BadTurn, BadFinish, InTurn
    <2>5. CASE e.type \in {"RunStarted", "RunFinished"}
        BY <1>1, <1>2, <2>5 DEF FitsTurn, BadTurn, BadFinish, InTurn
    <2> QED
        BY <1>1, <2>3, <2>4, <2>5 DEF EventTypes, InTurn
<1>7. FitsRequest(l, n, e) <=> ~BadRequest(st, e)
    BY <1>3 DEF FitsRequest, BadRequest
<1>8. FitsApproval(l, n, e) <=> ~BadApprovalRequest(st, e)
    <2>1. (\E j \in At(l, n, "ToolCallRequested") :
               l[j].call = e.call /\ l[j].turn = e.turn /\ l[j].value = e.value)
          <=> CallOf(e) \in st.calls
        <3>1. \A j : (l[j].call = e.call /\ l[j].turn = e.turn /\ l[j].value = e.value)
                     <=> CallOf(l[j]) = CallOf(e)
            BY DEF CallOf
        <3>2. CallOf(e) \in st.calls
              <=> \E j \in At(l, n, "ToolCallRequested") : CallOf(l[j]) = CallOf(e)
            <4>1. st.calls = {CallOf(l[j]) : j \in At(l, n, "ToolCallRequested")}
                BY <1>3
            <4> QED
                BY <4>1
        <3> QED
            BY <3>1, <3>2
    <2>2. (\A j \in At(l, n, "ApprovalRequested") : l[j].call # e.call /\ l[j].approval # e.approval)
          <=> ~\E a \in st.approvals : a.call = e.call \/ a.id = e.approval
        BY <1>4
    <2> QED
        BY <1>2, <2>1, <2>2 DEF FitsApproval, BadApprovalRequest
<1>9. FitsResolution(l, n, e) <=> ~BadResolution(st, e, "Strict")
    <2>1. (\A j \in At(l, n, "ApprovalResolved") : l[j].approval # e.approval)
          <=> ~\E d \in st.decisions : d.approval = e.approval
        BY <1>4
    <2>2. ASSUME NEW j \in At(l, n, "ApprovalRequested")
          PROVE  /\ [id |-> l[j].approval, call |-> l[j].call] \in st.approvals
                 /\ (l[j].turn = e.turn /\ ~CallAnsweredIn(l, n, l[j].call))
                    <=> \E c \in st.calls :
                           c.id = l[j].call /\ c.turn = e.turn /\ c.id \notin st.results
        <3>1. PICK c \in st.calls : c.id = l[j].call /\ c.turn = l[j].turn
            BY DEF Distinct, n
        <3>2. \A d \in st.calls : d.id = c.id => d = c
            BY DEF Distinct
        <3> QED
            BY <1>2, <1>3, <3>1, <3>2
    <2>3. (\E j \in At(l, n, "ApprovalRequested") :
               /\ l[j].approval = e.approval /\ l[j].turn = e.turn
               /\ ~CallAnsweredIn(l, n, l[j].call))
          <=> \E a \in st.approvals, c \in st.calls :
                 a.id = e.approval /\ c.id = a.call /\ c.turn = e.turn /\ c.id \notin st.results
        <3>1. ASSUME NEW j \in At(l, n, "ApprovalRequested"), l[j].approval = e.approval,
                     l[j].turn = e.turn, ~CallAnsweredIn(l, n, l[j].call)
              PROVE  \E a \in st.approvals, c \in st.calls :
                 a.id = e.approval /\ c.id = a.call /\ c.turn = e.turn /\ c.id \notin st.results
            BY <2>2, <3>1
        <3>2. ASSUME NEW a \in st.approvals, NEW c \in st.calls,
                     a.id = e.approval, c.id = a.call, c.turn = e.turn, c.id \notin st.results
              PROVE  \E j \in At(l, n, "ApprovalRequested") :
                        /\ l[j].approval = e.approval /\ l[j].turn = e.turn
                        /\ ~CallAnsweredIn(l, n, l[j].call)
            <4>1. PICK j \in At(l, n, "ApprovalRequested") :
                          a = [id |-> l[j].approval, call |-> l[j].call]
                BY <1>3
            <4>2. a.id = l[j].approval /\ a.call = l[j].call
                BY <4>1
            <4> QED
                BY <2>2, <3>2, <4>2
        <3> QED
            BY <3>1, <3>2
    <2> QED
        BY <2>1, <2>3 DEF FitsResolution, BadResolution
<1>10. FitsResult(l, n, e) <=> ~BadResult(st, e, "Strict")
    <2> SUFFICES ASSUME e.type = "ToolResult"
                 PROVE  FitsResult(l, n, e) <=> ~BadResult(st, e, "Strict")
        BY DEF FitsResult, BadResult
    <2>1. (\E j \in At(l, n, "ToolCallRequested") : l[j].call = e.call /\ l[j].turn = e.turn)
          <=> \E c \in st.calls : c.id = e.call /\ c.turn = e.turn
        BY <1>3
    <2> DEFINE Fit ==
           /\ \A j \in At(l, n, "ApprovalRequested") : l[j].call = e.call =>
                 \E k \in At(l, n, "ApprovalResolved") :
                    /\ l[k].approval = l[j].approval
                    /\ IF l[k].value = "Deny" THEN e.value = "Denied" ELSE e.value \notin Denials
           /\ (\A j \in At(l, n, "ApprovalRequested") : l[j].call # e.call) => e.value \notin Denials
    <2>2. Fit <=> ~BadOutput(st, e, "Strict")
        <3>2. /\ \A a, b \in st.approvals : a.id = b.id \/ a.call = b.call => a = b
              /\ \A x, y \in st.decisions : x.approval = y.approval => x = y
            BY DEF Distinct
        <3>3. /\ (\A a \in st.approvals : a.call # e.call) => DecisionOn(st, e.call) = "not_asked"
              /\ \A a \in st.approvals : a.call = e.call =>
                   /\ (\A d \in st.decisions : d.approval # a.id) =>
                          DecisionOn(st, e.call) = "undecided"
                   /\ \A d \in st.decisions : d.approval = a.id => DecisionOn(st, e.call) = d.decision
            BY <3>2, DecisionFacts
        <3>4. CASE \A j \in At(l, n, "ApprovalRequested") : l[j].call # e.call
            <4>1. DecisionOn(st, e.call) = "not_asked"
                BY <1>3, <3>3, <3>4
            <4> QED
                BY <3>4, <4>1 DEF BadOutput
        <3>5. ASSUME NEW j \in At(l, n, "ApprovalRequested"), l[j].call = e.call
              PROVE  Fit <=> ~BadOutput(st, e, "Strict")
            <4> DEFINE a == [id |-> l[j].approval, call |-> l[j].call]
            <4>1. a \in st.approvals /\ a.id = l[j].approval /\ a.call = e.call
                BY <1>3, <3>5
            <4> HIDE DEF a
            <4>2. \A i \in At(l, n, "ApprovalRequested") :
                     l[i].call = e.call => l[i].approval = l[j].approval
                <5> TAKE i \in At(l, n, "ApprovalRequested")
                <5> HAVE l[i].call = e.call
                <5>1. [id |-> l[i].approval, call |-> l[i].call] \in st.approvals
                    BY <1>3
                <5>2. [id |-> l[i].approval, call |-> l[i].call] = a
                    BY <3>2, <4>1, <5>1
                <5> QED
                    BY <4>1, <5>2
            <4>3. CASE \A k \in At(l, n, "ApprovalResolved") : l[k].approval # l[j].approval
                <5>1. \A d \in st.decisions : d.approval # a.id
                    BY <1>3, <4>1, <4>3
                <5>2. DecisionOn(st, e.call) = "undecided"
                    BY <3>3, <4>1, <5>1
                <5> QED
                    BY <3>5, <4>3, <5>2 DEF BadOutput
            <4>4. ASSUME NEW k \in At(l, n, "ApprovalResolved"), l[k].approval = l[j].approval
                  PROVE  Fit <=> ~BadOutput(st, e, "Strict")
                <5> DEFINE d == [approval |-> l[k].approval, decision |-> l[k].value]
                <5>1. d \in st.decisions /\ d.approval = a.id /\ d.decision = l[k].value
                    BY <1>3, <4>1, <4>4
                <5> HIDE DEF d
                <5>2. DecisionOn(st, e.call) = l[k].value
                    BY <3>3, <4>1, <5>1
                <5>3. l[k].value \in {"Approve", "Deny"}
                    <6>1. l[k] \in Universe /\ l[k].type = "ApprovalResolved"
                        BY DEF At, n
                    <6> QED
                        BY <6>1, UniverseKinds DEF Kinds
                <5>4. \A i \in At(l, n, "ApprovalResolved") :
                         l[i].approval = l[j].approval => l[i].value = l[k].value
                    <6> TAKE i \in At(l, n, "ApprovalResolved")
                    <6> HAVE l[i].approval = l[j].approval
                    <6>1. [approval |-> l[i].approval, decision |-> l[i].value] \in st.decisions
                        BY <1>3
                    <6>2. [approval |-> l[i].approval, decision |-> l[i].value] = d
                        BY <3>2, <4>1, <4>4, <5>1, <6>1
                    <6> QED
                        BY <5>1, <6>2
                <5>5. Fit <=> IF l[k].value = "Deny" THEN e.value = "Denied" ELSE e.value \notin Denials
                    BY <3>5, <4>2, <4>4, <5>4
                <5> HIDE DEF Fit
                <5> QED
                    BY <5>2, <5>3, <5>5 DEF BadOutput
            <4> QED
                BY <4>3, <4>4
        <3> QED
            BY <3>4, <3>5
    <2> HIDE DEF Fit
    <2>3. FitsResult(l, n, e)
          <=> /\ \E j \in At(l, n, "ToolCallRequested") : l[j].call = e.call /\ l[j].turn = e.turn
              /\ ~CallAnsweredIn(l, n, e.call)
              /\ Fit
        BY DEF FitsResult, Fit
    <2> QED
        BY <1>2, <2>1, <2>2, <2>3 DEF BadResult
<1> QED
    BY <1>5, <1>6, <1>7, <1>8, <1>9, <1>10 DEF Fits, Rejects, n

\* Timeline m is l with event k behind it.
IsNext(l, m, e, n, k) ==
    /\ Len(l) = n /\ Len(m) = k /\ m[k] = e
    /\ \A j \in 1..n : m[j] = l[j]

\* Appending an event gives such a timeline.
LEMMA AppendIsNext ==
    ASSUME NEW E, NEW l \in Seq(E), NEW e \in E
    PROVE  /\ IsNext(l, Append(l, e), e, Len(l), Len(l) + 1)
           /\ Len(l) \in Nat /\ Len(l) + 1 \in Nat
    BY DEF IsNext

\* The positions of each type in l, and those that the event e at k adds to them in m.
Adds(l, m, e, n, k) ==
    /\ \A type : e.type = type => At(m, k, type) = At(l, n, type) \cup {k}
    /\ \A type : e.type # type => At(m, k, type) = At(l, n, type)
    /\ \A type : \A j \in At(l, n, type) : m[j] = l[j]
    /\ \A t : e.type = "TurnStarted" => (InTurnAfter(m, k, t) <=> t = e.turn)
    /\ \A t : e.type # "TurnStarted" => (InTurnAfter(m, k, t) <=> InTurnAfter(l, n, t))

\* What one more event adds to the positions of each type.
LEMMA AtNext ==
    ASSUME NEW l, NEW m, NEW e, NEW n \in Nat, NEW k \in Nat, k = n + 1, IsNext(l, m, e, n, k)
    PROVE  Adds(l, m, e, n, k)
<1>1. /\ \A j \in 1..n : m[j] = l[j]
      /\ \A j \in 1..k : j \in 1..n \/ j = k
      /\ \A j \in 1..n : j \in 1..k
      /\ k \in 1..k /\ k \notin 1..n /\ m[k] = e
    BY DEF IsNext
<1>2. /\ \A type : e.type = type => At(m, k, type) = At(l, n, type) \cup {k}
      /\ \A type : e.type # type => At(m, k, type) = At(l, n, type)
      /\ \A type : At(l, n, type) \subseteq 1..n
      /\ \A type : \A j \in At(l, n, type) : m[j] = l[j]
    BY <1>1 DEF At
<1>3. /\ \A j \in 1..n : \A i \in (j + 1)..k : i = k \/ (i \in (j + 1)..n /\ i \in 1..n)
      /\ \A j \in 1..n : \A i \in (j + 1)..n : i \in (j + 1)..k /\ i \in 1..n
      /\ \A j \in 1..n : k \in (j + 1)..k
      /\ (k + 1)..k = {}
    OBVIOUS
<1>4. ASSUME NEW t, e.type = "TurnStarted" PROVE InTurnAfter(m, k, t) <=> t = e.turn
    <2>1. At(m, k, "TurnStarted") = At(l, n, "TurnStarted") \cup {k}
        BY <1>2, <1>4
    <2>2. m[k].turn = e.turn /\ \A i \in (k + 1)..k : m[i].type # "TurnStarted"
        BY <1>1, <1>3
    <2>3. \A j \in At(l, n, "TurnStarted") : k \in (j + 1)..k /\ m[k].type = "TurnStarted"
        BY <1>1, <1>2, <1>3, <1>4
    <2> QED
        BY <2>1, <2>2, <2>3 DEF InTurnAfter
<1>5. ASSUME NEW t, e.type # "TurnStarted" PROVE InTurnAfter(m, k, t) <=> InTurnAfter(l, n, t)
    <2>1. \A j \in 1..n : (\A i \in (j + 1)..k : m[i].type # "TurnStarted")
                          <=> \A i \in (j + 1)..n : l[i].type # "TurnStarted"
        BY <1>1, <1>3, <1>5
    <2>2. At(m, k, "TurnStarted") = At(l, n, "TurnStarted")
        BY <1>2, <1>5
    <2> QED
        BY <1>2, <2>1, <2>2 DEF InTurnAfter
<1> QED
    BY ONLY <1>2, <1>4, <1>5 DEF Adds

\* The state that has taken the next event sums up the longer timeline.
LEMMA SummaryGrows ==
    ASSUME NEW l, NEW m, NEW e \in Universe, NEW n \in Nat, NEW k \in Nat, n # 0, k = n + 1,
           IsNext(l, m, e, n, k), NEW st, Summarises(l, st), ~Rejects(st, e, "Strict")
    PROVE  Summarises(m, Record(st, e))
<1> DEFINE after == Record(st, e)
<1>1. /\ Len(l) = n /\ Len(m) = k /\ m[k] = e /\ m[1] = l[1]
      /\ \A type : e.type = type => At(m, k, type) = At(l, n, type) \cup {k}
      /\ \A type : e.type # type => At(m, k, type) = At(l, n, type)
      /\ \A type : \A j \in At(l, n, type) : m[j] = l[j]
      /\ \A t : e.type = "TurnStarted" => (InTurnAfter(m, k, t) <=> t = e.turn)
      /\ \A t : e.type # "TurnStarted" => (InTurnAfter(m, k, t) <=> InTurnAfter(l, n, t))
    <2>1. Len(l) = n /\ Len(m) = k /\ m[k] = e /\ m[1] = l[1]
        BY DEF IsNext
    <2>2. Adds(l, m, e, n, k)
        BY ONLY n \in Nat, k \in Nat, k = n + 1, IsNext(l, m, e, n, k), AtNext
    <2> QED
        BY ONLY <2>1, <2>2 DEF Adds
<1>2. /\ IsState(after)
      /\ after.accepted = st.accepted /\ after.run = st.run
      /\ after.finished = (IF e.type = "RunFinished" THEN e.value ELSE st.finished)
      /\ after.turns = (IF e.type = "TurnStarted" THEN st.turns \cup {e.turn} ELSE st.turns)
      /\ after.active = (IF e.type = "TurnStarted" THEN e.turn ELSE st.active)
      /\ after.calls = (IF e.type = "ToolCallRequested"
                        THEN st.calls \cup {CallOf(e)} ELSE st.calls)
      /\ after.approvals = (IF e.type = "ApprovalRequested"
                            THEN st.approvals \cup {[id |-> e.approval, call |-> e.call]}
                            ELSE st.approvals)
      /\ after.decisions = (IF e.type = "ApprovalResolved"
                            THEN st.decisions \cup {[approval |-> e.approval, decision |-> e.value]}
                            ELSE st.decisions)
      /\ after.results = (IF e.type = "ToolResult" THEN st.results \cup {e.call} ELSE st.results)
      /\ after.format = (IF e.type = "ApprovalResolved" THEN "Resolved"
                         ELSE IF e.type = "ToolResult" /\ DecisionOn(st, e.call) = "undecided"
                              THEN "Legacy" ELSE st.format)
    <2>1. IsState(st)
        BY DEF Summarises
    <2> QED
        BY <2>1, FieldsAfter
<1>3. /\ st.accepted /\ st.run = l[1].run /\ st.format # "Legacy"
      /\ st.finished = "no" <=> At(l, n, "RunFinished") = {}
      /\ st.turns = {l[j].turn : j \in At(l, n, "TurnStarted")}
      /\ \A t \in Turns : st.active = t <=> InTurnAfter(l, n, t)
      /\ st.calls = {CallOf(l[j]) : j \in At(l, n, "ToolCallRequested")}
      /\ st.approvals = {[id |-> l[j].approval, call |-> l[j].call] :
                            j \in At(l, n, "ApprovalRequested")}
      /\ st.decisions = {[approval |-> l[j].approval, decision |-> l[j].value] :
                            j \in At(l, n, "ApprovalResolved")}
      /\ st.results = {l[j].call : j \in At(l, n, "ToolResult")}
    BY <1>1 DEF Summarises
<1>4. /\ e.type = "RunFinished" => e.value # "no"
      /\ e.type = "TurnStarted" => e.turn \in Turns
    BY UniverseKinds DEF Kinds
<1> HIDE DEF after
<1>5. after.format # "Legacy"
    BY <1>2, <1>3 DEF Rejects, BadResult, BadOutput
<1>6. after.finished = "no" <=> At(m, k, "RunFinished") = {}
    BY <1>1, <1>2, <1>3, <1>4
<1>7. after.turns = {m[j].turn : j \in At(m, k, "TurnStarted")}
    <2> DEFINE A == At(m, k, "TurnStarted")
               B == At(l, n, "TurnStarted")
    <2>1. /\ A = IF e.type = "TurnStarted" THEN B \cup {k} ELSE B
          /\ m[k] = e /\ \A j \in B : m[j] = l[j]
        BY <1>1
    <2>2. after.turns = IF e.type = "TurnStarted"
                      THEN st.turns \cup {e.turn} ELSE st.turns
        BY <1>2
    <2>3. st.turns = {l[j].turn : j \in B}
        BY <1>3
    <2> HIDE DEF A, B
    <2>4. after.turns = {m[j].turn : j \in A}
        BY <2>1, <2>2, <2>3
    <2> QED
        BY <2>4 DEF A
<1>8. \A t \in Turns : after.active = t <=> InTurnAfter(m, k, t)
    BY <1>1, <1>2, <1>3, <1>4
<1>9. after.calls = {CallOf(m[j]) : j \in At(m, k, "ToolCallRequested")}
    <2> DEFINE A == At(m, k, "ToolCallRequested")
               B == At(l, n, "ToolCallRequested")
    <2>1. /\ A = IF e.type = "ToolCallRequested" THEN B \cup {k} ELSE B
          /\ m[k] = e /\ \A j \in B : m[j] = l[j]
        BY <1>1
    <2>2. after.calls = IF e.type = "ToolCallRequested"
                      THEN st.calls \cup {CallOf(e)} ELSE st.calls
        BY <1>2
    <2>3. st.calls = {CallOf(l[j]) : j \in B}
        BY <1>3
    <2> HIDE DEF A, B
    <2>4. after.calls = {CallOf(m[j]) : j \in A}
        BY <2>1, <2>2, <2>3
    <2> QED
        BY <2>4 DEF A
<1>10. after.approvals = {[id |-> m[j].approval, call |-> m[j].call] :
                             j \in At(m, k, "ApprovalRequested")}
    <2> DEFINE A == At(m, k, "ApprovalRequested")
               B == At(l, n, "ApprovalRequested")
    <2>1. /\ A = IF e.type = "ApprovalRequested" THEN B \cup {k} ELSE B
          /\ m[k] = e /\ \A j \in B : m[j] = l[j]
        BY <1>1
    <2>2. after.approvals = IF e.type = "ApprovalRequested"
                      THEN st.approvals \cup {[id |-> e.approval, call |-> e.call]} ELSE st.approvals
        BY <1>2
    <2>3. st.approvals = {[id |-> l[j].approval, call |-> l[j].call] : j \in B}
        BY <1>3
    <2> HIDE DEF A, B
    <2>4. after.approvals = {[id |-> m[j].approval, call |-> m[j].call] : j \in A}
        BY <2>1, <2>2, <2>3
    <2> QED
        BY <2>4 DEF A
<1>11. after.decisions = {[approval |-> m[j].approval, decision |-> m[j].value] :
                             j \in At(m, k, "ApprovalResolved")}
    <2> DEFINE A == At(m, k, "ApprovalResolved")
               B == At(l, n, "ApprovalResolved")
    <2>1. /\ A = IF e.type = "ApprovalResolved" THEN B \cup {k} ELSE B
          /\ m[k] = e /\ \A j \in B : m[j] = l[j]
        BY <1>1
    <2>2. after.decisions = IF e.type = "ApprovalResolved"
                      THEN st.decisions \cup {[approval |-> e.approval, decision |-> e.value]} ELSE st.decisions
        BY <1>2
    <2>3. st.decisions = {[approval |-> l[j].approval, decision |-> l[j].value] : j \in B}
        BY <1>3
    <2> HIDE DEF A, B
    <2>4. after.decisions = {[approval |-> m[j].approval, decision |-> m[j].value] : j \in A}
        BY <2>1, <2>2, <2>3
    <2> QED
        BY <2>4 DEF A
<1>12. after.results = {m[j].call : j \in At(m, k, "ToolResult")}
    <2> DEFINE A == At(m, k, "ToolResult")
               B == At(l, n, "ToolResult")
    <2>1. /\ A = IF e.type = "ToolResult" THEN B \cup {k} ELSE B
          /\ m[k] = e /\ \A j \in B : m[j] = l[j]
        BY <1>1
    <2>2. after.results = IF e.type = "ToolResult"
                      THEN st.results \cup {e.call} ELSE st.results
        BY <1>2
    <2>3. st.results = {l[j].call : j \in B}
        BY <1>3
    <2> HIDE DEF A, B
    <2>4. after.results = {m[j].call : j \in A}
        BY <2>1, <2>2, <2>3
    <2> QED
        BY <2>4 DEF A
<1> QED
    <2>1. Len(m) = k /\ m[1] = l[1]
        BY <1>1
    <2>2. IsState(after) /\ after.accepted /\ after.run = m[1].run
        BY <1>2, <1>3, <2>1
    <2>3. Summarises(m, after)
        BY ONLY <1>5, <1>6, <1>7, <1>8, <1>9, <1>10, <1>11, <1>12, <2>1, <2>2 DEF Summarises
    <2> QED
        BY <2>3 DEF after

\* ... and nothing in it is recorded twice.
LEMMA DistinctGrows ==
    ASSUME NEW l, NEW m, NEW e \in Universe, NEW n \in Nat, NEW k \in Nat, k = n + 1,
           IsNext(l, m, e, n, k), NEW st, Summarises(l, st), Distinct(l, st),
           ~Rejects(st, e, "Strict")
    PROVE  Distinct(m, Record(st, e))
<1> DEFINE after == Record(st, e)
<1>1. /\ Len(l) = n /\ Len(m) = k /\ m[k] = e
      /\ \A type : e.type = type => At(m, k, type) = At(l, n, type) \cup {k}
      /\ \A type : e.type # type => At(m, k, type) = At(l, n, type)
      /\ \A type : \A j \in At(l, n, type) : m[j] = l[j]
    <2>1. Len(l) = n /\ Len(m) = k /\ m[k] = e
        BY DEF IsNext
    <2>2. Adds(l, m, e, n, k)
        BY ONLY n \in Nat, k \in Nat, k = n + 1, IsNext(l, m, e, n, k), AtNext
    <2> QED
        BY ONLY <2>1, <2>2 DEF Adds
<1>2. /\ after.calls = (IF e.type = "ToolCallRequested"
                        THEN st.calls \cup {CallOf(e)} ELSE st.calls)
      /\ after.approvals = (IF e.type = "ApprovalRequested"
                            THEN st.approvals \cup {[id |-> e.approval, call |-> e.call]}
                            ELSE st.approvals)
      /\ after.decisions = (IF e.type = "ApprovalResolved"
                            THEN st.decisions \cup {[approval |-> e.approval, decision |-> e.value]}
                            ELSE st.decisions)
    <2>1. IsState(st)
        BY DEF Summarises
    <2> QED
        BY <2>1, FieldsAfter
<1> HIDE DEF after
<1>3. \A c, d \in after.calls : c.id = d.id => c = d
    <2>1. \A c, d \in st.calls : c.id = d.id => c = d
        BY DEF Distinct
    <2>2. e.type = "ToolCallRequested" => \A c \in st.calls : c.id # e.call
        BY DEF Rejects, BadRequest
    <2>3. CallOf(e).id = e.call
        BY DEF CallOf
    <2> QED
        BY <1>2, <2>1, <2>2, <2>3
<1>4. \A a, b \in after.approvals : a.id = b.id \/ a.call = b.call => a = b
    <2>1. \A a, b \in st.approvals : a.id = b.id \/ a.call = b.call => a = b
        BY DEF Distinct
    <2>2. e.type = "ApprovalRequested" =>
             \A a \in st.approvals : a.id # e.approval /\ a.call # e.call
        BY DEF Rejects, BadApprovalRequest
    <2> QED
        BY <1>2, <2>1, <2>2
<1>5. \A x, y \in after.decisions : x.approval = y.approval => x = y
    <2>1. \A x, y \in st.decisions : x.approval = y.approval => x = y
        BY DEF Distinct
    <2>2. e.type = "ApprovalResolved" => \A d \in st.decisions : d.approval # e.approval
        BY DEF Rejects, BadResolution
    <2> QED
        BY <1>2, <2>1, <2>2
<1>6. ASSUME NEW j \in At(m, k, "ApprovalRequested")
      PROVE  \E c \in after.calls : c.id = m[j].call /\ c.turn = m[j].turn
    <2>1. CASE j \in At(l, n, "ApprovalRequested")
        <3>1. \E c \in st.calls : c.id = l[j].call /\ c.turn = l[j].turn
            BY <1>1, <2>1 DEF Distinct
        <3> QED
            BY <1>1, <1>2, <2>1, <3>1
    <2>2. CASE j \notin At(l, n, "ApprovalRequested")
        <3>1. j = k /\ e.type = "ApprovalRequested" /\ m[j] = e
            BY <1>1, <2>2
        <3>2. CallOf(e) \in st.calls /\ CallOf(e).id = e.call /\ CallOf(e).turn = e.turn
            BY <3>1 DEF Rejects, BadApprovalRequest, CallOf
        <3> QED
            BY <1>2, <3>1, <3>2
    <2> QED
        BY <2>1, <2>2
<1> QED
    BY <1>1, <1>3, <1>4, <1>5, <1>6 DEF Distinct, after

-----------------------------------------------------------------------------
(* Both replay modes on every timeline *)

\* The start of a run, summed up.
LEMMA SummaryStarts ==
    ASSUME NEW e \in Universe, e.type = "RunStarted"
    PROVE  Summarises(<<e>>, Started(e)) /\ Distinct(<<e>>, Started(e))
<1>1. Len(<<e>>) = 1 /\ <<e>>[1] = e /\ 1..1 = {1}
    OBVIOUS
<1>2. \A type : type # "RunStarted" => At(<<e>>, 1, type) = {}
    BY <1>1 DEF At
<1>3. \A t \in Turns : ~InTurnAfter(<<e>>, 1, t) /\ t # 0
    BY <1>2, IdsAssumption DEF InTurnAfter
<1>4. /\ IsState(Started(e)) /\ Started(e).accepted /\ Started(e).run = e.run
      /\ Started(e).finished = "no" /\ Started(e).turns = {} /\ Started(e).active = 0
      /\ Started(e).calls = {} /\ Started(e).approvals = {} /\ Started(e).decisions = {}
      /\ Started(e).results = {} /\ Started(e).format = "Undetermined"
    BY DEF Started, IsState
<1>5. Distinct(<<e>>, Started(e))
    BY <1>1, <1>2, <1>4 DEF Distinct
<1>6. Summarises(<<e>>, Started(e))
    BY <1>1, <1>2, <1>3, <1>4 DEF Summarises
<1> QED
    BY <1>5, <1>6

\* What legacy replay says of a timeline next to what strict replay says: the same,
\* if the latter accepts it; otherwise it may accept a log without resolutions.
LegacyFollows(strict, legacy) ==
    /\ strict.accepted =>
          legacy = strict /\ (strict.decisions # {} => strict.format = "Resolved")
    /\ legacy.accepted /\ ~strict.accepted =>
          IsState(legacy) /\ legacy.decisions = {} /\ legacy.format = "Legacy"

SequencedIn(l) == \E i \in 1..Len(l) : l[i].seq # 0

ReplayAgrees(l, strict, legacy) ==
    /\ strict.accepted <=> WellFormedIn(l)
    /\ strict.accepted => Summarises(l, strict) /\ Distinct(l, strict)
    /\ IF SequencedIn(l) THEN ~legacy.accepted ELSE LegacyFollows(strict, legacy)

\* Legacy replay keeps following.
LEMMA LegacyKeepsFollowing ==
    ASSUME NEW strict, NEW legacy, LegacyFollows(strict, legacy), NEW e,
           strict.accepted => IsState(strict) /\ strict.format # "Legacy"
    PROVE  LegacyFollows(ReplayStep(strict, e, "Strict"),
                         ReplayStep(legacy, e, "LegacyApprovalWithoutResolution"))
<1> DEFINE mode == "LegacyApprovalWithoutResolution"
           strict2 == ReplayStep(strict, e, "Strict")
           legacy2 == ReplayStep(legacy, e, mode)
<1>1. mode # "Strict"
    OBVIOUS
<1> HIDE DEF mode
<1>2. ASSUME NEW st, IsState(st)
      PROVE  /\ [st EXCEPT !.accepted = FALSE].accepted = FALSE
             /\ IsState(Record(st, e)) /\ Record(st, e).accepted = st.accepted
             /\ e.type # "ApprovalResolved" => Record(st, e).decisions = st.decisions
             /\ Record(st, e).format = (IF e.type = "ApprovalResolved" THEN "Resolved"
                   ELSE IF e.type = "ToolResult" /\ DecisionOn(st, e.call) = "undecided"
                        THEN "Legacy" ELSE st.format)
    <2>1. [st EXCEPT !.accepted = FALSE].accepted = FALSE
        BY <1>2 DEF IsState
    <2> QED
        BY <1>2, <2>1, FieldsAfter
<1>3. CASE strict.accepted
    <2>1. /\ legacy = strict /\ IsState(strict) /\ strict.format # "Legacy"
          /\ strict.decisions # {} => strict.format = "Resolved"
        BY <1>3 DEF LegacyFollows
    <2>2. CASE ~Rejects(strict, e, "Strict")
        <3>1. ~Rejects(strict, e, mode)
            BY <1>1, <2>1, <2>2 DEF Rejects, BadResolution, BadResult, BadOutput
        <3>2. strict2 = Record(strict, e) /\ legacy2 = Record(strict, e)
            BY <1>3, <2>1, <2>2, <3>1 DEF ReplayStep
        <3>3. e.type = "ToolResult" => DecisionOn(strict, e.call) # "undecided"
            BY <2>2 DEF Rejects, BadResult, BadOutput
        <3>4. /\ Record(strict, e).accepted
              /\ Record(strict, e).decisions # {} => Record(strict, e).format = "Resolved"
            BY <1>2, <1>3, <2>1, <3>3
        <3> QED
            BY <3>2, <3>4 DEF LegacyFollows, mode
    <2>3. CASE Rejects(strict, e, "Strict") /\ Rejects(strict, e, mode)
        <3>1. ~strict2.accepted /\ ~legacy2.accepted
            BY <1>2, <1>3, <2>1, <2>3 DEF ReplayStep
        <3> QED
            BY <3>1 DEF LegacyFollows, mode
    <2>4. CASE Rejects(strict, e, "Strict") /\ ~Rejects(strict, e, mode)
        <3>1. /\ e.type = "ToolResult" /\ DecisionOn(strict, e.call) = "undecided"
              /\ strict.format # "Resolved"
            BY <1>1, <2>4 DEF Rejects, BadResolution, BadResult, BadOutput
        <3>2. ~strict2.accepted /\ legacy2 = Record(strict, e)
            BY <1>2, <1>3, <2>1, <2>4 DEF ReplayStep
        <3>3. /\ IsState(Record(strict, e)) /\ Record(strict, e).decisions = {}
              /\ Record(strict, e).format = "Legacy"
            BY <1>2, <2>1, <3>1
        <3> QED
            BY <3>2, <3>3 DEF LegacyFollows, mode
    <2> QED
        BY <2>2, <2>3, <2>4
<1>4. CASE ~strict.accepted /\ legacy.accepted
    <2>1. IsState(legacy) /\ legacy.decisions = {} /\ legacy.format = "Legacy"
        BY <1>4 DEF LegacyFollows
    <2>2. ~strict2.accepted
        BY <1>4 DEF ReplayStep
    <2>3. CASE Rejects(legacy, e, mode)
        <3>1. ~legacy2.accepted
            BY <1>2, <1>4, <2>1, <2>3 DEF ReplayStep
        <3> QED
            BY <2>2, <3>1 DEF LegacyFollows, mode
    <2>4. CASE ~Rejects(legacy, e, mode)
        <3>1. e.type # "ApprovalResolved"
            BY <1>1, <2>1, <2>4 DEF Rejects, BadResolution
        <3>2. legacy2 = Record(legacy, e)
            BY <1>4, <2>4 DEF ReplayStep
        <3>3. IsState(legacy2) /\ legacy2.decisions = {} /\ legacy2.format = "Legacy"
            BY <1>2, <2>1, <3>1, <3>2
        <3> QED
            BY <2>2, <3>3 DEF LegacyFollows, mode
    <2> QED
        BY <2>3, <2>4
<1>5. CASE ~strict.accepted /\ ~legacy.accepted
    BY <1>5 DEF LegacyFollows, ReplayStep, mode
<1> QED
    BY <1>3, <1>4, <1>5

\* A log that holds a sequenced event goes on holding it.
LEMMA SequencedGrows ==
    ASSUME NEW E, NEW l \in Seq(E), NEW e \in E
    PROVE  SequencedIn(Append(l, e)) <=> SequencedIn(l) \/ e.seq # 0
<1> DEFINE m == Append(l, e)
<1>1. /\ Len(l) \in Nat /\ Len(m) = Len(l) + 1 /\ m[Len(l) + 1] = e
      /\ \A i \in 1..Len(l) : m[i] = l[i]
    OBVIOUS
<1> HIDE DEF m
<1> QED
    BY ONLY <1>1 DEF SequencedIn, m

\* The two modes agree with the reference on a timeline that has one more event.
LEMMA AgreementGrows ==
    ASSUME NEW l \in Seq(Universe), NEW e \in Universe, NEW legacy, NEW strict, NEW legacy2,
           l # <<>>, l[1].type = "RunStarted",
           ReplayAgrees(l, strict, legacy),
           IF SequencedIn(Append(l, e)) THEN ~legacy2.accepted
           ELSE legacy2 = ReplayStep(legacy, e, "LegacyApprovalWithoutResolution")
    PROVE  ReplayAgrees(Append(l, e), ReplayStep(strict, e, "Strict"), legacy2)
<1> DEFINE m == Append(l, e)
           n == Len(l)
           k == n + 1
           strict2 == ReplayStep(strict, e, "Strict")
<1>1. n \in Nat /\ k \in Nat /\ n # 0 /\ k = n + 1 /\ IsNext(l, m, e, n, k)
    BY AppendIsNext
<1>2. WellFormedIn(m) <=> WellFormedIn(l) /\ Fits(l, n, e)
    BY WellFormedAppend
<1>s. SequencedIn(m) <=> SequencedIn(l) \/ e.seq # 0
    BY SequencedGrows
<1>l. IF SequencedIn(m) THEN ~legacy2.accepted
      ELSE legacy2 = ReplayStep(legacy, e, "LegacyApprovalWithoutResolution")
    OBVIOUS
<1> HIDE DEF m, k
<1>3. IF SequencedIn(m) THEN ~legacy2.accepted ELSE LegacyFollows(strict2, legacy2)
    <2>1. strict.accepted => IsState(strict) /\ strict.format # "Legacy"
        BY DEF ReplayAgrees, Summarises
    <2>2. CASE SequencedIn(m)
        BY ONLY <1>l, <2>2
    <2>3. CASE ~SequencedIn(m)
        <3>1. LegacyFollows(strict, legacy)
            BY ONLY <1>s, <2>3, ReplayAgrees(l, strict, legacy) DEF ReplayAgrees
        <3>2. LegacyFollows(strict2, ReplayStep(legacy, e, "LegacyApprovalWithoutResolution"))
            BY <2>1, <3>1, LegacyKeepsFollowing
        <3> QED
            BY ONLY <1>l, <2>3, <3>2
    <2> QED
        BY ONLY <2>2, <2>3
<1>4. CASE ~strict.accepted
    <2>1. strict2 = strict
        BY <1>4 DEF ReplayStep
    <2>2. ~WellFormedIn(m)
        BY <1>2, <1>4 DEF ReplayAgrees
    <2> HIDE DEF strict2
    <2> QED
        BY <1>3, <1>4, <2>1, <2>2 DEF ReplayAgrees, m, strict2
<1>5. CASE strict.accepted
    <2>1. Summarises(l, strict) /\ Distinct(l, strict) /\ WellFormedIn(l)
        BY <1>5 DEF ReplayAgrees
    <2>2. Fits(l, n, e) <=> ~Rejects(strict, e, "Strict")
        BY <2>1, StrictTakesWhatFits
    <2>3. CASE Rejects(strict, e, "Strict")
        <3>1. IsState(strict)
            BY <2>1 DEF Summarises
        <3>2. ~strict2.accepted
            BY <1>5, <2>3, <3>1 DEF ReplayStep, IsState
        <3> HIDE DEF strict2
        <3> QED
            BY <1>2, <1>3, <2>2, <2>3, <3>2 DEF ReplayAgrees, m, strict2
    <2>4. CASE ~Rejects(strict, e, "Strict")
        <3>1. strict2 = Record(strict, e)
            BY <1>5, <2>4 DEF ReplayStep
        <3> HIDE DEF strict2, n
        <3>2. Summarises(m, strict2)
            BY <1>1, <2>1, <2>4, <3>1, SummaryGrows
        <3>3. Distinct(m, strict2)
            BY <1>1, <2>1, <2>4, <3>1, DistinctGrows
        <3>4. strict2.accepted
            BY <3>2 DEF Summarises
        <3> QED
            BY <1>2, <1>3, <2>1, <2>2, <2>4, <3>2, <3>3, <3>4 DEF ReplayAgrees, m, strict2
    <2> QED
        BY <2>3, <2>4
<1> QED
    BY <1>4, <1>5

\* The inductive invariant of the timelines: both modes agree with the reference.
TimelineInv ==
    /\ timeline \in Seq(Universe)
    /\ ReplayAgrees(timeline, Replay(timeline, "Strict"),
                    Replay(timeline, "LegacyApprovalWithoutResolution"))

\* The empty timeline is rejected by all.
LEMMA InitTimelineInv == TimelineInit => TimelineInv
<1> SUFFICES ASSUME TimelineInit PROVE TimelineInv
    OBVIOUS
<1>1. timeline = <<>> /\ timeline \in Seq(Universe)
    BY DEF TimelineInit
<1>2. \A mode : Replay(timeline, mode).accepted = FALSE
    BY <1>1 DEF Replay, NoRun, Started
<1>3. ~WellFormedIn(timeline)
    BY <1>1 DEF WellFormedIn
<1> QED
    BY <1>1, <1>2, <1>3 DEF TimelineInv, ReplayAgrees, LegacyFollows

\* One more event.
LEMMA StepTimelineInv == TimelineInv /\ [TimelineNext]_timelineVars => TimelineInv'
<1> SUFFICES ASSUME TimelineInv, TimelineNext PROVE TimelineInv'
    BY DEF timelineVars, TimelineInv
<1> DEFINE mode == "LegacyApprovalWithoutResolution"
<1>1. PICK e \in Universe : timeline' = Append(timeline, e)
    BY DEF TimelineNext, Grow
<1>2. timeline \in Seq(Universe) /\ timeline' \in Seq(Universe)
    BY <1>1 DEF TimelineInv
<1>3. /\ SequencedIn(timeline') <=> SequencedIn(timeline) \/ e.seq # 0
      /\ SequencedIn(timeline') => ~Replay(timeline', mode).accepted
    <2>1. SequencedIn(timeline') <=> SequencedIn(timeline) \/ e.seq # 0
        BY <1>1, <1>2, SequencedGrows
    <2>2. SequencedIn(timeline') => Replay(timeline', mode) = NoRun
        BY DEF Replay, SequencedIn
    <2>3. ~NoRun.accepted
        BY DEF NoRun, Started
    <2> QED
        BY ONLY <2>1, <2>2, <2>3
<1>4. CASE timeline # <<>> /\ timeline[1].type = "RunStarted"
    <2>1. Replay(timeline', "Strict") = ReplayStep(Replay(timeline, "Strict"), e, "Strict")
        BY <1>1, <1>2, <1>4, ReplayNext
    <2>l. IF SequencedIn(timeline') THEN ~Replay(timeline', mode).accepted
          ELSE Replay(timeline', mode) = ReplayStep(Replay(timeline, mode), e, mode)
        <3>1. CASE SequencedIn(timeline')
            BY ONLY <1>3, <3>1
        <3>2. CASE ~SequencedIn(timeline')
            <4>1. e.seq = 0 /\ \A i \in 1..Len(timeline) : timeline[i].seq = 0
                BY <1>3, <3>2 DEF SequencedIn
            <4>2. Replay(timeline', mode) = ReplayStep(Replay(timeline, mode), e, mode)
                BY <1>1, <1>2, <1>4, <4>1, ReplayNextIn
            <4> QED
                BY ONLY <3>2, <4>2
        <3> QED
            BY ONLY <3>1, <3>2
    <2>2. ReplayAgrees(timeline, Replay(timeline, "Strict"), Replay(timeline, mode))
        BY DEF TimelineInv
    <2>3. ReplayAgrees(Append(timeline, e), ReplayStep(Replay(timeline, "Strict"), e, "Strict"),
                       Replay(timeline', mode))
        BY <1>1, <1>2, <1>4, <2>l, <2>2, AgreementGrows
    <2>4. ReplayAgrees(timeline', Replay(timeline', "Strict"), Replay(timeline', mode))
        BY <1>1, <2>1, <2>3
    <2> QED
        BY <1>2, <2>4 DEF TimelineInv
<1>5. CASE timeline = <<>> /\ e.type = "RunStarted"
    <2>1. timeline' = <<e>>
        BY <1>1, <1>5
    <2>2. /\ Replay(timeline', "Strict") = Started(e)
          /\ ~SequencedIn(timeline') => Replay(timeline', mode) = Started(e)
        BY <1>3, <1>5, <2>1, ReplayOne
    <2>3. Summarises(timeline', Started(e)) /\ Distinct(timeline', Started(e))
        BY <1>5, <2>1, SummaryStarts
    <2>4. WellFormedIn(timeline')
        BY <2>1, <1>5 DEF WellFormedIn
    <2>5. Started(e).accepted = TRUE /\ Started(e).decisions = {}
        BY DEF Started
    <2>6. ReplayAgrees(timeline', Started(e), Replay(timeline', mode))
        BY <1>3, <2>2, <2>3, <2>4, <2>5 DEF ReplayAgrees, LegacyFollows
    <2> QED
        BY <1>2, <2>2, <2>6 DEF TimelineInv
<1>6. CASE \/ timeline = <<>> /\ e.type # "RunStarted"
           \/ timeline # <<>> /\ timeline[1].type # "RunStarted"
    <2>1. timeline' # <<>> /\ timeline'[1].type # "RunStarted"
        BY <1>1, <1>2, <1>6
    <2>2. \A x : Replay(timeline', x).accepted = FALSE
        BY <2>1 DEF Replay, NoRun, Started
    <2>3. ~WellFormedIn(timeline')
        BY <2>1 DEF WellFormedIn
    <2> QED
        BY <1>2, <2>2, <2>3 DEF TimelineInv, ReplayAgrees, LegacyFollows
<1> QED
    BY <1>4, <1>5, <1>6

\* Replay agrees with the reference on every timeline.
LEMMA TimelineInvariance == TimelineSpec => []TimelineInv
    BY InitTimelineInv, StepTimelineInv, PTL DEF TimelineSpec

-----------------------------------------------------------------------------
(* Theorems *)

\* Whatever the run did, however it stopped and wherever its log was cut, strict
\* replay accepts the log.
THEOREM LogsReplay == RecoverySpec => []EveryLogReplays
<1>1. RecoveryInv => EveryLogReplays
    BY RunInvShows DEF RecoveryInv
<1> QED
    BY <1>1, RecoveryInvariance, PTL

\* A call whose handler ran has its result in the surviving log or is listed as
\* recovery work.
THEOREM RecoveryIsComplete == RecoverySpec => []RecoveryFindsEffects
<1>1. RecoveryInv => RecoveryFindsEffects
    BY RunInvShows DEF RecoveryInv
<1> QED
    BY <1>1, RecoveryInvariance, PTL

\* The end that a reader of the log sees is the status the stop token kept.
THEOREM ReplayedEndIsTrue == RecoverySpec => []ReplayedEndIsTheTokens
<1>1. RecoveryInv => ReplayedEndIsTheTokens
    BY RunInvShows DEF RecoveryInv
<1> QED
    BY <1>1, RecoveryInvariance, PTL

\* The report of an append error never conflicts with the log, which holds no
\* event and no lifecycle step twice, however often it is reconciled.
THEOREM ReportsReconcile == RecoverySpec => []ReconcileNeverConflicts
<1>1. RecoveryInv => ReconcileNeverConflicts
    <2> SUFFICES ASSUME RunInv, outcome.kind = "Indeterminate"
                 PROVE  /\ ReconcileVerdict # "conflict"
                        /\ \A i, j \in 1..Len(log) : i # j =>
                              log[i].seq # log[j].seq /\ ~SameDurableIdentity(log[i], log[j])
        BY DEF RecoveryInv, ReconcileNeverConflicts
    <2> DEFINE e == outcome.event
               d == outcome.durability
    <2>1. /\ Len(log) \in Nat
          /\ \A i \in 1..Len(log) : log[i].seq = i
          /\ \A i, j \in 1..Len(log) : i # j => ~SameDurableIdentity(log[i], log[j])
        BY WholeLog DEF RunInv, EndInv, SequenceOK, LogReplays
    <2>2. CASE e.seq = Len(log) + 1
        <3>1. ASSUME NEW i \in 1..Len(log) PROVE ~SameDurableIdentity(log[i], e)
            <4>1. log # <<>>
                BY <2>1
            <4>2. Takes(e, terminal_status)
                BY <2>2 DEF RunInv, ReportTaken
            <4>3. Reflected(Replayed, log[i]) /\ ~Rejects(Replayed, e, "Strict")
                BY <4>1, <4>2 DEF Takes, RunInv, LogReplays
            <4> QED
                BY <4>3, RepeatedIsRejected
        <3> HIDE DEF e, d
        <3>2. Persisted(log, e, d) = {}
            BY <2>1, <2>2, <3>1 DEF Persisted
        <3>3. Verdict(log, e, d) = "missing"
            BY <2>1, <2>2, <3>2 DEF Verdict
        <3> QED
            BY <2>1, <3>3 DEF ReconcileVerdict, e, d
    <2>3. CASE Len(log) > 0 /\ log[Len(log)] = e
        <3> HIDE DEF e, d
        <3>1. Len(log) \in 1..Len(log) /\ e.seq = Len(log)
            BY <2>1, <2>3
        <3>2. \A i \in 1..Len(log) : i # Len(log) => ~SameDurableIdentity(log[i], e)
            BY <2>1, <2>3, <3>1
        <3>3. Persisted(log, e, d) = {Len(log)}
            BY <2>1, <3>1, <3>2 DEF Persisted
        <3>4. Verdict(log, e, d) = "present"
            BY <2>1, <2>3, <3>1, <3>3 DEF Verdict
        <3> QED
            BY <2>1, <3>4 DEF ReconcileVerdict, e, d
    <2> QED
        BY <2>2, <2>3 DEF RunInv, EndInv, ReportOK
<1> QED
    BY <1>1, RecoveryInvariance, PTL

\* Strict replay accepts exactly the timelines the reference calls well formed,
\* whatever their length and their ids.
THEOREM StrictReplayIsExact == TimelineSpec => []StrictIsExact
<1>1. TimelineInv => StrictIsExact
    <2> SUFFICES ASSUME TimelineInv PROVE StrictIsExact
        OBVIOUS
    <2>1. WellFormed <=> WellFormedIn(timeline)
        BY WellFormedByEvent DEF TimelineInv
    <2> QED
        BY <2>1 DEF TimelineInv, ReplayAgrees, StrictIsExact, Accepted
<1> QED
    BY <1>1, TimelineInvariance, PTL

\* Legacy replay refuses every sequenced log; of the others it accepts what strict
\* replay accepts, with the same result, and never one that mixes the two formats.
THEOREM LegacyReplayExtends == TimelineSpec => []LegacyExtendsStrict
<1>1. TimelineInv => LegacyExtendsStrict
    BY DEF TimelineInv, ReplayAgrees, LegacyFollows, LegacyExtendsStrict, Sequenced, SequencedIn
<1> QED
    BY <1>1, TimelineInvariance, PTL

=============================================================================
