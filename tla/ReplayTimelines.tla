---------------------------- MODULE ReplayTimelines ----------------------------
(***************************************************************************)
(* Every short timeline, well formed or not, given to EventReplay and to a *)
(* declarative definition of a well-formed timeline.  A timeline grows by  *)
(* one event at a time while at least one replay mode still accepts it.    *)
(***************************************************************************)
EXTENDS EventReplay

CONSTANTS Turns, Calls, Approvals,   \* ids a timeline may use
          SequenceNumbers,           \* event type -> what its seq may be; 0 is none
          MaxLength                  \* bound: events of a timeline

ASSUME IdsAssumption == 0 \notin Turns /\ MaxLength \in Nat

VARIABLE timeline

timelineVars == <<timeline>>

Ev(type, t, c, a, v) ==
    [run |-> "r", seq |-> 0, type |-> type, turn |-> t, call |-> c, approval |-> a, value |-> v]

\* Payloads p and q: an approval may ask for another call than the requested one.
Unsequenced ==
    {Ev("RunStarted", 0, 0, 0, "none"), Ev("Error", 0, 0, 0, "fatal")}
    \cup {[Ev("Error", 0, 0, 0, "fatal") EXCEPT !.run = "other"]}
    \cup {Ev("TurnStarted", t, 0, 0, "none") : t \in Turns}
    \cup {Ev("ModelOutput", t, 0, 0, "Delta") : t \in Turns}
    \cup {Ev("ToolCallRequested", t, c, 0, "p") : t \in Turns, c \in Calls}
    \cup {Ev("ApprovalRequested", t, c, a, v) :
              t \in Turns, c \in Calls, a \in Approvals, v \in {"p", "q"}}
    \cup {Ev("ApprovalResolved", t, 0, a, v) :
              t \in Turns, a \in Approvals, v \in {"Approve", "Deny"}}
    \cup {Ev("ToolResult", t, c, 0, v) : t \in Turns, c \in Calls, v \in {"Success"} \cup Denials}
    \cup {Ev("RunFinished", 0, 0, 0, v) : v \in {"Completed", "Interrupted"}}

\* A log may hold events of the current runtime, which are sequenced, and older
\* ones, which are not.
Universe == UNION {{[e EXCEPT !.seq = n] : n \in SequenceNumbers[e.type]} : e \in Unsequenced}

Accepted(mode) == Replay(timeline, mode).accepted

TimelineInit == timeline = <<>>

Grow ==
    /\ Len(timeline) < MaxLength
    /\ timeline = <<>> \/ \E mode \in Modes : Accepted(mode)
    /\ \E e \in Universe : timeline' = Append(timeline, e)

TimelineNext == Grow

TimelineSpec == TimelineInit /\ [][TimelineNext]_timelineVars

-----------------------------------------------------------------------------
(* The reference: what a well-formed timeline is *)

Is(i, type) == timeline[i].type = type

\* The positions of the request, the approval request and the resolution that a
\* later event i of the same call follows.
RequestOf(i) == {j \in 1..(i - 1) : Is(j, "ToolCallRequested") /\ timeline[j].call = timeline[i].call}
ApprovalsOf(i, call) == {j \in 1..(i - 1) : Is(j, "ApprovalRequested") /\ timeline[j].call = call}
ResolutionsOf(i, approval) ==
    {j \in 1..(i - 1) : Is(j, "ApprovalResolved") /\ timeline[j].approval = approval}
HasAnswer(i, call) == \E j \in 1..(i - 1) : Is(j, "ToolResult") /\ timeline[j].call = call
AllAnswered(i) ==
    \A j \in 1..(i - 1) : Is(j, "ToolCallRequested") => HasAnswer(i, timeline[j].call)

OneRun ==
    /\ timeline # <<>>
    /\ \A i \in 1..Len(timeline) :
          /\ Is(i, "RunStarted") <=> i = 1
          /\ timeline[i].run = timeline[1].run
          /\ Is(i, "RunFinished") => i = Len(timeline)

TurnsNest ==
    \A i \in 1..Len(timeline) :
        /\ Is(i, "TurnStarted") =>
              /\ AllAnswered(i)
              /\ \A j \in 1..(i - 1) : Is(j, "TurnStarted") => timeline[j].turn # timeline[i].turn
        /\ (Is(i, "Error") /\ timeline[i].turn = 0) \/ timeline[i].type \notin InTurn
           \/ \E j \in 1..(i - 1) :
                 /\ Is(j, "TurnStarted") /\ timeline[j].turn = timeline[i].turn
                 /\ \A k \in (j + 1)..i : ~Is(k, "TurnStarted")
        /\ Is(i, "RunFinished") /\ timeline[i].value = "Completed" => AllAnswered(i)

ApprovalsFollowRequests ==
    \A i \in 1..Len(timeline) :
        /\ Is(i, "ToolCallRequested") => RequestOf(i) = {}
        /\ Is(i, "ApprovalRequested") =>
              /\ \E j \in RequestOf(i) : timeline[j].turn = timeline[i].turn
                                         /\ timeline[j].value = timeline[i].value
              /\ ~HasAnswer(i, timeline[i].call)
              /\ \A j \in 1..(i - 1) : Is(j, "ApprovalRequested") =>
                    timeline[j].call # timeline[i].call /\ timeline[j].approval # timeline[i].approval
        /\ Is(i, "ApprovalResolved") =>
              /\ \E j \in 1..(i - 1) :
                    /\ Is(j, "ApprovalRequested") /\ timeline[j].approval = timeline[i].approval
                    /\ timeline[j].turn = timeline[i].turn
                    /\ ~HasAnswer(i, timeline[j].call)
              /\ ResolutionsOf(i, timeline[i].approval) = {}

\* One result per call, in its turn, after its approval was resolved: denied
\* exactly when the approval was.
ResultsFollowDecisions ==
    \A i \in 1..Len(timeline) :
        Is(i, "ToolResult") =>
            /\ \E j \in RequestOf(i) : timeline[j].turn = timeline[i].turn
            /\ ~HasAnswer(i, timeline[i].call)
            /\ \A j \in ApprovalsOf(i, timeline[i].call) :
                  \E k \in ResolutionsOf(i, timeline[j].approval) :
                     IF timeline[k].value = "Deny" THEN timeline[i].value = "Denied"
                     ELSE timeline[i].value \notin Denials
            /\ ApprovalsOf(i, timeline[i].call) = {} => timeline[i].value \notin Denials

WellFormed == OneRun /\ TurnsNest /\ ApprovalsFollowRequests /\ ResultsFollowDecisions

-----------------------------------------------------------------------------
(* Properties *)

\* Strict replay accepts exactly the well-formed timelines: the fold's local
\* checks miss no ordering, identity or approval violation and add none.
StrictIsExact == Accepted("Strict") <=> WellFormed

\* The legacy mode refuses every timeline with a sequenced event
\* (LegacyCompatibilityForSequencedLog).  Of the others it accepts those that
\* strict replay accepts, with the same result, and what it accepts beyond them
\* has no recorded resolution at all: the two formats never mix.
Sequenced == \E i \in 1..Len(timeline) : timeline[i].seq # 0

LegacyExtendsStrict ==
    LET strict == Replay(timeline, "Strict")
        legacy == Replay(timeline, "LegacyApprovalWithoutResolution")
    IN  /\ strict.accepted =>
              /\ legacy.accepted <=> ~Sequenced
              /\ legacy.accepted => RunStatus(legacy) = RunStatus(strict)
        /\ legacy.accepted /\ ~strict.accepted => ~Sequenced /\ legacy.decisions = {}

=============================================================================
