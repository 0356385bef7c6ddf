------------------------------ MODULE EventReplay ------------------------------
(***************************************************************************)
(* replay_events_with_mode (event-store/src/replay.rs): the fold of an     *)
(* ordered timeline into the state of its run.  Any violation of the tool  *)
(* lifecycle rejects the whole timeline; which of the ReplayError variants *)
(* is reported is left out.                                                *)
(*                                                                         *)
(* Events are records with the fields run, seq (0: not sequenced), type,   *)
(* turn, call, approval (0: none) and value.                               *)
(***************************************************************************)
EXTENDS Naturals, Sequences, SequencesExt

Modes == {"Strict", "LegacyApprovalWithoutResolution"}

\* Results that carry the code approval_denied: the canonical one, one whose
\* message is not the denial's reason, one that is retryable or extended.
Denials == {"Denied", "DeniedOtherReason", "DeniedRetryable"}

InTurn == {"ModelOutput", "ToolCallRequested", "ApprovalRequested",
           "ApprovalResolved", "ToolResult", "Error"}

\* The locals of the fold after the first event.
Started(event) ==
    [accepted |-> TRUE, run |-> event.run, finished |-> "no",
     turns |-> {}, active |-> 0,
     calls |-> {},        \* [id, turn, payload] of every request
     approvals |-> {},    \* [id, call]
     decisions |-> {},    \* [approval, decision]
     results |-> {},      \* ids of the calls with a result
     format |-> "Undetermined"]

NoRun == [Started([run |-> "none"]) EXCEPT !.accepted = FALSE]

\* The calls no result was recorded for.
Unresolved(st) == {c.id : c \in st.calls} \ st.results

\* The calls whose approval is requested and neither resolved nor overtaken by
\* a result.
Pending(st) ==
    {a.call : a \in {x \in st.approvals : \A d \in st.decisions : d.approval # x.id}}
        \ st.results

\* What was decided about a call: nothing yet, no approval asked, or a decision.
DecisionOn(st, call) ==
    LET asked == {a.id : a \in {x \in st.approvals : x.call = call}}
        decided == {d.decision : d \in {x \in st.decisions : x.approval \in asked}}
    IN  IF asked = {} THEN "not_asked"
        ELSE IF decided = {} THEN "undecided"
        ELSE CHOOSE d \in decided : TRUE

CallOf(event) == [id |-> event.call, turn |-> event.turn, payload |-> event.value]

-----------------------------------------------------------------------------
(* Why an event rejects the timeline *)

BadTurn(st, e) ==
    \/ /\ e.type = "TurnStarted"
       /\ e.turn \in st.turns \/ Unresolved(st) # {}
    \/ /\ e.type \in InTurn
       /\ e.turn # 0 \/ e.type # "Error"
       /\ e.turn \notin st.turns \/ st.active # e.turn

BadRequest(st, e) ==
    /\ e.type = "ToolCallRequested"
    /\ \E c \in st.calls : c.id = e.call

\* Unknown call, other turn, other payload, call already answered, call or
\* approval id already used.
BadApprovalRequest(st, e) ==
    /\ e.type = "ApprovalRequested"
    /\ \/ CallOf(e) \notin st.calls
       \/ e.call \in st.results
       \/ \E a \in st.approvals : a.call = e.call \/ a.id = e.approval

BadResolution(st, e, mode) ==
    /\ e.type = "ApprovalResolved"
    /\ \/ ~\E a \in st.approvals, c \in st.calls :
             a.id = e.approval /\ c.id = a.call /\ c.turn = e.turn /\ c.id \notin st.results
       \/ \E d \in st.decisions : d.approval = e.approval
       \/ mode # "Strict" /\ st.format = "Legacy"

\* Mutant: a denied call may report any failure.
MutantBadOutput(st, e, mode) ==
    LET decision == DecisionOn(st, e.call)
    IN  \/ decision = "undecided" /\ (mode = "Strict" \/ st.format = "Resolved")
        \/ decision = "Deny" /\ e.value = "Success"
        \/ decision \in {"Approve", "not_asked"} /\ e.value \in Denials

\* The result must fit the decision.  A legacy log has no resolutions: there a
\* result stands for the decision, unless the log has resolutions elsewhere.
BadOutput(st, e, mode) ==
    LET decision == DecisionOn(st, e.call)
    IN  \/ /\ decision = "undecided"
           /\ mode = "Strict" \/ st.format = "Resolved" \/ e.value = "DeniedRetryable"
        \/ decision = "Deny" /\ e.value # "Denied"
        \/ decision \in {"Approve", "not_asked"} /\ e.value \in Denials

BadResult(st, e, mode) ==
    /\ e.type = "ToolResult"
    /\ \/ ~\E c \in st.calls : c.id = e.call /\ c.turn = e.turn
       \/ e.call \in st.results
       \/ BadOutput(st, e, mode)

\* A completed or failed run has answered every call; a stopped one need not.
BadFinish(st, e) ==
    /\ e.type = "RunFinished"
    /\ e.value \in {"Completed", "Failed"}
    /\ Unresolved(st) # {}

Rejects(st, e, mode) ==
    \/ st.finished # "no"
    \/ e.run # st.run
    \/ e.type = "RunStarted"
    \/ BadTurn(st, e) \/ BadRequest(st, e) \/ BadApprovalRequest(st, e)
    \/ BadResolution(st, e, mode) \/ BadResult(st, e, mode) \/ BadFinish(st, e)

-----------------------------------------------------------------------------
(* The fold *)

\* Mutant: a resolution does not fix the log's format.
MutantRecord(st, e) ==
    CASE e.type = "TurnStarted" ->
            [st EXCEPT !.turns = @ \cup {e.turn}, !.active = e.turn]
      [] e.type = "ToolCallRequested" ->
            [st EXCEPT !.calls = @ \cup {CallOf(e)}]
      [] e.type = "ApprovalRequested" ->
            [st EXCEPT !.approvals = @ \cup {[id |-> e.approval, call |-> e.call]}]
      [] e.type = "ApprovalResolved" ->
            [st EXCEPT !.decisions = @ \cup {[approval |-> e.approval, decision |-> e.value]}]
      [] e.type = "ToolResult" ->
            [st EXCEPT !.results = @ \cup {e.call},
                       !.format = IF DecisionOn(st, e.call) = "undecided" THEN "Legacy" ELSE @]
      [] e.type = "RunFinished" -> [st EXCEPT !.finished = e.value]
      [] OTHER -> st

Record(st, e) ==
    CASE e.type = "TurnStarted" ->
            [st EXCEPT !.turns = @ \cup {e.turn}, !.active = e.turn]
      [] e.type = "ToolCallRequested" ->
            [st EXCEPT !.calls = @ \cup {CallOf(e)}]
      [] e.type = "ApprovalRequested" ->
            [st EXCEPT !.approvals = @ \cup {[id |-> e.approval, call |-> e.call]}]
      [] e.type = "ApprovalResolved" ->
            [st EXCEPT !.decisions = @ \cup {[approval |-> e.approval, decision |-> e.value]},
                       !.format = "Resolved"]
      [] e.type = "ToolResult" ->
            [st EXCEPT !.results = @ \cup {e.call},
                       !.format = IF DecisionOn(st, e.call) = "undecided" THEN "Legacy" ELSE @]
      [] e.type = "RunFinished" -> [st EXCEPT !.finished = e.value]
      [] OTHER -> st

ReplayStep(st, e, mode) ==
    IF st.accepted /\ Rejects(st, e, mode) THEN [st EXCEPT !.accepted = FALSE]
    ELSE IF st.accepted THEN Record(st, e)
    ELSE st

\* Legacy compatibility is refused for a log that has sequences.
Replay(events, mode) ==
    IF \/ events = <<>>
       \/ events[1].type # "RunStarted"
       \/ mode # "Strict" /\ \E i \in 1..Len(events) : events[i].seq # 0
    THEN NoRun
    ELSE LET Step(st, e) == ReplayStep(st, e, mode)
         IN  FoldLeft(Step, Started(events[1]), Tail(events))

\* RunReplay.status: the last change of the set of pending approvals decides.
RunStatus(st) ==
    IF st.finished # "no" THEN "Finished"
    ELSE IF Pending(st) # {} THEN "AwaitingApproval"
    ELSE "Running"

\* replay_events_for_recovery: the calls of a running run without a result.
RecoveryWork(st) == IF RunStatus(st) = "Running" THEN Unresolved(st) ELSE {}

=============================================================================
