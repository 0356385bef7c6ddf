--------------------------- MODULE MCReplayTimelines ---------------------------
(* Two turns, calls and approvals; ids of a kind are interchangeable. *)
EXTENDS ReplayTimelines

CONSTANTS u1, u2, c1, c2, a1, a2

MCTurns == {u1, u2}
MCCalls == {c1, c2}
MCApprovals == {a1, a2}

\* A log is sequenced from its start, or only where it ends.
MCSequenceNumbers ==
    [type \in InTurn \cup {"TurnStarted"} |-> {0}] @@ [type \in {"RunStarted", "RunFinished"} |-> {0, 1}]

IdSymmetry ==
    {t @@ c @@ a : t \in Permutations(MCTurns), c \in Permutations(MCCalls),
                   a \in Permutations(MCApprovals)}
=============================================================================
