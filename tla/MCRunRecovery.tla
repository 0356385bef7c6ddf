----------------------------- MODULE MCRunRecovery -----------------------------
(* The runs of MCAgentRuntime, followed by reconciliation or power loss. *)
EXTENDS RunRecovery

CONSTANTS m1, m2

\* One kind of stop: neither replay nor reconcile tells the two apart.
MCStops == {"Interrupted"}
MCModelCallIds == {m1, m2}

CallIdSymmetry == Permutations(MCModelCallIds)
=============================================================================
