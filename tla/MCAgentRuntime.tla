----------------------------- MODULE MCAgentRuntime -----------------------------
(* Two model tool-call ids; both kinds of stop. *)
EXTENDS AgentRuntime

CONSTANTS m1, m2

MCStops == {"Interrupted", "Cancelled"}
MCModelCallIds == {m1, m2}
=============================================================================
