----------------------------- MODULE MCRunStopToken -----------------------------
(***************************************************************************)
(* Three threads share the token: the run loop, a signal handler and the   *)
(* renderer.  They are interchangeable, since any may propose any status.  *)
(***************************************************************************)
EXTENDS RunStopToken, TLC

CONSTANTS t1, t2, t3

MCThreads == {t1, t2, t3}
MCStops == {"Interrupted", "Cancelled"}
MCRuns == {"run-1", "run-2"}

ThreadSymmetry == Permutations(MCThreads)
=============================================================================
