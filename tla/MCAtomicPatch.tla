----------------------------- MODULE MCAtomicPatch -----------------------------
(***************************************************************************)
(* AtomicPatch for TLC: the bound on what other programs do is in the cfg. *)
(***************************************************************************)
EXTENDS AtomicPatch
=============================================================================
