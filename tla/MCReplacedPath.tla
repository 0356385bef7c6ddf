----------------------------- MODULE MCReplacedPath -----------------------------
(* One store, one event and two files. *)
EXTENDS ReplacedPath

CONSTANT s1

MCStores == {s1}
MCInodes == {1, 2}
MCBodies == {[run |-> "r", type |-> "ModelOutput", call |-> 0, approval |-> 0, value |-> "Delta"]}
=============================================================================
