--------------------------- MODULE MCJsonlEventStore ---------------------------
(***************************************************************************)
(* Two stores at one path.  The events: two different results of the same  *)
(* tool call, which share their durable identity.                          *)
(***************************************************************************)
EXTENDS JsonlEventStore

CONSTANTS s1, s2

MCStores == {s1, s2}
MCInodes == {1, 2}

Body(type, call, value) ==
    [run |-> "r", type |-> type, call |-> call, approval |-> 0, value |-> value]

MCBodies == {Body("ToolResult", 1, "Success"), Body("ToolResult", 1, "Failure")}

StoreSymmetry == Permutations(MCStores)
=============================================================================
