----------------------------- MODULE MCShellCommand -----------------------------
(* Two concurrent, interchangeable commands. *)
EXTENDS ShellCommand

CONSTANTS c1, c2

MCCommands == {c1, c2}

CommandSymmetry == Permutations(MCCommands)
=============================================================================
