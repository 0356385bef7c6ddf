------------------------------ MODULE MCCliSession ------------------------------
(* Lines around a limit of three bytes: an answer that fits, one that is cut   *)
(* just after "yes", a refusal, one that is asked again, the end of the input  *)
(* and bytes that are not UTF-8.                                               *)
EXTENDS CliSession

CONSTANTS m1, m2

MCStops == {"Interrupted", "Cancelled"}
MCModelCallIds == {m1, m2}

MCTypedInputs ==
    {<<"y", "newline">>, <<"y", "e", "s", "newline">>, <<"newline">>, <<"x", "newline">>,
     <<>>, <<"not-utf8", "newline">>}
=============================================================================
