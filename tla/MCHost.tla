------------------------------- MODULE MCHost -------------------------------
(* Instances of Host.                                                      *)
EXTENDS Host

CONSTANTS gemini, codex

TwoTiers == [fast |-> <<gemini>>, balanced |-> <<gemini, codex>>, premium |-> <<>>]

World(calls, n) ==
    [overlap |-> FALSE, calls |-> calls, commands |-> n]

(* Processes without activities, of which rescue agents start the first,   *)
(* and activities in processes that are started by command.                *)
OneAtATime == {World(FALSE, 0), World(TRUE, 1)}

=============================================================================
