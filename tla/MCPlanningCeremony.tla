------------------------ MODULE MCPlanningCeremony ------------------------
(* Instances of PlanningCeremony.                                          *)
EXTENDS PlanningCeremony, TLC

CONSTANTS a, b, typo

(* a is recommended, b is not, and little else tells them apart.           *)
TwoBase == (a :> 116) @@ (b :> 104)

AFirst(i, j) == i = a /\ j = b

World(auto, seeded, shared, faults, stored, sessions, time) ==
    [auto |-> auto, seeded |-> seeded, shared |-> shared, faults |-> faults,
     stored |-> stored, sessions |-> sessions, time |-> time]

(* Sessions of the dispatcher; unattended sessions of the API; somebody at *)
(* the prompt, with items to choose from, with a trace that loses rows,    *)
(* and against the clock; and sessions that share a trace ID.              *)
AllWorlds ==
    {World(TRUE, TRUE, TRUE, FaultNames \ {"trace"}, NoRow, 2, 3),
     World(TRUE, FALSE, FALSE, {}, -45, 2, 0),
     World(FALSE, FALSE, FALSE, {}, NoRow, 1, 0),
     World(FALSE, TRUE, FALSE, {"trace"}, NoRow, 1, 0),
     World(FALSE, TRUE, FALSE, {}, NoRow, 1, 3),
     World(FALSE, TRUE, TRUE, {}, NoRow, 2, 3)}

=============================================================================
