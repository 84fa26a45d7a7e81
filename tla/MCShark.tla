------------------------------- MODULE MCShark -------------------------------
(* Instances of Shark: two runs of a task, in several circumstances; and   *)
(* of ResumeGate: a run with a path of six gates (the plan, one attempt    *)
(* and the escalation) and up to three signals of each kind.               *)
EXTENDS Shark, ResumeGate, TLC

CONSTANTS r1, r2, lint, gitlock

World(faults, overlap, api, tiers) ==
    [faults |-> faults, overlap |-> overlap, api |-> api, tiers |-> tiers]

(* One run after the other, where every step of every run may fail;        *)
(* where only git and the pull requests fail; where the other writes of    *)
(* the outcome fail, but not its record; and a dispatched run together     *)
(* with one that an API request starts.                                    *)
AllWorlds ==
    {World(FaultNames, FALSE, {}, {"premium"}),
     World({"setup", "push", "pr"}, FALSE, {}, {"balanced", "gated"}),
     World({"close", "unblock", "cleanup", "timeout"}, FALSE, {}, {"premium"}),
     World({}, TRUE, {r2}, {"premium"})}

(* Nothing fails and nobody uses the API: only the dispatcher starts runs, *)
(* whenever it lists none.                                                 *)
DispatchedOnly == {World({}, TRUE, {}, {"premium"})}

(* A run that is held at a gate simply does not step, so a behaviour is    *)
(* about the one or the other: runs whose gates are behind them, or the    *)
(* gates of a run.                                                         *)
VARIABLE part

RunsAndGatesInit ==
    /\ Init
    /\ \/ /\ part = "runs"
          /\ passed = Gates /\ waiting = FALSE /\ isDrained = FALSE
          /\ drains = 0 /\ resumes = 0 /\ drainQ = 0 /\ resumeQ = 0
          /\ last = "none"
       \/ part = "gates" /\ GateInit /\ world = CHOOSE w \in Worlds : TRUE

RunsAndGatesNext ==
    \/ part = "runs" /\ Next /\ UNCHANGED <<gateVars, part>>
    \/ part = "gates" /\ GateNext /\ UNCHANGED <<vars, part>>

RunsAndGates ==
    /\ RunsAndGatesInit /\ [][RunsAndGatesNext]_<<vars, gateVars, part>>
    /\ \A r \in Runs : WF_vars(Step(r))
    /\ WF_gateVars(ReachGate) /\ WF_gateVars(Select)

=============================================================================
