------------------------------ MODULE ResumeGate ------------------------------
(***************************************************************************)
(* awaitResumeGate (internal/temporal/workflow.go), the point between two  *)
(* phases of a ChumAgentWorkflow where an administrator can hold it, and   *)
(* the batch operations of admin_batch_ops.go that send the signals.       *)
(*                                                                         *)
(* Temporal queues each signal name in a channel of its own, so the order  *)
(* of a drain and a resume that are both waiting is lost; the selector     *)
(* takes the first ready case, and drain was added first.  A signal that   *)
(* arrives during a phase waits for the next gate.                         *)
(***************************************************************************)
EXTENDS Integers

CONSTANTS
    Gates,      \* the number of gates on the run's path
    MaxSignals  \* bound: drains, and resumes, that administrators send

ASSUME GateAssumption == Gates \in Nat /\ MaxSignals \in Nat

VARIABLES
    passed,     \* gates passed so far
    waiting,    \* the run is in awaitResumeGate
    isDrained,
    drains,     \* drains sent
    resumes,    \* resumes sent
    drainQ,     \* drains in the channel
    resumeQ,    \* resumes in the channel
    last        \* the signal that was sent last

gateVars ==
    <<passed, waiting, isDrained, drains, resumes, drainQ, resumeQ, last>>

GateInit ==
    /\ passed = 0 /\ waiting = FALSE /\ isDrained = FALSE
    /\ drains = 0 /\ resumes = 0 /\ drainQ = 0 /\ resumeQ = 0
    /\ last = "none"

ended == passed = Gates /\ ~waiting

(* The batch query matches running workflows only.                         *)
StartDrainAgentWorkflows ==
    /\ ~ended /\ drains < MaxSignals
    /\ drains' = drains + 1 /\ drainQ' = drainQ + 1 /\ last' = "drain"
    /\ UNCHANGED <<passed, waiting, isDrained, resumes, resumeQ>>

StartResumeAgentWorkflows ==
    /\ ~ended /\ resumes < MaxSignals
    /\ resumes' = resumes + 1 /\ resumeQ' = resumeQ + 1 /\ last' = "resume"
    /\ UNCHANGED <<passed, waiting, isDrained, drains, drainQ>>

(* A phase ends (its activity has a timeout) and the next gate is reached. *)
ReachGate ==
    /\ ~waiting /\ passed < Gates
    /\ waiting' = TRUE
    /\ UNCHANGED <<passed, isDrained, drains, resumes, drainQ, resumeQ, last>>

(* awaitResumeGate returns: the next phase begins.                         *)
Leave == waiting' = FALSE /\ passed' = passed + 1

(* The selector receives a drain and the loop goes round.                  *)
SelectDrain ==
    /\ waiting /\ drainQ > 0
    /\ drainQ' = drainQ - 1 /\ isDrained' = TRUE
    /\ UNCHANGED <<passed, waiting, drains, resumes, resumeQ, last>>

(* Mutant of SelectResume: resume is the first case of the selector.       *)
SelectResumeFirst ==
    /\ waiting /\ resumeQ > 0
    /\ resumeQ' = resumeQ - 1 /\ isDrained' = FALSE
    /\ Leave
    /\ UNCHANGED <<drains, resumes, drainQ, last>>

(* No drain is waiting: the selector receives a resume.                    *)
SelectResume ==
    /\ waiting /\ drainQ = 0 /\ resumeQ > 0
    /\ resumeQ' = resumeQ - 1 /\ isDrained' = FALSE
    /\ Leave
    /\ UNCHANGED <<drains, resumes, drainQ, last>>

(* Mutant of SelectDefault: the default case is always added.              *)
SelectDefaultAlways ==
    /\ waiting /\ drainQ = 0 /\ resumeQ = 0
    /\ Leave
    /\ UNCHANGED <<isDrained, drains, resumes, drainQ, resumeQ, last>>

(* Nothing is waiting; the default case is there unless the run is drained.*)
SelectDefault ==
    /\ waiting /\ drainQ = 0 /\ resumeQ = 0 /\ ~isDrained
    /\ Leave
    /\ UNCHANGED <<isDrained, drains, resumes, drainQ, resumeQ, last>>

Select == SelectDrain \/ SelectResume \/ SelectDefault

GateNext ==
    \/ StartDrainAgentWorkflows \/ StartResumeAgentWorkflows
    \/ ReachGate \/ Select

GateSpec == GateInit /\ [][GateNext]_gateVars

(* Temporal schedules a workflow whose selector has a ready case, and an   *)
(* activity ends, if only by its timeout.                                  *)
FairGateSpec == GateSpec /\ WF_gateVars(ReachGate) /\ WF_gateVars(Select)

----------------------------------------------------------------------------
(* Properties.                                                             *)

(* Type invariant; a run is marked drained only while it waits at a gate,  *)
(* and the channels have no more signals than were sent.                   *)
GateTypeOK ==
    /\ passed \in 0..Gates
    /\ waiting \in BOOLEAN /\ isDrained \in BOOLEAN
    /\ waiting => passed < Gates
    /\ isDrained => waiting
    /\ drains \in 0..MaxSignals /\ drainQ \in 0..drains
    /\ resumes \in 0..MaxSignals /\ resumeQ \in 0..resumes
    /\ last \in {"none", "drain", "resume"}

(* A drain holds: once one was sent, and until the first resume is sent,   *)
(* the run passes no gate ("workflow will wait before next step",          *)
(* workflow.go:128).                                                       *)
DrainHoldsUntilResume ==
    [][(drains > 0 /\ resumes = 0) => passed' = passed]_gateVars

(* Liveness: a run whose last signal is not a drain is not left waiting.   *)
ResumedRunEnds == <>[](last # "drain") => <>ended

=============================================================================
