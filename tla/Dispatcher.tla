------------------------------ MODULE Dispatcher ------------------------------
(***************************************************************************)
(* DispatcherWorkflow and ScanCandidatesActivity (internal/temporal/       *)
(* workflow_dispatcher.go): every tick lists the running workflows, reads  *)
(* the tasks, selects candidates within the limits and starts a child      *)
(* workflow for each, which outlives the tick.  A Temporal schedule never  *)
(* runs two ticks at once.                                                 *)
(*                                                                         *)
(* The child workflows run meanwhile, so what a tick starts is decided     *)
(* from lists that are older than the start.  A shark is here only as far  *)
(* as the dispatcher sees it: its stage and what it writes into the task   *)
(* (the module Shark has the rest).  The tasks and their dependencies are  *)
(* read with the operators of TaskDAG.                                     *)
(***************************************************************************)
EXTENDS Integers, FiniteSets

CONSTANTS
    Tasks, ProjectOf, Containers,
    Deps,             \* task_edges; nobody adds edges here
    Rank,             \* the sort: priority, then parents, then estimate
    Deferred,         \* tasks labelled strategy:deferred
    Hibernating,      \* tasks whose species hibernates
    Groomed,          \* tasks with an estimate and acceptance criteria
    PlanFirst,        \* generation 0 or complexity above 70
    CrabEmitted,      \* tasks labelled source:crab
    Failing,          \* bound: tasks whose sharks may fail
    Workflows,        \* bound: workflows that are alive at the same time
    NoTask,           \* what a workflow that is not alive works on
    MaxTotal, MaxPerTick, MaxPerProject,
    GroomingOff,      \* neither chief nor crab is enabled: auto-promote
    FaultSets         \* what may go wrong in a behaviour, see FaultNames

VARIABLES
    faults,     \* what may go wrong, which never changes
    status,     \* tasks.status
    errs,       \* the tasks with an error_log
    stage,      \* what each child workflow does; free: no such workflow
    task,       \* the task of each child workflow
    tick,       \* where the dispatcher is
    runningSet, \* tasks that had an organism when the tick listed them
    slots,      \* how many children this tick may start
    planning,   \* PlanningRunning > 0 or planningDispatchedThisTick
    todo,       \* candidates that are not started yet
    route,      \* those of them that go to a planning ceremony
    unseen,     \* history: living workflows that the lists of the tick missed
    uncounted   \* history: those that its counts per project missed

tickVars == <<tick, runningSet, slots, planning, todo, route>>
taskVars == <<status, errs>>
wfVars == <<stage, task>>
seenVars == <<unseen, uncounted>>
vars == <<faults, taskVars, wfVars, tickVars, seenVars>>

Statuses == {"open", "ready", "closed", "plan_failed"}

FaultNames ==
    {"listPlanning", "listProject", "listTasks", "start", "stale", "timeout",
     "plan", "escalate", "agree"}

ASSUME DispatcherAssumption ==
    /\ Containers \subseteq Tasks /\ Deferred \subseteq Tasks
    /\ Hibernating \subseteq Tasks /\ PlanFirst \subseteq Tasks
    /\ CrabEmitted \subseteq Tasks /\ Groomed \subseteq Tasks
    /\ Failing \subseteq Tasks
    /\ Deps \subseteq Tasks \X Tasks
    /\ Rank \in [Tasks -> Nat]
    /\ \A s, t \in Tasks : Rank[s] = Rank[t] => s = t
    /\ IsFiniteSet(Tasks) /\ IsFiniteSet(Workflows) /\ NoTask \notin Tasks
    /\ MaxTotal \in Nat /\ MaxPerTick \in Nat /\ MaxPerProject \in Nat
    /\ GroomingOff \in BOOLEAN
    /\ FaultSets \subseteq SUBSET FaultNames

DAG == INSTANCE TaskDAG
         WITH edges <- Deps, Clients <- {}, EdgeWriters <- {}, Deadlines <- {},
              op <- <<>>

Projects == {ProjectOf[t] : t \in Tasks}

----------------------------------------------------------------------------
(* What the visibility queries return.                                     *)

SharkStages == {"starting", "listed", "completed", "escalated"}

sharks == {w \in Workflows : stage[w] \in SharkStages}

(* listOpenAgentWorkflowsForAgent: the stage attribute is that of a phase. *)
(* It is not set before the shark's first workflow task, and completed and *)
(* escalated do not count.                                                 *)
openWFs == {w \in Workflows : stage[w] = "listed"}

projectOpenWFs(p) == {w \in openWFs : ProjectOf[task[w]] = p}

(* The sessions that are not older than the stale threshold.               *)
planningWFs == {w \in Workflows : stage[w] = "planning"}

live == {w \in Workflows : stage[w] # "free"}

TasksOf(ws) == {task[w] : w \in ws}

----------------------------------------------------------------------------
Init ==
    /\ faults \in FaultSets
    /\ status \in [Tasks -> IF GroomingOff THEN {"open", "ready"} ELSE {"ready"}]
    /\ errs = {}
    /\ stage = [w \in Workflows |-> "free"]
    /\ task = [w \in Workflows |-> NoTask]
    /\ tick = "idle" /\ runningSet = {} /\ slots = 0 /\ planning = FALSE
    /\ todo = {} /\ route = {}
    /\ unseen = {} /\ uncounted = {}

(* Mutant of ListRunning: a task that is being planned is not running.     *)
ListRunningSharks ==
    /\ tick = "idle"
    /\ Cardinality(openWFs) < MaxTotal
    /\ slots' = IF MaxTotal - Cardinality(openWFs) > MaxPerTick
                  THEN MaxPerTick ELSE MaxTotal - Cardinality(openWFs)
    /\ runningSet' = TasksOf(openWFs)
    /\ planning' = (planningWFs # {})
    /\ unseen' = live \ (openWFs \cup planningWFs)
    /\ tick' = "select"
    /\ UNCHANGED <<faults, taskVars, wfVars, todo, route, uncounted>>

(* The tick lists the open workflows and the planning sessions.  With all  *)
(* slots taken, or throttled, or after an error, the tick ends there and   *)
(* nothing changes.  A failing planning list is taken for an empty one.    *)
ListRunning ==
    /\ tick = "idle"
    /\ Cardinality(openWFs) < MaxTotal
    /\ slots' = IF MaxTotal - Cardinality(openWFs) > MaxPerTick
                  THEN MaxPerTick ELSE MaxTotal - Cardinality(openWFs)
    /\ \E seen \in {planningWFs} \cup
                   (IF "listPlanning" \in faults THEN {{}} ELSE {}) :
         /\ runningSet' = TasksOf(openWFs) \cup TasksOf(seen)
         /\ planning' = (seen # {})
         /\ unseen' = live \ (openWFs \cup seen)
    /\ tick' = "select"
    /\ UNCHANGED <<faults, taskVars, wfVars, todo, route, uncounted>>

(* shouldRouteToPlanningCeremony.                                          *)
toPlanning(t) == t \notin CrabEmitted /\ (t \in PlanFirst \/ t \in errs)

(* Mutant of Selected: projectRunning is not incremented.                  *)
SelectedNotCounted(cands, count) ==
    {R \in SUBSET cands : \A t \in cands :
        t \in R <=> /\ Cardinality({s \in R : Rank[s] < Rank[t]}) < slots
                    /\ count[ProjectOf[t]] < MaxPerProject}

(* The loop over the sorted candidates, as a fixed point: t is selected if *)
(* the better ones leave it a slot and room in its project.                *)
Selected(cands, count) ==
    {R \in SUBSET cands : \A t \in cands :
        LET better == {s \in R : Rank[s] < Rank[t]}
            same == {s \in better : ProjectOf[s] = ProjectOf[t]}
        IN  t \in R <=> /\ Cardinality(better) < slots
                        /\ count[ProjectOf[t]] + Cardinality(same) < MaxPerProject}

(* Mutant of notDeferred: deferred tasks are always dropped.               *)
notDeferredEver(ready) == ready \ Deferred

(* Deferred tasks wait while there is a ready one that is not deferred.    *)
notDeferred(ready) ==
    IF ready \subseteq Deferred THEN ready ELSE ready \ Deferred

(* The per-project counts (an error counts as none), the auto-promotion of *)
(* open tasks, the ready tasks, the deferred filter and the selection.     *)
SelectCandidates ==
    /\ tick = "select"
    /\ \E failed \in SUBSET (IF "listProject" \in faults THEN Projects ELSE {}),
          unread \in SUBSET (IF "listTasks" \in faults THEN Projects ELSE {}) :
         LET count == [p \in Projects |->
                          IF p \in failed THEN 0
                                          ELSE Cardinality(projectOpenWFs(p))]
             scanned == {p \in Projects : count[p] < MaxPerProject /\ p \notin unread}
             promoted == {t \in Tasks : /\ GroomingOff
                                        /\ ProjectOf[t] \in scanned
                                        /\ status[t] = "open"
                                        /\ t \in Groomed \ Containers
                                        /\ DAG!unblocked(t)}
         IN  /\ status' = [t \in Tasks |->
                             IF t \in promoted THEN "ready" ELSE status[t]]
             /\ LET ready == {t \in Tasks : \E p \in scanned :
                                 t \in DAG!FilterUnblockedOpen(p)'}
                IN  todo' \in Selected(notDeferred(ready)
                                        \ (runningSet \cup Hibernating), count)
             /\ uncounted' = live \ {w \in openWFs : ProjectOf[task[w]] \notin failed}
    /\ route' = {t \in todo' : toPlanning(t)}
    /\ tick' = "start"
    /\ UNCHANGED <<faults, errs, wfVars, runningSet, slots, planning, unseen>>

(* The identity of a child workflow does not matter.                       *)
freeWorkflow ==
    CHOOSE w \in Workflows :
        stage[w] = "free" \/ \A v \in Workflows : stage[v] # "free"

(* The next candidate's child workflow; one planning session at a time.    *)
(* A child that cannot be started is skipped.                              *)
StartChild(t, w) ==
    /\ tick = "start" /\ t \in todo /\ w = freeWorkflow
    /\ \A s \in todo : Rank[t] <= Rank[s]
    /\ todo' = todo \ {t}
    /\ \/ /\ stage[w] = "free"
          /\ LET ceremony == t \in route /\ ~planning
             IN  /\ stage' = [stage EXCEPT
                                ![w] = IF ceremony THEN "planning" ELSE "starting"]
                 /\ planning' = (planning \/ ceremony)
          /\ task' = [task EXCEPT ![w] = t]
       \/ "start" \in faults /\ UNCHANGED <<wfVars, planning>>
    /\ UNCHANGED <<faults, taskVars, tick, runningSet, slots, route, seenVars>>

EndTick ==
    /\ tick = "start" /\ todo = {}
    /\ tick' = "idle" /\ runningSet' = {} /\ slots' = 0 /\ planning' = FALSE
    /\ route' = {} /\ unseen' = {} /\ uncounted' = {}
    /\ UNCHANGED <<faults, taskVars, wfVars, todo>>

----------------------------------------------------------------------------
(* The children, as far as the dispatcher sees them.                       *)

Move(w, from, to) ==
    /\ stage[w] = from
    /\ stage' = [stage EXCEPT ![w] = to]
    /\ IF to = "free"
         THEN /\ task' = [task EXCEPT ![w] = NoTask]
              /\ unseen' = unseen \ {w} /\ uncounted' = uncounted \ {w}
         ELSE UNCHANGED <<task, seenVars>>

Write(w, s) == status' = [status EXCEPT ![task[w]] = s]

(* The first workflow task sets the search attributes.                     *)
SharkStarts(w) ==
    /\ Move(w, "starting", "listed")
    /\ UNCHANGED <<faults, taskVars, tickVars>>

SharkPasses(w) ==
    /\ Move(w, "listed", "completed")
    /\ UNCHANGED <<faults, taskVars, tickVars>>

SharkCloses(w) ==
    /\ Move(w, "completed", "free")
    /\ Write(w, "closed")
    /\ UNCHANGED <<faults, errs, tickVars>>

SharkPlanFails(w) ==
    /\ "plan" \in faults /\ task[w] \in Failing
    /\ Move(w, "listed", "free")
    /\ Write(w, "plan_failed")
    /\ UNCHANGED <<faults, errs, tickVars>>

SharkEscalates(w) ==
    /\ "escalate" \in faults /\ task[w] \in Failing
    /\ Move(w, "listed", "escalated")
    /\ UNCHANGED <<faults, taskVars, tickVars>>

SharkReopens(w) ==
    /\ Move(w, "escalated", "free")
    /\ Write(w, "ready")
    /\ errs' = errs \cup {task[w]}
    /\ UNCHANGED <<faults, tickVars>>

(* A ceremony that agreed on a plan and decomposed it closes the task.     *)
CeremonyEnds(w) ==
    /\ Move(w, "planning", "free") \/ Move(w, "stale", "free")
    /\ Write(w, "closed") \/ ("agree" \in faults /\ UNCHANGED status)
    /\ UNCHANGED <<faults, errs, tickVars>>

(* A session outlives the stale threshold.                                 *)
CeremonyGoesStale(w) ==
    /\ "stale" \in faults
    /\ Move(w, "planning", "stale")
    /\ UNCHANGED <<faults, taskVars, tickVars>>

(* The execution timeout ends a child wherever it is.                      *)
ChildTimesOut(w) ==
    /\ "timeout" \in faults
    /\ stage[w] # "free"
    /\ Move(w, stage[w], "free")
    /\ UNCHANGED <<faults, taskVars, tickVars>>

ChildStep(w) ==
    \/ SharkStarts(w) \/ SharkPasses(w) \/ SharkCloses(w) \/ SharkPlanFails(w)
    \/ SharkEscalates(w) \/ SharkReopens(w) \/ CeremonyEnds(w)

TickStep ==
    \/ ListRunning \/ SelectCandidates \/ EndTick
    \/ \E t \in Tasks, w \in Workflows : StartChild(t, w)

Next ==
    \/ TickStep
    \/ \E w \in Workflows :
         ChildStep(w) \/ CeremonyGoesStale(w) \/ ChildTimesOut(w)

Spec == Init /\ [][Next]_vars

(* The schedule fires for ever, its activities and child starts end, and   *)
(* every child has an execution timeout.                                   *)
FairSpec ==
    /\ Spec
    /\ WF_vars(TickStep)
    /\ \A w \in Workflows : WF_vars(ChildStep(w))

----------------------------------------------------------------------------
(* Properties.                                                             *)

(* "Skip re-dispatch for tasks with an active organism, but allow re-      *)
(* dispatch after death" (workflow_dispatcher.go:413): a child is started  *)
(* beside a living workflow of its task only if the lists of the tick      *)
(* missed that one, whatever happened since they were made: a shark before *)
(* its first workflow task or after its last phase, a stale session, or    *)
(* one of a planning list that failed.                                     *)
OneOrganismPerTask ==
    [][\A w \in Workflows :
         (stage[w] = "free" /\ stage'[w] # "free") =>
            \A v \in live : task[v] = task'[w] => v \in unseen]_vars

(* A tick counts once and starts several children later. The sharks its    *)
(* list returned and those it started never exceed max_concurrent_total    *)
(* (workflow_dispatcher.go:399), nor do those that its count of a project  *)
(* returned, with those started there, max_concurrent_per_project (:598);  *)
(* and a ceremony is started beside sessions only that it was not told of  *)
(* (:161).                                                                 *)
LimitsRespected ==
    [][\A w \in Workflows :
         /\ (stage[w] = "free" /\ stage'[w] = "starting") =>
              /\ Cardinality(sharks' \ unseen) <= MaxTotal
              /\ Cardinality({v \in sharks' \ uncounted :
                                ProjectOf[task'[v]] = ProjectOf[task'[w]]})
                   <= MaxPerProject
         /\ (stage[w] = "free" /\ stage'[w] = "planning") =>
              {v \in live : stage[v] \in {"planning", "stale"}} \subseteq unseen]_vars

(* A deferred task that no tick selects: a hibernating one, which is never *)
(* dispatched, counts as ready work that is not deferred for ever          *)
(* (workflow_dispatcher.go:551).                                           *)
starved(t) ==
    /\ t \in Deferred
    /\ \E h \in Hibernating \ Deferred : status[h] = "ready" /\ DAG!unblocked(h)

(* Liveness: where children succeed, the groomed tasks are all closed in   *)
(* the end, but for those that hibernate, are starved by one, or depend on *)
(* such a task; a priority, a full project, a deferral, a forgotten        *)
(* session, a second organism or a failing list only delays a task.        *)
EveryTaskIsDone ==
    faults \subseteq {"stale", "listPlanning", "listProject"} =>
        <>(\A t \in Groomed \ Containers :
              \/ status[t] = "closed" \/ ~DAG!unblocked(t)
              \/ t \in Hibernating \/ starved(t))

=============================================================================
