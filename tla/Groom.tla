-------------------------------- MODULE Groom --------------------------------
(***************************************************************************)
(* The groomers (internal/temporal/workflow_groom.go, groom_activities.go) *)
(* over the tasks that crabs emit: StrategicGroomWorkflow, a cron that     *)
(* runs once a day per project when the chief is enabled, applies what a   *)
(* model proposes and has whales sliced by crabs of its own, and           *)
(* TacticalGroomWorkflow, which follows every task that lands.             *)
(*                                                                         *)
(* The dispatcher and the sharks appear as far as they move tasks on:      *)
(* Promote and RunTask.  Epics, which nothing here touches, are left out.  *)
(***************************************************************************)
EXTENDS Crab

CONSTANTS
    MaxWhales,      \* whales sliced on one day (3)
    MaxMutations,   \* strategic mutations applied on one day (5)
    Categories      \* what the bug scanner may find

VARIABLES
    groom,          \* the strategic groomer
    labelled,       \* tasks with the label groom:decomposed
    tactical,       \* the tactical groomers: landed tasks, hits to judge
    tried           \* history: tasks that a shark was started for

groomVars == <<groom, labelled, tactical, tried>>
vars == <<crabVars, dagVars, groomVars, world>>

ASSUME GroomAssumption ==
    /\ MaxWhales * MaxDays <= Cardinality(Crabs)
    /\ MaxWhales \in Nat /\ MaxMutations \in Nat
    /\ Categories \subseteq 0..(MaxMorsels - 1)

(* Types and estimates, which are those a task was created with.           *)
isContainerTask(t) == IF t \in Seeds THEN t \in Containers ELSE t[3] = "whale"

(* What SizeMorsels answered about a row that was emitted as a morsel.     *)
sizing(t) == crab[t[1]].morsels[t[4] + 1]

(* EstimateMinutes > 90: Seeds are tasks of that size; what is emitted or   *)
(* created is so if its estimate is.                                       *)
oversized(t) ==
    IF t \in Seeds THEN TRUE
    ELSE t[3] = "large" \/ (t[3] = "morsel" /\ sizing(t).estimate > 90)

isWhale(t) == isContainerTask(t) \/ oversized(t)

(* EstimateMinutes > 0 && Acceptance # "": a morsel may lack either, what  *)
(* the groomer creates never does.                                         *)
isGroomed(t) ==
    IF t \in Seeds THEN TRUE
    ELSE t[3] = "morsel" => sizing(t).estimate > 0 /\ sizing(t).accepted

GroomInit ==
    /\ Init
    /\ groom = [pc |-> "asleep", day |-> 0, mutations |-> 0, todo |-> {},
                next |-> NoTask, pending |-> {}]
    /\ labelled = {}
    /\ tactical = [landed |-> FALSE, hits |-> {}]
    /\ tried = {}

GroomAt(p) == groom.pc = p

GroomGoto(p) == groom' = [groom EXCEPT !.pc = p]

----------------------------------------------------------------------------
(* The rest of the system.                                                 *)

(* The dispatcher's auto-promotion of groomed open tasks, while neither    *)
(* the chief nor the crab is enabled; UpdateTask refuses a blocked one.    *)
promotes == ~chief /\ ~world.crabEnabled

Promote(t) ==
    /\ promotes
    /\ exists(t) /\ status[t] = "open" /\ isGroomed(t) /\ ~isContainerTask(t)
    /\ unblocked(t)
    /\ status' = [status EXCEPT ![t] = "ready"]
    /\ UNCHANGED <<crabVars, edges, groomVars, world>>

(* Its ceremony is in the list of running workflows.                       *)
planned(t) ==
    \E c \in Crabs : /\ crab[c].by = "ceremony" /\ crab[c].plan = t
                     /\ running(c) \/ crab[c].pc = "completed"

(* The dispatcher starts a shark for a ready task.  It completes the task, *)
(* unblocks its dependents and sends a tactical groomer after it; or its   *)
(* plan fails, which closes the task and unblocks nothing; or it           *)
(* escalates, and the task is as ready as before.                          *)
RunTask(t) ==
    /\ exists(t) /\ status[t] = "ready" /\ ~isContainerTask(t) /\ unblocked(t)
    /\ ~planned(t)
    /\ tried' = tried \cup {t}
    /\ \/ /\ LET done == [status EXCEPT ![t] = "completed"]
             IN  status' = [u \in Rows |->
                   IF /\ done[u] = "open" /\ t \in DependsOn(u)
                      /\ \A d \in DependsOn(u) : done[d] \in TerminalStatuses
                   THEN "ready" ELSE done[u]]
          /\ tactical' = [tactical EXCEPT !.landed = TRUE]
       \/ /\ Fails("shark")
          /\ status' \in {status, [status EXCEPT ![t] = "plan_failed"]}
          /\ UNCHANGED tactical
    /\ UNCHANGED <<crabVars, edges, groom, labelled, world>>

----------------------------------------------------------------------------
(* Tactical grooming.                                                      *)

(* Which tasks a landed one may affect: open ones, containers excepted.    *)
findRelatedTasks == {t \in Rows : status[t] \in {"open", "ready"} /\ ~isContainerTask(t)}

(* The list is read once; the model is then asked about each hit in turn.  *)
(* Bound: one hit, and only where a verdict may change something.          *)
StartTactical ==
    /\ tactical.landed /\ tactical.hits = {} /\ "close" \in world.mutations
    /\ \E hits \in SUBSET findRelatedTasks :
         /\ Cardinality(hits) <= 1
         /\ tactical' = [landed |-> FALSE, hits |-> hits]
    /\ UNCHANGED <<crabVars, dagVars, groom, labelled, tried, world>>

(* The verdict on one hit: close it, or leave it (a note, no change, no    *)
(* usable answer).  The status of the hit is not read again.               *)
MutateTasks(t) ==
    /\ t \in tactical.hits
    /\ tactical' = [tactical EXCEPT !.hits = @ \ {t}]
    /\ \/ "close" \in world.mutations /\ DAG!SetStatus(t, "closed")
       \/ UNCHANGED dagVars
    /\ UNCHANGED <<crabVars, groom, labelled, tried, world>>

----------------------------------------------------------------------------
(* The day of the strategic groomer.                                       *)

(* go list, over the work directory: what does not compile has no map.     *)
GenerateRepoMap == {"map"} \cup (IF Fails("llm") THEN {"error"} ELSE {})

(* The cron, at 5:00, with the repository map and the state of the tasks:  *)
(* without a map the day is over, without the state it goes on.            *)
StartDay ==
    /\ GroomAt("asleep") /\ chief /\ groom.day < MaxDays
    /\ \E map \in GenerateRepoMap :
         groom' = [groom EXCEPT !.pc = IF map = "error" THEN "asleep"
                                                        ELSE "analysis",
                                !.day = @ + 1]
    /\ UNCHANGED <<crabVars, dagVars, labelled, tactical, tried, world>>

(* StrategicAnalysis: the day is over, or a number of mutations is left    *)
(* after they have been normalised and cut.                                *)
StrategicAnalysis ==
    /\ GroomAt("analysis")
    /\ \/ \E n \in 0..MaxMutations :
            groom' = [groom EXCEPT !.pc = "mutate", !.mutations = n]
       \/ Fails("llm") /\ GroomGoto("asleep")
    /\ UNCHANGED <<crabVars, dagVars, labelled, tactical, tried, world>>

(* A strategic create: what lacks fields is filled in and deferred, so it  *)
(* is created in either case.                                              *)
CreateMutation ==
    \E i \in 0..(MaxMutations - 1), size \in {"task", "large"} :
        DAG!Create(<<groom.day, 0, size, i>>, "open")

(* One mutation; the task it names may have moved on since the summary.    *)
applyMutation ==
    /\ GroomAt("mutate") /\ groom.mutations > 0
    /\ groom' = [groom EXCEPT !.mutations = @ - 1]
    /\ \/ /\ "close" \in world.mutations
          /\ \E t \in Rows : exists(t) /\ ~resolved(t) /\ DAG!SetStatus(t, "closed")
       \/ /\ "depend" \in world.mutations
          /\ \E f, t \in Rows : /\ linkable(f, t)
                                /\ edges' = edges \cup {<<f, t>>}
          /\ UNCHANGED status
       \/ "create" \in world.mutations /\ CreateMutation
       \/ UNCHANGED dagVars
    /\ UNCHANGED <<crabVars, labelled, tactical, tried, world>>

(* Mutant of detectable: the label is not looked at.                       *)
detectableAgain == {t \in Rows : status[t] \in {"open", "ready"} /\ isWhale(t)}

detectable ==
    {t \in Rows : status[t] \in {"open", "ready"} /\ isWhale(t)} \ labelled

(* DetectWhales: up to MaxWhales of them, those of the best priority.      *)
DetectWhales ==
    /\ GroomAt("mutate") /\ groom.mutations = 0
    /\ \/ \E whales \in SUBSET detectable :
            /\ \/ Cardinality(whales) = MaxWhales
               \/ whales = detectable /\ Cardinality(whales) < MaxWhales
            /\ groom' = [groom EXCEPT !.pc = "label", !.todo = whales]
       \/ Fails("label") /\ GroomGoto("label")
    /\ UNCHANGED <<crabVars, dagVars, labelled, tactical, tried, world>>

(* LabelWhaleDecomposed, before the crab is started; a whale that cannot   *)
(* be labelled is skipped.                                                 *)
LabelWhale ==
    /\ GroomAt("label")
    /\ \E t \in groom.todo :
         \/ /\ labelled' = labelled \cup {t}
            /\ groom' = [groom EXCEPT !.pc = "slice", !.todo = @ \ {t},
                                      !.next = t]
         \/ /\ Fails("label")
            /\ groom' = [groom EXCEPT !.todo = @ \ {t}]
            /\ UNCHANGED labelled
    /\ UNCHANGED <<crabVars, dagVars, tactical, tried, world>>

(* The crabs the groomer has ever started for a whale.                     *)
slicing(t) == {c \in Crabs : crab[c].by = "groom" /\ crab[c].plan = t}

StartSlicing ==
    /\ GroomAt("slice")
    /\ \E c \in Crabs :
         /\ fresh(c)
         /\ crab' = [crab EXCEPT ![c] = started(groom.next, FALSE, "groom", 0)]
         /\ groom' = [groom EXCEPT !.pc = "label", !.next = NoTask,
                                   !.pending = @ \cup {c}]
    /\ UNCHANGED <<inbox, dagVars, labelled, tactical, tried, world>>

(* Mutant of sliced: the count of emitted morsels is not looked at.        *)
reportsCompleted(c) == crab[c].pc = "completed"

sliced(c) == crab[c].pc = "completed" /\ MorselsEmitted(c) # {}

(* The goroutine of one crab: after a slicing the whale is closed.  The    *)
(* activity drops the errors of the store.                                 *)
CollectCrab(c) ==
    /\ GroomAt("label") /\ groom.todo = {}
    /\ c \in groom.pending /\ crab[c].pc \in Ended
    /\ groom' = [groom EXCEPT !.pending = @ \ {c}]
    /\ \/ sliced(c) /\ DAG!SetStatus(crab[c].plan, "completed")
       \/ (~sliced(c) \/ Fails("close")) /\ UNCHANGED dagVars
    /\ UNCHANGED <<crabVars, labelled, tactical, tried, world>>

(* Once every crab has ended: a file and a message, best effort both.      *)
GenerateMorningBriefing ==
    /\ GroomAt("label") /\ groom.todo = {} /\ groom.pending = {}
    /\ GroomGoto("scan")
    /\ UNCHANGED <<crabVars, dagVars, labelled, tactical, tried, world>>

(* A task for every category that has none, open or not.                   *)
UBSBaselineScan ==
    /\ GroomAt("scan")
    /\ \E found \in SUBSET Categories :
         LET new == {i \in found :
                       \A d \in 1..MaxDays : ~exists(<<d, 0, "ubs", i>>)}
         IN  status' = [t \in Rows |->
               IF t \in {<<groom.day, 0, "ubs", i>> : i \in new} THEN "open"
                                                               ELSE status[t]]
    /\ GroomGoto("asleep")
    /\ UNCHANGED <<crabVars, edges, labelled, tactical, tried, world>>

(* Somebody terminates the groomer: PARENT_CLOSE_POLICY_TERMINATE takes    *)
(* its crabs along.                                                        *)
TerminateGroom ==
    /\ Fails("stop") /\ ~GroomAt("asleep")
    /\ groom' = [groom EXCEPT !.pc = "asleep", !.todo = {}, !.pending = {},
                              !.next = NoTask, !.mutations = 0]
    /\ crab' = [c \in Crabs |->
         IF running(c) /\ c \in groom.pending
         THEN [crab[c] EXCEPT !.pc = "terminated"] ELSE crab[c]]
    /\ UNCHANGED <<inbox, dagVars, labelled, tactical, tried, world>>

----------------------------------------------------------------------------
GroomStep ==
    \/ StartDay \/ StrategicAnalysis \/ applyMutation \/ DetectWhales
    \/ LabelWhale \/ StartSlicing \/ \E c \in Crabs : CollectCrab(c)
    \/ GenerateMorningBriefing \/ UBSBaselineScan

TacticalStep == StartTactical \/ \E t \in Rows : MutateTasks(t)

(* Steps of crabs leave the groomers alone.                                *)
CrabsNext ==
    /\ \E c \in Crabs : \/ CrabStep(c) \/ handleCrabSignal(c)
                        \/ handleCrabDecompose(c) \/ CeremonyHandsOver(c)
                        \/ \E d \in Crabs : CeremonyStartsCrab(c, d)
    /\ UNCHANGED groomVars

Next ==
    \/ CrabsNext \/ GroomStep \/ TacticalStep \/ TerminateGroom
    \/ \E t \in Rows : Promote(t) \/ RunTask(t)

Spec == GroomInit /\ [][Next]_vars

(* Workflows go on (activities and timers time out), the dispatcher ticks  *)
(* for ever and has a slot for a task that was never run.  No shark need   *)
(* complete its task.  People, and the ceremonies they attend, need not    *)
(* act.                                                                    *)
FairSpec ==
    /\ Spec
    /\ \A c \in Crabs : WF_vars(CrabStep(c) /\ UNCHANGED groomVars)
    /\ WF_vars(GroomStep) /\ WF_vars(TacticalStep)
    /\ WF_vars(\E t \in Rows : Promote(t))
    /\ WF_vars(\E t \in Rows \ tried : RunTask(t))

----------------------------------------------------------------------------
(* Properties.                                                             *)

(* A whale is sliced by the groomer at most once, whatever fails, stops or *)
(* is detected again on the next day: StrategicGroomWorkflow labels it     *)
(* before it starts the crab.                                              *)
SlicedOnce == \A t \in Rows : Cardinality(slicing(t)) <= 1

(* Whatever completes a task has run it or replaced it: the groomer closes *)
(* a whale only when there are morsels to do its work, although            *)
(* EmitMorselsActivity reports success without creating any.               *)
SlicedWhaleHasMorsels ==
    [][\A t \in Rows :
         status[t] # "completed" /\ status'[t] = "completed" =>
           \/ RunTask(t)
           \/ \E c \in slicing(t), n \in 1..EmitAttempts, i \in 0..(MaxMorsels - 1) :
                exists(<<c, n, "morsel", i>>)]_vars


Morsels == {t \in Emitted : t[3] = "morsel"}

live == {t \in Rows : exists(t) /\ ~resolved(t)}

(* The tasks that wait, over any number of edges, for one that a shark has *)
(* failed or that lacks what the dispatcher asks for.                      *)
held ==
    LET stuck == {t \in live : t \in tried \/ isContainerTask(t) \/ ~isGroomed(t)}
        grown(S) == S \cup {t \in live : DependsOn(t) \cap S # {}}
    IN  {t \in live : \A S \in SUBSET live :
                        stuck \subseteq S /\ grown(S) = S => t \in S}

(* Every morsel that is emitted gets a shark in the end, unless it lacks   *)
(* an estimate or criteria or waits for a task of which that is so, or     *)
(* which sharks have failed: dependencies that are cut, refused or doubled *)
(* by a second attempt never block it.                                     *)
EveryMorselRuns ==
    promotes => []<>(\A m \in Morsels \cap live : m \in tried \cup held)

=============================================================================
