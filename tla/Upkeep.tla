-------------------------------- MODULE Upkeep --------------------------------
(***************************************************************************)
(* What goes on beside the sharks: learners (Learner), reviews of pull     *)
(* requests (PRReview) and the janitor (internal/temporal/                 *)
(* workflow_janitor.go, janitor_activities.go), which sweeps the worktrees *)
(* and branches of all workspaces every hour while organisms work in them. *)
(***************************************************************************)
EXTENDS Learner, PRReview

VARIABLE sweep   \* the janitor: its phase, and what it has listed so far

vars == <<learnerVars, reviewVars, sweep, safe, world>>

Resting == [pc |-> "rest", todo |-> {}, worktrees |-> {}, branches |-> {}]

Init ==
    /\ LearnerInit /\ ReviewInit
    /\ sweep = Resting /\ safe = {}
    /\ world \in Circumstances

in(w) == {t \in Tasks : workspace[t] = w}

(* git worktree prune: registrations without a directory are dropped.      *)
pruned(T) ==
    [t \in Tasks |-> IF t \in T /\ ~tree[t].dir
                     THEN [tree[t] EXCEPT !.registered = FALSE] ELSE tree[t]]

----------------------------------------------------------------------------
(* JanitorSweepActivity.                                                   *)

StartSweep ==
    /\ sweep.pc = "rest"
    /\ sweep' = [Resting EXCEPT !.pc = "list", !.todo = Workspaces]
    /\ safe' = {}
    /\ UNCHANGED <<learnerVars, reviewVars, world>>

(* Mutant of collected: the list of the last workspace is the list.        *)
collectedLast(known, listed) == listed

collected(known, listed) == known \cup listed

(* Phase 1 for one workspace: prune and list, or skip it.                  *)
ListWorkspace(w) ==
    /\ sweep.pc = "list" /\ w \in sweep.todo
    /\ LET listed == {t \in in(w) : tree[t].registered /\ tree[t].dir}
           skipped == [sweep EXCEPT !.todo = @ \ {w}]
       IN  \/ /\ tree' = pruned(in(w))
              /\ sweep' = [skipped EXCEPT
                   !.worktrees = collected(@, listed),
                   !.branches = collected(@, listed)]
              /\ safe' = safe \cup {l \in Learners :
                                      active(l) /\ mine(l).owner = l
                                      /\ learner[l].task \in listed}
           \/ May("git") /\ sweep' = skipped /\ UNCHANGED <<tree, safe>>
    /\ UNCHANGED <<learner, lessonVars, reviewVars, world>>

(* Phase 2: directories of the pattern that no list names.                 *)
RemoveOrphans ==
    /\ sweep.pc = "list" /\ sweep.todo = {}
    /\ tree' = [t \in Tasks |->
         IF tree[t].dir /\ t \notin sweep.worktrees
         THEN [tree[t] EXCEPT !.dir = FALSE] ELSE tree[t]]
    /\ sweep' = [sweep EXCEPT !.pc = "branches", !.todo = Workspaces,
                              !.worktrees = {}]
    /\ UNCHANGED <<learner, lessonVars, reviewVars, safe, world>>

(* Phase 3 for one workspace: branches that no list names, here and at the *)
(* remote.  One that a worktree has checked out is printed with a plus     *)
(* sign, which the code does not strip, and so is left alone.              *)
DeleteBranches(w) ==
    /\ sweep.pc = "branches" /\ w \in sweep.todo
    /\ \/ tree' = [t \in Tasks |->
            IF /\ t \in in(w) \ sweep.branches
               /\ tree[t].branch /\ ~tree[t].registered
            THEN [tree[t] EXCEPT !.branch = FALSE, !.remote = FALSE]
            ELSE tree[t]]
       \/ May("git") /\ UNCHANGED tree
    /\ sweep' = [sweep EXCEPT !.todo = @ \ {w}]
    /\ UNCHANGED <<learner, lessonVars, reviewVars, safe, world>>

(* The final prune; the result of the sweep is only logged.                *)
EndSweep ==
    /\ sweep.pc = "branches" /\ sweep.todo = {}
    /\ tree' = pruned(Tasks)
    /\ sweep' = Resting /\ safe' = {}
    /\ UNCHANGED <<learner, lessonVars, reviewVars, world>>

(* The activity times out, or the worker dies: it is not tried again.      *)
SweepDies ==
    /\ May("crash") /\ sweep.pc # "rest"
    /\ sweep' = Resting /\ safe' = {}
    /\ UNCHANGED <<learnerVars, reviewVars, world>>

JanitorStep ==
    \/ StartSweep \/ RemoveOrphans \/ EndSweep \/ SweepDies
    \/ \E w \in Workspaces : ListWorkspace(w) \/ DeleteBranches(w)

----------------------------------------------------------------------------
Learning ==
    /\ \/ \E l \in Learners :
            \/ LearnerStep(l) \/ Terminate(l)
            \/ \E t \in Tasks : spawnCHUMWorkflows(l, t) \/ spawnFailureLearner(l, t)
       \/ \E a \in Attempts : AttemptStep(a)
       \/ WorkerDies
    /\ UNCHANGED <<reviewVars, sweep, safe, world>>

Reviewing ==
    "reviews" \in world.parts /\ ReviewNext /\ UNCHANGED <<learnerVars, sweep, safe, world>>

(* A behaviour has the parts of its world: reviews and learners share      *)
(* nothing, learners and sweeps share the worktrees.                       *)
Next ==
    \/ "learners" \in world.parts /\ Learning
    \/ "janitor" \in world.parts /\ JanitorStep
    \/ Reviewing

(* Polls come for ever; GitHub, the scan of one pull request's comments,   *)
(* the start of a workflow and the agents may fail, but not always.        *)
Spec ==
    /\ Init /\ [][Next]_vars
    /\ SF_vars(Reviewing /\ ScanOpenPRs /\ found' = unreviewed)
    /\ \A p \in PRs :
         /\ SF_vars(Reviewing /\ SpawnReview(p) /\ start(p))
         /\ SF_vars(Reviewing /\ ReviewPosted(p))

----------------------------------------------------------------------------
(* Properties.                                                             *)

(* The janitor spares the living: an organism whose worktree was there     *)
(* when the sweep listed its workspace has it for the rest of the sweep,   *)
(* whatever the other workspaces' lists say (phase 1 "prevents             *)
(* cross-project deletion") and whoever sets up or cleans up meanwhile.    *)
SweepSparesTheLiving ==
    \A l \in safe : active(l) /\ mine(l).owner = l => mine(l).dir

=============================================================================
