-------------------------------- MODULE Shark --------------------------------
(***************************************************************************)
(* ChumAgentWorkflow (internal/temporal/workflow.go): the organisms that   *)
(* the dispatcher or an API request starts, one after the other or at the  *)
(* same time, for ONE task.  Each run plans, then executes, reviews and    *)
(* verifies in a retry loop, and ends by completing the task or by         *)
(* escalating and reopening it.                                            *)
(*                                                                         *)
(* A workflow is sequential and Temporal replays it after a crash, so one  *)
(* action is one activity together with the workflow code that follows it. *)
(* Activities run at most once or twice and their errors are swallowed at  *)
(* most call sites; Faults names the ones that may fail here.  What the    *)
(* runs share is the task's row, the worktree path and the branch, which   *)
(* are all named after the task and not after the run.                     *)
(*                                                                         *)
(* The admin gates between the phases are in ResumeGate.  Child workflows  *)
(* (learner, groomer, PR review), notifications, traces, genomes and       *)
(* proteins change nothing that is kept here.                              *)
(***************************************************************************)
EXTENDS Integers, FiniteSets

CONSTANTS
    Runs,               \* workflow executions of the task
    None,               \* no run
    MaxRetriesOverride, \* 0: the tier decides
    Reasons,            \* results of extractInfraReason
    Worlds              \* the circumstances a behaviour may have

VARIABLES
    world,     \* its circumstances, which never change
    status,    \* tasks.status
    errorLog,  \* tasks.error_log is not empty
    ungated,   \* the dependents were promoted
    tree,      \* the run that created the worktree at the task's path
    local,     \* the run whose commits the local branch chum/<task> has
    remote,    \* the run whose commits the branch has on the remote
    prOpen,    \* a pull request for the remote branch is open
    stray,     \* the HEAD of the worker's own directory was pushed
    pc,        \* what each run does next
    result,    \* how its loop ended; also decides its visible stage
    tier,      \* the provider tier it was given
    hasTree,   \* worktreePath is not empty
    attempt,   \* attempt, the loop counter
    total,     \* escalationAttempt
    seen,      \* infraRetries
    failures,  \* allFailures is not empty
    alone      \* history: no other run was alive since this one began

taskVars == <<status, errorLog, ungated>>
treeVars == <<tree, local>>
remoteVars == <<remote, prOpen, stray>>
loopVars == <<tier, attempt, total, seen, failures>>
given == <<world, alone>>
vars ==
    <<given, taskVars, treeVars, remoteVars, pc, result, loopVars, hasTree>>

FaultNames ==
    {"setup", "close", "unblock", "outcome", "push", "pr", "cleanup", "scent",
     "timeout"}

TierNames == {"fast", "balanced", "premium", "gated"}

ASSUME ConstantsAssumption ==
    /\ None \notin Runs
    /\ MaxRetriesOverride \in Nat
    /\ IsFiniteSet(Reasons)
    /\ Worlds \subseteq [faults : SUBSET FaultNames, overlap : BOOLEAN,
                         api : SUBSET Runs, tiers : SUBSET TierNames]

Faults == world.faults    \* activities that may fail
Overlap == world.overlap  \* a tick may come before an unlisted run has ended
ApiRuns == world.api      \* runs that POST /workflows/start starts
Tiers == world.tiers      \* tiers the first provider of the chain may have

Phases ==
    {"idle", "setup", "plan", "planFailed", "execute", "review", "ubs", "dod",
     "triage", "close", "unblock", "outcome", "push", "pr", "cleanup",
     "escalate", "reopen", "scent", "done", "killed"}

isTerminal(s) == s \in {"completed", "closed", "plan_failed"}

active(r) == pc[r] \notin {"idle", "done", "killed"}

(* ChumAgentRunningVisibilityQuery: the stage is one of chumRunningStages. *)
(* The stages completed and escalated are not, although the run goes on.   *)
listed(r) == active(r) /\ result[r] \notin {"passed", "escalated"}

(* A gated provider's tier is skipped, and it is the only one.             *)
retriesForTier(t) ==
    CASE t = "gated" -> 0
      [] t # "gated" /\ MaxRetriesOverride > 0 -> MaxRetriesOverride
      [] t = "fast" /\ MaxRetriesOverride = 0 -> 3
      [] t = "premium" /\ MaxRetriesOverride = 0 -> 1
      [] OTHER -> 2

Init ==
    /\ world \in Worlds
    /\ status = "ready" /\ errorLog = FALSE /\ ungated = FALSE
    /\ tree = None /\ local = None
    /\ remote = None /\ prOpen = FALSE /\ stray = FALSE
    /\ pc = [r \in Runs |-> "idle"]
    /\ result = [r \in Runs |-> "running"]
    /\ tier = [r \in Runs |-> "balanced"]
    /\ hasTree = [r \in Runs |-> FALSE]
    /\ attempt = [r \in Runs |-> 0]
    /\ total = [r \in Runs |-> 0]
    /\ seen = [r \in Runs |-> {}]
    /\ failures = [r \in Runs |-> FALSE]
    /\ alone = [r \in Runs |-> TRUE]

Goto(r, p) == pc' = [pc EXCEPT ![r] = p]

(* x is the value of a best-effort write: the old one if it fails.         *)
BestEffort(fault, new, old) ==
    {new} \cup (IF fault \in Faults THEN {old} ELSE {})

----------------------------------------------------------------------------
(* How runs begin.                                                         *)

Begin(r) ==
    /\ Goto(r, "setup")
    /\ alone' = [q \in Runs |-> IF q = r THEN \A p \in Runs : ~active(p)
                                          ELSE alone[q] /\ ~active(q)]

(* A dispatcher tick: the task is ready and no listed run has it.          *)
Dispatch(r, t) ==
    /\ pc[r] = "idle" /\ r \notin ApiRuns
    /\ status = "ready"
    /\ \A q \in Runs : ~listed(q)
    /\ Overlap \/ \A q \in Runs : ~active(q)
    /\ tier' = [tier EXCEPT ![r] = t]
    /\ Begin(r)
    /\ UNCHANGED <<world, taskVars, treeVars, remoteVars, result, attempt,
                   total, seen, failures, hasTree>>

(* POST /workflows/start: whatever the status; the workflow ID is the task *)
(* ID, so a second request joins the run of the first one.  It names no    *)
(* escalation chain: the single tier is balanced.                          *)
handleWorkflowStart(r) ==
    /\ pc[r] = "idle" /\ r \in ApiRuns
    /\ \A q \in ApiRuns : ~active(q)
    /\ Begin(r)
    /\ UNCHANGED <<world, taskVars, treeVars, remoteVars, result, loopVars,
                   hasTree>>

(* Mutant of SetupWorktree: a worktree that is there already is taken.     *)
SetupWorktreeStale(r) ==
    /\ pc[r] = "setup"
    /\ tree' = IF tree = None THEN r ELSE tree
    /\ local' = IF local = None THEN r ELSE local
    /\ hasTree' = [hasTree EXCEPT ![r] = TRUE]
    /\ Goto(r, "plan")
    /\ UNCHANGED <<given, taskVars, remoteVars, result, loopVars>>

(* Whatever worktree is at the path goes, then the branch, then both are   *)
(* created.  On an error the run goes on in the shared workspace.          *)
SetupWorktree(r) ==
    /\ pc[r] = "setup"
    /\ \/ tree' = r /\ local' = r /\ hasTree' = [hasTree EXCEPT ![r] = TRUE]
       \/ /\ "setup" \in Faults
          /\ tree' \in {tree, None}
          /\ local' \in {local} \cup (IF tree' = None THEN {None} ELSE {})
          /\ UNCHANGED hasTree
    /\ Goto(r, "plan")
    /\ UNCHANGED <<given, taskVars, remoteVars, result, loopVars>>

----------------------------------------------------------------------------
(* The loop.                                                               *)

(* The head of the retry loop, entered with attempt = n.                   *)
LoopHead(r, n) ==
    /\ attempt' = [attempt EXCEPT ![r] = n]
    /\ IF n < retriesForTier(tier[r])
         THEN Goto(r, "execute") /\ total' = [total EXCEPT ![r] = @ + 1]
         ELSE Goto(r, "escalate") /\ UNCHANGED total

(* break: the attempts that are left are not made.                         *)
LeaveLoop(r) == Goto(r, "escalate") /\ UNCHANGED <<attempt, total>>

NoteFailure(r) == failures' = [failures EXCEPT ![r] = TRUE]

(* continue: the failure is noted and the next attempt made.               *)
TryAgain(r) == LoopHead(r, attempt[r] + 1) /\ NoteFailure(r)

(* What the activities of the loop return.  A plan must be JSON of the     *)
(* schema and pass Validate; an agent that exits with an error has         *)
(* executed all the same, so only the activity's own timeout is an error.  *)
StructuredPlanActivity == {"plan", "error"}

ExecuteActivity == {"executed", "error"}

(* An agent that fails, or whose answer is no JSON, has approved.          *)
CodeReviewActivity == {"approved", "rejected", "error"}

(* A scan that cannot be run or read has passed, and so has one without    *)
(* critical findings.                                                      *)
RunUBSScanActivity == {"passed", "critical", "error"}

(* Every check in turn.  The failures name the commands and their exit     *)
(* codes, not their output, so it takes a command or a code that is itself *)
(* one of the patterns below to make one an infrastructure failure.        *)
RunPostMergeChecks == {"passed", "code", "transient", "persistent"}

(* Without .git in the run's directory no check is made.                   *)
DoDVerifyActivity(r) ==
    {"error", "broken"} \cup
        (IF hasTree[r] /\ tree = None THEN {} ELSE RunPostMergeChecks)

(* The broken worktree is not one of them: "Do NOT retry in this worktree" *)
(* (activities.go:393) is advice to the triage only.                       *)
isInfrastructureFailure(f) == f \in {"transient", "persistent"}

isTransientInfraFailure(f) == f = "transient"

(* An answer that cannot be had or read means retry.                       *)
FailureTriageActivity == {"retry", "rescope"}

StructuredPlan(r) ==
    /\ pc[r] = "plan"
    /\ \E answer \in StructuredPlanActivity :
         IF answer = "plan"
           THEN LoopHead(r, 0) /\ UNCHANGED result
           ELSE /\ Goto(r, "planFailed")
                /\ result' = [result EXCEPT ![r] = "planFailed"]
                /\ UNCHANGED <<attempt, total>>
    /\ UNCHANGED <<given, taskVars, treeVars, remoteVars, tier, seen,
                   failures, hasTree>>

Execute(r) ==
    /\ pc[r] = "execute"
    /\ \E answer \in ExecuteActivity :
         IF answer = "executed"
           THEN Goto(r, "review") /\ UNCHANGED <<attempt, total, failures>>
           ELSE TryAgain(r)
    /\ UNCHANGED <<given, taskVars, treeVars, remoteVars, result, tier, seen,
                   hasTree>>

(* Sentinel scan and code review: a rejection is noted and blocks nothing. *)
CodeReview(r) ==
    /\ pc[r] = "review"
    /\ Goto(r, "ubs")
    /\ \E answer \in CodeReviewActivity :
         IF answer = "rejected" THEN NoteFailure(r) ELSE UNCHANGED failures
    /\ UNCHANGED <<given, taskVars, treeVars, remoteVars, result, tier,
                   attempt, total, seen, hasTree>>

RunUBSScan(r) ==
    /\ pc[r] = "ubs"
    /\ \E answer \in RunUBSScanActivity :
         IF answer # "critical"
           THEN Goto(r, "dod") /\ UNCHANGED <<attempt, total, failures>>
           ELSE TryAgain(r)
    /\ UNCHANGED <<given, taskVars, treeVars, remoteVars, result, tier, seen,
                   hasTree>>

DoDPasses(r) ==
    /\ pc[r] = "dod" /\ "passed" \in DoDVerifyActivity(r)
    /\ Goto(r, "close")
    /\ result' = [result EXCEPT ![r] = "passed"]
    /\ UNCHANGED <<given, taskVars, treeVars, remoteVars, loopVars, hasTree>>

(* The checks could not be run, or failed for the code's own fault.        *)
DoDFails(r) ==
    /\ pc[r] = "dod"
    /\ \E answer \in DoDVerifyActivity(r) \ {"passed"} :
         /\ ~isInfrastructureFailure(answer)
         /\ IF answer = "error"
              THEN TryAgain(r)
              ELSE /\ Goto(r, "triage") /\ NoteFailure(r)
                   /\ UNCHANGED <<attempt, total>>
    /\ UNCHANGED <<given, taskVars, treeVars, remoteVars, result, tier, seen,
                   hasTree>>

(* A transient infrastructure failure: one free retry for each reason.     *)
TransientInfra(r, why) ==
    /\ pc[r] = "dod"
    /\ \E answer \in DoDVerifyActivity(r) : isTransientInfraFailure(answer)
    /\ why \notin seen[r]
    /\ seen' = [seen EXCEPT ![r] = @ \cup {why}]
    /\ LoopHead(r, attempt[r])
    /\ UNCHANGED <<given, taskVars, treeVars, remoteVars, result, tier,
                   failures, hasTree>>

(* A persistent one, or a transient one that was retried: rescue.          *)
InfraRescue(r) ==
    /\ pc[r] = "dod"
    /\ \E answer \in DoDVerifyActivity(r) : isInfrastructureFailure(answer)
    /\ LeaveLoop(r) /\ NoteFailure(r)
    /\ UNCHANGED <<given, taskVars, treeVars, remoteVars, result, tier, seen,
                   hasTree>>

(* Mutant of FailureTriage: a guided retry does not count as an attempt.   *)
FailureTriageFree(r) ==
    /\ pc[r] = "triage"
    /\ LeaveLoop(r) \/ (Goto(r, "execute") /\ UNCHANGED <<attempt, total>>)
    /\ UNCHANGED <<given, taskVars, treeVars, remoteVars, result, tier, seen,
                   failures, hasTree>>

(* Rescope, or (after the formatters ran) the next attempt.                *)
FailureTriage(r) ==
    /\ pc[r] = "triage"
    /\ \E decision \in FailureTriageActivity :
         IF decision = "rescope"
           THEN LeaveLoop(r)
           ELSE LoopHead(r, attempt[r] + 1)
    /\ UNCHANGED <<given, taskVars, treeVars, remoteVars, result, tier, seen,
                   failures, hasTree>>

----------------------------------------------------------------------------
(* How runs end.                                                           *)

(* A plan that cannot be made closes the task.                             *)
ClosePlanFailed(r) ==
    /\ pc[r] = "planFailed"
    /\ status' \in BestEffort("close", "plan_failed", status)
    /\ Goto(r, "scent")
    /\ UNCHANGED <<given, errorLog, ungated, treeVars, remoteVars, result,
                   loopVars, hasTree>>

(* Mutant of CloseTask: left to RecordOutcome, which closes the task too.  *)
CloseTaskLater(r) ==
    /\ pc[r] = "close"
    /\ Goto(r, "unblock")
    /\ UNCHANGED <<given, taskVars, treeVars, remoteVars, result, loopVars,
                   hasTree>>

CloseTask(r) ==
    /\ pc[r] = "close"
    /\ status' \in BestEffort("close", "completed", status)
    /\ Goto(r, "unblock")
    /\ UNCHANGED <<given, errorLog, ungated, treeVars, remoteVars, result,
                   loopVars, hasTree>>

(* MarkMorselDone and AutoUnblockDependents: the dependents are promoted   *)
(* if the task's status, read again, is terminal.                          *)
UnblockDependents(r) ==
    /\ pc[r] = "unblock"
    /\ ungated' \in BestEffort("unblock", ungated \/ isTerminal(status), ungated)
    /\ Goto(r, "outcome")
    /\ UNCHANGED <<given, status, errorLog, treeVars, remoteVars, result,
                   loopVars, hasTree>>

(* Mutant of RecordOutcome: DoDPassed is not consulted.                    *)
RecordOutcomeCloses(r) ==
    /\ pc[r] = "outcome"
    /\ status' \in BestEffort("outcome", "closed", status)
    /\ Goto(r, IF result[r] = "passed" THEN "push" ELSE "cleanup")
    /\ UNCHANGED <<given, errorLog, ungated, treeVars, remoteVars, result,
                   loopVars, hasTree>>

(* The outcome row; if the checks passed, the task is closed once more.    *)
(* The learner (and, on success, the groomer) is started next.             *)
RecordOutcome(r) ==
    /\ pc[r] = "outcome"
    /\ IF result[r] = "passed"
         THEN /\ status' \in BestEffort("outcome", "closed", status)
              /\ Goto(r, "push")
         ELSE /\ UNCHANGED status
              /\ Goto(r, "cleanup")
    /\ UNCHANGED <<given, errorLog, ungated, treeVars, remoteVars, result,
                   loopVars, hasTree>>

(* git push origin HEAD in worktreePath: it sends what is there now,       *)
(* nothing if the directory is gone, and is refused if the remote branch   *)
(* has other commits.  An empty path is the worker's own directory, whose  *)
(* branch is sent whatever it has.                                         *)
PushWorktree(r) ==
    /\ pc[r] = "push"
    /\ IF hasTree[r]
         THEN /\ remote' \in IF tree # None /\ remote \in {None, tree}
                                THEN BestEffort("push", tree, remote)
                                ELSE {remote}
              /\ UNCHANGED stray
         ELSE /\ stray' \in BestEffort("push", TRUE, stray)
              /\ UNCHANGED remote
    /\ Goto(r, "pr")
    /\ UNCHANGED <<given, taskVars, treeVars, prOpen, result,
                   loopVars, hasTree>>

(* MergeToMain opens a pull request for the remote branch and starts its   *)
(* review; without gh or without the branch it does nothing.               *)
MergeToMain(r) ==
    /\ pc[r] = "pr"
    /\ prOpen' \in BestEffort("pr", prOpen \/ remote # None, prOpen)
    /\ Goto(r, "cleanup")
    /\ UNCHANGED <<given, taskVars, treeVars, remote, stray, result,
                   loopVars, hasTree>>

(* A reviewer merges the pull request.                                     *)
MergePR ==
    /\ prOpen
    /\ prOpen' = FALSE
    /\ UNCHANGED <<given, taskVars, treeVars, remote, stray, pc, result, loopVars,
                   hasTree>>

(* The worktree at the path and the branch checked out there go, on the    *)
(* remote too, which closes the pull request.  Every git command may fail  *)
(* on its own; a branch that is checked out cannot be deleted.             *)
CleanupWorktree(r) ==
    /\ pc[r] = "cleanup"
    /\ IF hasTree[r] /\ tree # None
         THEN /\ tree' \in BestEffort("cleanup", None, tree)
              /\ local' \in IF tree' = None
                              THEN BestEffort("cleanup", None, local)
                              ELSE {local}
              /\ remote' \in BestEffort("cleanup", None, remote)
              /\ prOpen' = (prOpen /\ remote' # None)
         ELSE UNCHANGED <<treeVars, remote, prOpen>>
    /\ Goto(r, IF result[r] = "passed" THEN "done" ELSE "scent")
    /\ UNCHANGED <<given, taskVars, stray, result, loopVars, hasTree>>

(* The stage becomes escalated, the chief is told.                         *)
Escalate(r) ==
    /\ pc[r] = "escalate"
    /\ result' = [result EXCEPT ![r] = "escalated"]
    /\ Goto(r, "reopen")
    /\ UNCHANGED <<given, taskVars, treeVars, remoteVars, loopVars, hasTree>>

(* CloseTaskActivity(task, "ready").                                       *)
Reopen(r) ==
    /\ pc[r] = "reopen"
    /\ status' \in BestEffort("close", "ready", status)
    /\ Goto(r, "outcome")
    /\ UNCHANGED <<given, errorLog, ungated, treeVars, remoteVars, result,
                   loopVars, hasTree>>

(* Mutant of RecordFailure: the errors are not kept.                       *)
RecordFailureNothing(r) ==
    /\ pc[r] = "scent"
    /\ Goto(r, "done")
    /\ UNCHANGED <<given, taskVars, treeVars, remoteVars, result, loopVars,
                   hasTree>>

(* The deferred function of a run that returns an error.                   *)
RecordFailure(r) ==
    /\ pc[r] = "scent"
    /\ errorLog' \in BestEffort("scent", errorLog \/ failures[r], errorLog)
    /\ Goto(r, "done")
    /\ UNCHANGED <<given, status, ungated, treeVars, remoteVars, result,
                   loopVars, hasTree>>

(* The execution timeout, or an admin's terminate: nothing deferred runs.  *)
Timeout(r) ==
    /\ "timeout" \in Faults
    /\ active(r)
    /\ Goto(r, "killed")
    /\ UNCHANGED <<given, taskVars, treeVars, remoteVars, result, loopVars,
                   hasTree>>

----------------------------------------------------------------------------
Step(r) ==
    \/ SetupWorktree(r) \/ StructuredPlan(r) \/ Execute(r) \/ CodeReview(r)
    \/ RunUBSScan(r) \/ DoDPasses(r) \/ DoDFails(r)
    \/ \E why \in Reasons : TransientInfra(r, why)
    \/ InfraRescue(r) \/ FailureTriage(r)
    \/ ClosePlanFailed(r) \/ CloseTask(r) \/ UnblockDependents(r)
    \/ RecordOutcome(r) \/ PushWorktree(r) \/ MergeToMain(r)
    \/ CleanupWorktree(r) \/ Escalate(r) \/ Reopen(r) \/ RecordFailure(r)

Next ==
    \/ \E r \in Runs :
         \/ \E t \in Tiers : Dispatch(r, t)
         \/ handleWorkflowStart(r) \/ Step(r) \/ Timeout(r)
    \/ MergePR

Spec == Init /\ [][Next]_vars

(* Every activity has a timeout, so a run that is not held at a gate and   *)
(* whose workers are alive always takes its next step.                     *)
FairSpec == Spec /\ \A r \in Runs : WF_vars(Step(r))

----------------------------------------------------------------------------
(* Properties.                                                             *)

(* Type invariant: the columns, branches, counters and program counters    *)
(* keep their domains.                                                     *)
TypeOK ==
    /\ world \in Worlds
    /\ status \in {"ready", "completed", "closed", "plan_failed"}
    /\ errorLog \in BOOLEAN /\ ungated \in BOOLEAN /\ prOpen \in BOOLEAN
    /\ tree \in Runs \cup {None}
    /\ local \in Runs \cup {None}
    /\ remote \in Runs \cup {None}
    /\ stray \in BOOLEAN
    /\ pc \in [Runs -> Phases]
    /\ result \in [Runs -> {"running", "passed", "escalated", "planFailed"}]
    /\ tier \in [Runs -> TierNames]
    /\ hasTree \in [Runs -> BOOLEAN]
    /\ attempt \in [Runs -> Nat]
    /\ total \in [Runs -> Nat]
    /\ seen \in [Runs -> SUBSET Reasons]
    /\ failures \in [Runs -> BOOLEAN]
    /\ alone \in [Runs -> BOOLEAN]

(* A run executes at most its tier's number of attempts and one more for   *)
(* each transient infrastructure reason, although the free retry takes the *)
(* loop counter back (workflow.go:734).                                    *)
AttemptsBounded ==
    \A r \in Runs :
        total[r] <= retriesForTier(tier[r]) + Cardinality(Reasons)

(* The dispatcher starts no run before the last one has ended, and the API *)
(* starts none.                                                            *)
Exclusive == ~Overlap /\ ApiRuns = {}

(* The failures are among the ones given.                                  *)
OnlyFail(names) == Faults \subseteq names

(* A run that is alone has, from its setup until its own cleanup, the      *)
(* worktree it created at its path and the branch in it, whatever the runs *)
(* before it left there: they may have been killed at any step, by their   *)
(* timeout or an administrator, or have failed to clean up.                *)
OwnsItsWorktree ==
    \A r \in Runs :
        (alone[r] /\ active(r) /\ hasTree[r] /\ pc[r] # "scent") =>
            tree = r /\ local = r

(* "Push validated code to remote" (workflow.go:665): whatever is pushed   *)
(* is the work of a run that passed its checks.                            *)
PushedWorkIsVerified ==
    /\ remote # None => result[remote] = "passed"
    /\ ~stray

(* "Task mortality never ungates dependencies" (task_activities.go:74): as *)
(* long as no run's checks passed, the task has no status that GetReady-   *)
(* Nodes takes for resolved, and no dependent was promoted.                *)
OnlySuccessUngates ==
    (ungated \/ isTerminal(status)) => \E r \in Runs : result[r] = "passed"

(* Dependents are promoted, and completed or closed written, only if some  *)
(* run's checks passed (task_activities.go:72), however runs overlap and   *)
(* whatever fails.  The third terminal status is OnlySuccessUngates'.      *)
CompletionIsVerified ==
    (ungated \/ status \in {"completed", "closed"}) =>
        \E r \in Runs : result[r] = "passed"

(* When a run that passed its checks has ended, the task is closed: of the *)
(* two writes (CloseTask, RecordOutcome) either one is enough.  If the     *)
(* database works, its dependents have been promoted too: the status is    *)
(* written before AutoUnblockDependents reads it.                          *)
SuccessIsSettled ==
    Exclusive =>
        \A r \in Runs :
            (pc[r] = "done" /\ result[r] = "passed") =>
                /\ "outcome" \notin Faults => isTerminal(status)
                /\ OnlyFail({"setup", "push", "pr", "cleanup"}) => ungated

(* A run that completed or escalated leaves no worktree at its path.  One  *)
(* whose plan failed returns before the clean-up (workflow.go:299) that    *)
(* "removes the worktree on any exit path" (workflow.go:206).              *)
ReturnsItsWorktree ==
    Exclusive /\ OnlyFail({"setup", "push", "pr"}) =>
        \A r \in Runs :
            (pc[r] = "done" /\ result[r] \in {"passed", "escalated"}) => tree # r

(* What an escalated run has to say to the next one ("The dispatcher sees  *)
(* PreviousErrors", workflow.go:881) is in the task's row when the run has *)
(* ended, however many runs end at once: every way out of the loop, early  *)
(* ones too, has noted a failure.  A run whose provider is gated made no   *)
(* attempt and has nothing to say.                                         *)
ErrorsAreKept ==
    "scent" \notin Faults =>
        \A r \in Runs :
            (pc[r] = "done" /\ result[r] = "escalated" /\ tier[r] # "gated")
                => errorLog

(* Liveness: a run that was started ends, whatever its activities return.  *)
RunsEnd ==
    \A r \in Runs : pc[r] = "setup" ~> pc[r] \in {"done", "killed"}

=============================================================================
