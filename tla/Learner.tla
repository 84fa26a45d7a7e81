------------------------------- MODULE Learner -------------------------------
(***************************************************************************)
(* ContinuousLearnerWorkflow (internal/temporal/workflow_learner.go with   *)
(* learner_activities.go): after every shark a learner of its own takes a  *)
(* worktree, has a model extract lessons, stores them, writes rules, the   *)
(* project's memory and calcified scripts, commits and leaves.             *)
(*                                                                         *)
(* Learners share the lessons table and, when they are about the same      *)
(* task, the worktree: its path and its branch are named after the task    *)
(* alone.  What they write into the worktree, and how many successes a     *)
(* script takes, is left out.                                              *)
(*                                                                         *)
(* Temporal starts the storing of lessons again when an attempt is late,   *)
(* but cannot stop the late one: its statements take no context.  So the   *)
(* attempts are actors of their own, beside the learner.                   *)
(*                                                                         *)
(* `safe', `owner', `held' and `unseen' are history variables.             *)
(***************************************************************************)
EXTENDS Integers, FiniteSets

CONSTANTS
    Learners,       \* bound: learner workflows that are ever started
    Tasks,          \* the tasks that sharks work on
    Workspaces,     \* the repositories of the projects
    workspace,      \* workspace[t]: where task t belongs
    Summaries,      \* what a lesson may say
    StoreAttempts,  \* RetryPolicy.MaximumAttempts of the storing (3)
    Circumstances   \* who acts, what may fail, which tasks end, and which
                    \* lessons the model finds

VARIABLES
    learner,   \* the learner workflows
    attempt,   \* the attempts at StoreLessonActivity of each learner
    tree,      \* per task: /tmp/chum-wt-learner-<task> and its branch
    lessons,   \* lessons[t][s]: rows of lessons for task t and summary s
    held,      \* held[t][s]: the most attempts that, at once, had looked
               \* for the lesson in vain and not yet inserted it
    unseen,    \* unseen[t][s]: look-ups of the lesson that failed
    safe,      \* learners whose worktree the running sweep has listed
    world      \* the circumstances of this behaviour, never changed

lessonVars == <<attempt, lessons, held, unseen>>

learnerVars == <<learner, tree, lessonVars>>

NoOne == 0

ASSUME LearnerAssumption ==
    /\ NoOne \notin Learners /\ IsFiniteSet(Learners) /\ Tasks # {}
    /\ workspace \in [Tasks -> Workspaces]
    /\ StoreAttempts \in Nat \ {0}
    /\ \A c \in Circumstances : c.lessons \subseteq Summaries

Attempts == Learners \X (1..StoreAttempts)

NoTree == [dir |-> FALSE, registered |-> FALSE, branch |-> FALSE,
           remote |-> FALSE, owner |-> NoOne]

NotSpawned == [pc |-> "none", task |-> CHOOSE t \in Tasks : TRUE,
               passed |-> FALSE, lessons |-> {}, tries |-> 1]

(* An attempt goes through the lessons that are still `todo'; the one it   *)
(* has looked for in vain is `fresh' until it is inserted.                 *)
NotRunning == [on |-> FALSE, task |-> CHOOSE t \in Tasks : TRUE,
               todo |-> {}, fresh |-> {}]

May(fault) == fault \in world.faults

LearnerInit ==
    /\ learner = [l \in Learners |-> NotSpawned]
    /\ attempt = [a \in Attempts |-> NotRunning]
    /\ tree = [t \in Tasks |-> NoTree]
    /\ lessons = [t \in Tasks |-> [s \in Summaries |-> 0]]
    /\ held = lessons /\ unseen = lessons

at(l, p) == learner[l].pc = p

active(l) == learner[l].pc \notin {"none", "done"}

(* The worktree of a learner, as the file system has it.                   *)
mine(l) == tree[learner[l].task]

goto(l, p) == learner' = [learner EXCEPT ![l].pc = p]

(* A learner has ended: nothing of its state is read any more.             *)
finish(l) == learner' = [learner EXCEPT ![l] = [NotSpawned EXCEPT !.pc = "done"]]

(* What an agent has written for learner l is saved below the worktree's   *)
(* path.  MkdirAll makes a directory that has been removed in the          *)
(* meantime, which git then does not know.                                 *)
save(l) ==
    tree' = [tree EXCEPT ![learner[l].task].dir = TRUE,
                         ![learner[l].task].registered = @ /\ mine(l).dir]

----------------------------------------------------------------------------
(* A shark of task t has ended and starts a learner.                       *)
spawn(l, t, ok) ==
    /\ at(l, "none") /\ t \in world.tasks
    /\ May("overlap") \/ \A k \in Learners : ~(active(k) /\ learner[k].task = t)
    /\ learner' = [learner EXCEPT ![l].pc = "setup", ![l].task = t,
                                  ![l].passed = ok]
    /\ UNCHANGED <<tree, lessonVars>>

spawnCHUMWorkflows(l, t) == spawn(l, t, TRUE)

spawnFailureLearner(l, t) == May("fail") /\ spawn(l, t, FALSE)

----------------------------------------------------------------------------
(* The worktree.                                                           *)

(* SetupWorktreeActivity: git forgets the worktree it has registered under *)
(* the path, drops the branch and adds both anew; the add fails when the   *)
(* path is taken by a directory git does not know of.                      *)
SetupWorktree(l) ==
    /\ at(l, "setup")
    /\ LET t == learner[l].task
           freed == ~tree[t].dir \/ tree[t].registered
       IN  \/ /\ freed
              /\ tree' = [tree EXCEPT ![t] =
                   [NoTree EXCEPT !.dir = TRUE, !.registered = TRUE,
                                  !.branch = TRUE, !.remote = tree[t].remote,
                                  !.owner = l]]
              /\ goto(l, "extract")
           \/ /\ ~freed \/ May("git")
              /\ tree' = [tree EXCEPT ![t] =
                   IF freed THEN [NoTree EXCEPT !.remote = tree[t].remote]
                            ELSE [tree[t] EXCEPT !.branch = FALSE]]
              /\ finish(l)
    /\ UNCHANGED lessonVars

(* CleanupWorktreeActivity, deferred: whoever the worktree belongs to now. *)
(* The branch is read in the worktree, so it stays when that is gone.  A   *)
(* failure is only logged.                                                 *)
CleanupWorktree(l) ==
    /\ at(l, "cleanup")
    /\ LET t == learner[l].task
           gone == tree[t].registered \/ ~tree[t].dir
           named == tree[t].registered /\ tree[t].dir
       IN  \/ tree' = [tree EXCEPT ![t] =
                [dir |-> ~gone, registered |-> FALSE,
                 branch |-> tree[t].branch /\ ~named,
                 remote |-> tree[t].remote /\ ~named,
                 owner |-> NoOne]]
           \/ May("git") /\ UNCHANGED tree
    /\ finish(l)
    /\ UNCHANGED lessonVars

(* The workflow is terminated or cancelled: the deferred cleanup does not  *)
(* run, or its activity is refused; what its attempts do goes on.          *)
Terminate(l) ==
    /\ May("stop") /\ active(l)
    /\ finish(l)
    /\ UNCHANGED <<tree, lessonVars>>

----------------------------------------------------------------------------
(* Lessons.                                                                *)

(* Attempt n of learner l begins at the start of the list S.               *)
begins(l, n, S) ==
    attempt' = [attempt EXCEPT ![<<l, n>>] =
                  [on |-> TRUE, task |-> learner[l].task, todo |-> S, fresh |-> {}]]

(* ExtractLessonsActivity: what the model answers, nothing when it fails   *)
(* or its JSON is beyond repair; an activity that times out twice ends the *)
(* learner.                                                                *)
ExtractLessons(l) ==
    /\ at(l, "extract")
    /\ \/ \E S \in SUBSET world.lessons \ {{}} :
            /\ mine(l).dir
            /\ learner' = [learner EXCEPT ![l].pc = "store", ![l].lessons = S]
            /\ begins(l, 1, S)
       \/ goto(l, "memory") /\ UNCHANGED attempt
       \/ May("llm") /\ goto(l, "cleanup") /\ UNCHANGED attempt
    /\ UNCHANGED <<tree, lessons, held, unseen>>

(* Mutant of isDuplicate: every lesson is new.                             *)
isNeverDuplicate(t, s) == FALSE

isDuplicate(t, s) == lessons[t][s] > 0

insert(t, s) == lessons' = [lessons EXCEPT ![t][s] = @ + 1]

(* The attempts between their look-up of a lesson and its insert.          *)
holders(t, s) == {a \in Attempts : attempt[a].task = t /\ s \in attempt[a].fresh}

(* StoreLessonActivity, one lesson of the list: the look-up.               *)
LookUpLesson(a, s) ==
    /\ s \in attempt[a].todo /\ attempt[a].fresh = {}
    /\ LET t == attempt[a].task
           n == Cardinality(holders(t, s)) + 1
       IN  /\ ~isDuplicate(t, s)
           /\ attempt' = [attempt EXCEPT ![a].fresh = {s}]
           /\ held' = [held EXCEPT ![t][s] = IF n > @ THEN n ELSE @]
    /\ UNCHANGED <<learner, tree, lessons, unseen>>

SkipDuplicate(a, s) ==
    /\ s \in attempt[a].todo /\ attempt[a].fresh = {}
    /\ isDuplicate(attempt[a].task, s)
    /\ attempt' = [attempt EXCEPT ![a].todo = @ \ {s}]
    /\ UNCHANGED <<learner, tree, lessons, held, unseen>>

(* A look-up that fails is logged, and finds no duplicate.                 *)
LookUpFails(a, s) ==
    /\ May("lookup")
    /\ s \in attempt[a].todo /\ attempt[a].fresh = {}
    /\ attempt' = [attempt EXCEPT ![a].fresh = {s}]
    /\ unseen' = [unseen EXCEPT ![attempt[a].task][s] = @ + 1]
    /\ UNCHANGED <<learner, tree, lessons, held>>

(* The insert, which comes later; one that fails is skipped.               *)
StoreLesson(a, s) ==
    /\ s \in attempt[a].fresh
    /\ \/ insert(attempt[a].task, s)
       \/ May("insert") /\ UNCHANGED lessons
    /\ attempt' = [attempt EXCEPT ![a].todo = @ \ {s}, ![a].fresh = {}]
    /\ UNCHANGED <<learner, tree, held, unseen>>

(* The activity returns, to a learner that waits for this attempt or to    *)
(* no one.                                                                 *)
LessonsStored(a) ==
    /\ attempt[a].on /\ attempt[a].todo = {}
    /\ attempt' = [attempt EXCEPT ![a] = NotRunning]
    /\ IF at(a[1], "store") /\ learner[a[1]].tries = a[2]
       THEN goto(a[1], "rules") ELSE UNCHANGED learner
    /\ UNCHANGED <<tree, lessons, held, unseen>>

AttemptStep(a) ==
    \/ \E s \in Summaries :
         \/ LookUpLesson(a, s) \/ SkipDuplicate(a, s) \/ LookUpFails(a, s)
         \/ StoreLesson(a, s)
    \/ LessonsStored(a)

(* The attempt has not answered within its 30 seconds, being slow or dead, *)
(* and the next one starts beside it; after the last the learner goes on.  *)
StoreTimesOut(l) ==
    /\ at(l, "store")
    /\ May("slow") \/ ~attempt[<<l, learner[l].tries>>].on
    /\ LET n == learner[l].tries + 1
       IN  \/ /\ n <= StoreAttempts
              /\ learner' = [learner EXCEPT ![l].tries = n]
              /\ begins(l, n, learner[l].lessons)
           \/ /\ n > StoreAttempts
              /\ goto(l, "rules") /\ UNCHANGED attempt
    /\ UNCHANGED <<tree, lessons, held, unseen>>

(* The worker dies, and every attempt with it.                             *)
WorkerDies ==
    /\ May("crash") /\ \E a \in Attempts : attempt[a].on
    /\ attempt' = [a \in Attempts |-> NotRunning]
    /\ UNCHANGED <<learner, tree, lessons, held, unseen>>

----------------------------------------------------------------------------
(* What is made of them.                                                   *)

(* GenerateSemgrepRuleActivity, for lessons that can be enforced: an agent *)
(* is started in the worktree.                                             *)
GenerateSemgrepRule(l) ==
    /\ at(l, "rules")
    /\ \E p \in {"writeRule", "memory"} :
         /\ p = "writeRule" => mine(l).dir
         /\ learner' = [learner EXCEPT ![l].pc = p, ![l].tries = 1, ![l].lessons = {}]
    /\ UNCHANGED <<tree, lessonVars>>

(* The rest of it: rules that pass their validation are kept.              *)
WriteRule(l) ==
    /\ at(l, "writeRule")
    /\ save(l) \/ UNCHANGED tree
    /\ goto(l, "memory")
    /\ UNCHANGED lessonVars

(* SynthesizeCLAUDEmdActivity writes a file if the worktree is there.      *)
SynthesizeMemory(l) ==
    /\ at(l, "memory")
    /\ goto(l, "calcify")
    /\ UNCHANGED <<tree, lessonVars>>

(* CalcifyPatternActivity: a type of task that has been solved often       *)
(* enough and has no script yet gets one, by an agent in the worktree.     *)
CalcifyPattern(l) ==
    /\ at(l, "calcify")
    /\ \E p \in {"writeScript", "commit"} :
         /\ p = "writeScript" => learner[l].passed /\ mine(l).dir
         /\ learner' = [learner EXCEPT ![l].passed = FALSE, ![l].pc = p]
    /\ UNCHANGED <<tree, lessonVars>>

(* The rest of it: the script is written, or the agent has none.           *)
WriteScript(l) ==
    /\ at(l, "writeScript")
    /\ save(l) \/ UNCHANGED tree
    /\ goto(l, "commit")
    /\ UNCHANGED lessonVars

(* CommitLearnerOutputsActivity: git add fails unless all three paths      *)
(* exist, and there may be nothing new.                                    *)
CommitLearnerOutputs(l) ==
    /\ at(l, "commit")
    /\ \/ mine(l).dir /\ mine(l).registered /\ goto(l, "push")
       \/ goto(l, "cleanup")
    /\ UNCHANGED <<tree, lessonVars>>

(* PushWorktreeActivity and MergeToMainActivity: the branch goes to the    *)
(* remote, where a pull request is opened for it.                          *)
Push(l) ==
    /\ at(l, "push")
    /\ \/ /\ mine(l).dir /\ mine(l).registered
          /\ tree' = [tree EXCEPT ![learner[l].task].remote = TRUE]
       \/ UNCHANGED tree
    /\ goto(l, "cleanup")
    /\ UNCHANGED lessonVars

LearnerStep(l) ==
    \/ SetupWorktree(l) \/ ExtractLessons(l) \/ StoreTimesOut(l)
    \/ GenerateSemgrepRule(l) \/ WriteRule(l) \/ SynthesizeMemory(l)
    \/ CalcifyPattern(l) \/ WriteScript(l) \/ CommitLearnerOutputs(l)
    \/ Push(l) \/ CleanupWorktree(l)

----------------------------------------------------------------------------
(* Properties.                                                             *)

(* StoreLessonActivity ("Idempotent: checks for duplicate task_id +        *)
(* summary before inserting") is started from the top of its list again    *)
(* and again, by retries and by later learners of the task, while late     *)
(* attempts go on: a lesson has as many rows as attempts were between      *)
(* their look-up of it and its insert at the same time, and one more for   *)
(* every look-up that failed.  So it is stored once as long as attempts    *)
(* come one by one and look-ups work.                                      *)
DuplicatesNeedARace ==
    \A t \in Tasks, s \in Summaries : lessons[t][s] <= held[t][s] + unseen[t][s]

=============================================================================
