---------------------------- MODULE UpkeepProofs ----------------------------
(***************************************************************************)
(* Theorems about Upkeep, for every finite set of learners, all tasks and  *)
(* workspaces and all circumstances: the janitor and the learners that     *)
(* share the worktrees, and the attempts that share the lessons.           *)
(***************************************************************************)
EXTENDS Upkeep, FiniteSetTheorems, TLAPS

Pcs ==
    {"none", "setup", "extract", "store", "rules", "writeRule", "memory",
     "calcify", "writeScript", "commit", "push", "cleanup", "done"}

Records ==
    [pc : Pcs, task : Tasks, passed : BOOLEAN, lessons : SUBSET Summaries,
     tries : Nat]

AttemptRecords ==
    [on : BOOLEAN, task : Tasks, todo : SUBSET Summaries,
     fresh : SUBSET Summaries]

Trees ==
    [dir : BOOLEAN, registered : BOOLEAN, branch : BOOLEAN, remote : BOOLEAN,
     owner : Learners \cup {NoOne}]

Sweeps ==
    [pc : {"rest", "list", "branches"}, todo : SUBSET Workspaces,
     worktrees : SUBSET Tasks, branches : SUBSET Tasks]

(* The domains of what learners, their attempts and sweeps share.          *)
TypeInv ==
    /\ learner \in [Learners -> Records]
    /\ attempt \in [Attempts -> AttemptRecords]
    /\ tree \in [Tasks -> Trees]
    /\ lessons \in [Tasks -> [Summaries -> Nat]]
    /\ held \in [Tasks -> [Summaries -> Nat]]
    /\ unseen \in [Tasks -> [Summaries -> Nat]]
    /\ sweep \in Sweeps
    /\ safe \subseteq Learners
    /\ world.lessons \subseteq Summaries

(* What a learner does once it is spawned.                                 *)
LearnerAct(l) == LearnerStep(l) \/ Terminate(l)

----------------------------------------------------------------------------
(* The effect of a learner's step on the learners: only it moves, away     *)
(* from its setup, and keeps its task until it has ended.                  *)
Moves(l) ==
    /\ active(l)
    /\ learner' \in [Learners -> Records]
    /\ \A k \in Learners \ {l} : learner'[k] = learner[k]
    /\ learner'[l].pc \notin {"none", "setup"}
    /\ learner'[l].pc # "done" => learner'[l].task = learner[l].task

(* A new record for one learner is such a move if it keeps the task.       *)
LEMMA OneLearnerMoves ==
    ASSUME TypeInv, NEW l \in Learners, active(l), NEW x \in Records,
           learner' = [learner EXCEPT ![l] = x],
           x.pc \notin {"none", "setup"},
           x.pc # "done" => x.task = learner[l].task
    PROVE  Moves(l)
  BY DEF TypeInv, Moves

(* The program counter is all that goto changes.                           *)
LEMMA GotoMoves ==
    ASSUME TypeInv, NEW l \in Learners, active(l),
           NEW p \in Pcs \ {"none", "setup"}, goto(l, p)
    PROVE  Moves(l)
<1> DEFINE x == [learner[l] EXCEPT !.pc = p]
<1>1. x \in Records /\ x.pc = p /\ x.task = learner[l].task
  BY DEF TypeInv, Records
<1>2. learner' = [learner EXCEPT ![l] = x]
  BY DEF goto, TypeInv
<1> HIDE DEF x
<1> QED
  BY <1>1, <1>2, OneLearnerMoves

(* So does a learner that ends.                                            *)
LEMMA FinishMoves ==
    ASSUME TypeInv, NEW l \in Learners, active(l), finish(l)
    PROVE  Moves(l)
<1> DEFINE x == [NotSpawned EXCEPT !.pc = "done"]
<1>1. x \in Records /\ x.pc = "done"
  BY LearnerAssumption DEF NotSpawned, Records, Pcs
<1>2. learner' = [learner EXCEPT ![l] = x]
  BY DEF finish
<1> HIDE DEF x
<1> QED
  BY <1>1, <1>2, OneLearnerMoves

(* Moves describes every step of a learner.                                *)
LEMMA LearnersMove ==
    ASSUME TypeInv, NEW l \in Learners, LearnerAct(l)
    PROVE  Moves(l)
<1>1. CASE SetupWorktree(l)
  <2>1. goto(l, "extract") \/ finish(l)
    BY <1>1 DEF SetupWorktree
  <2>2. active(l)
    BY <1>1 DEF SetupWorktree, TypeInv, at, active
  <2> QED
    BY <2>1, <2>2, GotoMoves, FinishMoves DEF Pcs
<1>2. CASE CleanupWorktree(l)
  BY <1>2, FinishMoves DEF CleanupWorktree, at, active
<1>3. CASE Terminate(l)
  BY <1>3, FinishMoves DEF Terminate
<1>4. CASE ExtractLessons(l)
  <2>1. active(l)
    BY <1>4 DEF ExtractLessons, at, active
  <2>2. CASE goto(l, "cleanup") \/ goto(l, "memory")
    BY <2>1, <2>2, GotoMoves DEF Pcs
  <2>3. ASSUME NEW S \in SUBSET world.lessons,
               learner' = [learner EXCEPT ![l].pc = "store", ![l].lessons = S]
        PROVE  Moves(l)
    <3> DEFINE x == [learner[l] EXCEPT !.pc = "store", !.lessons = S]
    <3>1. x \in Records /\ x.pc = "store" /\ x.task = learner[l].task
      BY <2>1 DEF TypeInv, Records, Pcs
    <3>2. learner' = [learner EXCEPT ![l] = x]
      BY <2>3 DEF TypeInv
    <3> HIDE DEF x
    <3> QED
      BY <2>1, <3>1, <3>2, OneLearnerMoves
  <2> QED
    BY <1>4, <2>2, <2>3 DEF ExtractLessons
<1>5. CASE StoreTimesOut(l)
  <2>0. active(l)
    BY <1>5 DEF StoreTimesOut, at, active
  <2>1. PICK n \in Nat : n = learner[l].tries + 1
    BY DEF TypeInv, Records
  <2> DEFINE x == [learner[l] EXCEPT !.tries = n]
  <2>2. x \in Records /\ x.pc = learner[l].pc /\ x.task = learner[l].task
    BY DEF TypeInv, Records
  <2>3. CASE goto(l, "rules")
    BY <2>0, <2>3, GotoMoves DEF Pcs
  <2>4. CASE learner' = [learner EXCEPT ![l] = x]
    <3>1. learner[l].pc = "store"
      BY <1>5 DEF StoreTimesOut, at
    <3> HIDE DEF x
    <3> QED
      BY <2>0, <2>2, <2>4, <3>1, OneLearnerMoves
  <2>5. goto(l, "rules") \/ learner' = [learner EXCEPT ![l] = x]
    BY <1>5, <2>1 DEF StoreTimesOut, TypeInv
  <2> QED
    BY <2>3, <2>4, <2>5
<1>9. CASE GenerateSemgrepRule(l)
  <2>1. PICK p \in {"writeRule", "memory"} :
          learner' = [learner EXCEPT ![l].pc = p, ![l].tries = 1, ![l].lessons = {}]
    BY <1>9 DEF GenerateSemgrepRule
  <2> DEFINE x == [learner[l] EXCEPT !.pc = p, !.tries = 1, !.lessons = {}]
  <2>2. x \in Records /\ x.pc = p /\ x.task = learner[l].task
    BY DEF TypeInv, Records, Pcs
  <2>3. learner' = [learner EXCEPT ![l] = x]
    BY <2>1 DEF TypeInv
  <2> HIDE DEF x
  <2> QED
    BY <1>9, <2>2, <2>3, OneLearnerMoves DEF GenerateSemgrepRule, at, active
<1>8. CASE WriteRule(l)
  <2>1. goto(l, "memory") /\ active(l)
    BY <1>8 DEF WriteRule, at, active
  <2> QED
    BY <2>1, GotoMoves DEF Pcs
<1>10. CASE SynthesizeMemory(l)
  <2>1. goto(l, "calcify")
    BY <1>10 DEF SynthesizeMemory
  <2>2. active(l)
    BY <1>10 DEF SynthesizeMemory, TypeInv, at, active
  <2> QED
    BY <2>1, <2>2, GotoMoves DEF Pcs
<1>11. CASE CalcifyPattern(l)
  <2>1. PICK p \in {"writeScript", "commit"} :
          learner' = [learner EXCEPT ![l].passed = FALSE, ![l].pc = p]
    BY <1>11 DEF CalcifyPattern
  <2> DEFINE x == [learner[l] EXCEPT !.passed = FALSE, !.pc = p]
  <2>2. /\ x \in Records /\ x.pc = p
        /\ x.task = learner[l].task
    BY <1>11 DEF CalcifyPattern, TypeInv, Records, Pcs, at
  <2>3. learner' = [learner EXCEPT ![l] = x]
    BY <2>1 DEF TypeInv
  <2> HIDE DEF x
  <2> QED
    BY <1>11, <2>2, <2>3, OneLearnerMoves DEF CalcifyPattern, at, active
<1>12. CASE WriteScript(l)
  <2>1. goto(l, "commit")
    BY <1>12 DEF WriteScript
  <2>2. active(l)
    BY <1>12 DEF WriteScript, TypeInv, at, active
  <2> QED
    BY <2>1, <2>2, GotoMoves DEF Pcs
<1>13. CASE CommitLearnerOutputs(l)
  <2>1. goto(l, "push") \/ goto(l, "cleanup")
    BY <1>13 DEF CommitLearnerOutputs
  <2>2. active(l)
    BY <1>13 DEF CommitLearnerOutputs, TypeInv, at, active
  <2> QED
    BY <2>1, <2>2, GotoMoves DEF Pcs
<1>14. CASE Push(l)
  <2>1. goto(l, "cleanup")
    BY <1>14 DEF Push
  <2>2. active(l)
    BY <1>14 DEF Push, TypeInv, at, active
  <2> QED
    BY <2>1, <2>2, GotoMoves DEF Pcs
<1> QED
  BY <1>1, <1>2, <1>3, <1>4, <1>5, <1>8, <1>9, <1>10,
     <1>11, <1>12, <1>13, <1>14
  DEF LearnerAct, LearnerStep

(* The effect of a learner's step on the worktrees: a directory stays as   *)
(* long as its owner does; a worktree is given up, or taken by its setup.  *)
TreesMove(l) ==
    /\ tree' \in [Tasks -> Trees]
    /\ \A t \in Tasks :
         \/ tree'[t].owner = tree[t].owner /\ (tree[t].dir => tree'[t].dir)
         \/ tree'[t].owner = NoOne
         \/ at(l, "setup") /\ tree'[t].owner = l

(* Worktrees that stay as they are.                                        *)
LEMMA TreesStay ==
    ASSUME TypeInv, NEW l \in Learners, UNCHANGED tree
    PROVE  TreesMove(l)
  BY DEF TypeInv, TreesMove

(* A change of one worktree that does one of the three.                    *)
LEMMA OneTreeMoves ==
    ASSUME TypeInv, NEW l \in Learners, NEW t \in Tasks, NEW x \in Trees,
           tree' = [tree EXCEPT ![t] = x],
           \/ x.owner = tree[t].owner /\ (tree[t].dir => x.dir)
           \/ x.owner = NoOne
           \/ at(l, "setup") /\ x.owner = l
    PROVE  TreesMove(l)
  BY DEF TypeInv, TreesMove

(* TreesMove describes every step of a learner.                            *)
LEMMA TreesAreMoved ==
    ASSUME TypeInv, NEW l \in Learners, LearnerAct(l)
    PROVE  TreesMove(l)
<1>1. CASE SetupWorktree(l)
  <2> DEFINE t == learner[l].task
             x == [NoTree EXCEPT !.dir = TRUE, !.registered = TRUE,
                     !.branch = TRUE, !.remote = tree[t].remote, !.owner = l]
             y == [NoTree EXCEPT !.remote = tree[t].remote]
             z == [tree[t] EXCEPT !.branch = FALSE]
  <2>1. t \in Tasks /\ tree[t] \in Trees
    BY DEF TypeInv, Records
  <2>2. x \in Trees /\ x.owner = l
    BY <2>1 DEF Trees, NoTree
  <2>3. y \in Trees /\ y.owner = NoOne
    BY <2>1 DEF Trees, NoTree
  <2>4. z \in Trees /\ z.owner = tree[t].owner /\ z.dir = tree[t].dir
    BY <2>1 DEF Trees
  <2>5. at(l, "setup") /\ \E v \in {x, y, z} : tree' = [tree EXCEPT ![t] = v]
    BY <1>1 DEF SetupWorktree
  <2> HIDE DEF t, x, y, z
  <2> QED
    BY <2>1, <2>2, <2>3, <2>4, <2>5, OneTreeMoves
<1>2. CASE CleanupWorktree(l)
  <2> DEFINE t == learner[l].task
             gone == tree[t].registered \/ ~tree[t].dir
             named == tree[t].registered /\ tree[t].dir
             x == [dir |-> ~gone, registered |-> FALSE,
                   branch |-> tree[t].branch /\ ~named,
                   remote |-> tree[t].remote /\ ~named,
                   owner |-> NoOne]
  <2>1. t \in Tasks /\ tree[t] \in Trees
    BY DEF TypeInv, Records
  <2>2. x \in Trees /\ x.owner = NoOne
    BY <2>1 DEF Trees
  <2>3. UNCHANGED tree \/ tree' = [tree EXCEPT ![t] = x]
    BY <1>2 DEF CleanupWorktree
  <2> HIDE DEF t, x
  <2> QED
    BY <2>1, <2>2, <2>3, OneTreeMoves, TreesStay
<1>3. CASE Terminate(l)
  BY <1>3, TreesStay DEF Terminate
<1>4. CASE ExtractLessons(l)
  BY <1>4, TreesStay DEF ExtractLessons
<1>5. CASE StoreTimesOut(l)
  BY <1>5, TreesStay DEF StoreTimesOut
<1>s. ASSUME save(l) \/ UNCHANGED tree PROVE TreesMove(l)
  <2> DEFINE t == learner[l].task
             x == [tree[t] EXCEPT !.dir = TRUE, !.registered = @ /\ mine(l).dir]
  <2>1. t \in Tasks /\ tree[t] \in Trees
    BY DEF TypeInv, Records
  <2>2. x \in Trees /\ x.owner = tree[t].owner /\ (tree[t].dir => x.dir)
    BY <2>1 DEF Trees, mine, TypeInv, Records
  <2>3. UNCHANGED tree \/ tree' = [tree EXCEPT ![t] = x]
    BY <1>s DEF save
  <2> HIDE DEF t, x
  <2> QED
    BY <2>1, <2>2, <2>3, OneTreeMoves, TreesStay
<1>8. CASE WriteRule(l)
  BY <1>8, <1>s DEF WriteRule
<1>9. CASE GenerateSemgrepRule(l)
  BY <1>9, TreesStay DEF GenerateSemgrepRule
<1>10. CASE SynthesizeMemory(l)
  BY <1>10, TreesStay DEF SynthesizeMemory
<1>11. CASE CalcifyPattern(l)
  BY <1>11, TreesStay DEF CalcifyPattern
<1>12. CASE WriteScript(l)
  BY <1>12, <1>s DEF WriteScript
<1>13. CASE CommitLearnerOutputs(l)
  BY <1>13, TreesStay DEF CommitLearnerOutputs
<1>14. CASE Push(l)
  <2> DEFINE t == learner[l].task
             x == [tree[t] EXCEPT !.remote = TRUE]
  <2>1. t \in Tasks /\ tree[t] \in Trees
    BY DEF TypeInv, Records
  <2>2. x \in Trees /\ x.owner = tree[t].owner /\ (tree[t].dir => x.dir)
    BY <2>1 DEF Trees
  <2>3. UNCHANGED tree \/ tree' = [tree EXCEPT ![t] = x]
    BY <1>14 DEF Push
  <2> HIDE DEF t, x
  <2> QED
    BY <2>1, <2>2, <2>3, OneTreeMoves, TreesStay
<1> QED
  BY <1>1, <1>2, <1>3, <1>4, <1>5, <1>8, <1>9, <1>10,
     <1>11, <1>12, <1>13, <1>14
  DEF LearnerAct, LearnerStep

(* An attempt leaves the worktrees alone, and moves its learner if at all. *)
LEMMA AttemptMoves ==
    ASSUME TypeInv, NEW a \in Attempts, AttemptStep(a)
    PROVE  /\ UNCHANGED tree /\ a[1] \in Learners
           /\ UNCHANGED learner \/ Moves(a[1])
<1>1. a[1] \in Learners
  BY DEF Attempts
<1>2. UNCHANGED tree
  BY DEF AttemptStep, LookUpLesson, SkipDuplicate, LookUpFails, StoreLesson,
         LessonsStored
<1>3. UNCHANGED learner \/ (active(a[1]) /\ goto(a[1], "rules"))
  BY DEF AttemptStep, LookUpLesson, SkipDuplicate, LookUpFails, StoreLesson,
         LessonsStored, at, active
<1> QED
  BY <1>1, <1>2, <1>3, GotoMoves DEF Pcs

(* The effect of a sweep's step on the worktrees: it gives none to anyone, *)
(* and takes directories only when it removes the orphans.                 *)
Sweeping ==
    /\ tree' \in [Tasks -> Trees]
    /\ sweep' \in Sweeps
    /\ safe' \subseteq Learners
    /\ UNCHANGED <<learner, lessonVars, world>>
    /\ \A t \in Tasks :
         /\ tree'[t].owner = tree[t].owner
         /\ tree[t].dir =>
              \/ tree'[t].dir
              \/ RemoveOrphans /\ t \notin sweep.worktrees
    /\ \A l \in safe' :
         \/ l \in safe /\ (sweep'.pc = "list" =>
                /\ sweep.pc = "list"
                /\ learner[l].task \in sweep.worktrees =>
                     learner[l].task \in sweep'.worktrees)
         \/ /\ active(l) /\ mine(l).owner = l /\ mine(l).dir
            /\ learner[l].task \in sweep'.worktrees

(* Sweeping describes every step of the janitor.                           *)
LEMMA JanitorSweeps ==
    ASSUME TypeInv, JanitorStep
    PROVE  Sweeping
<1>t. ASSUME NEW T PROVE
        /\ pruned(T) \in [Tasks -> Trees]
        /\ \A t \in Tasks : /\ pruned(T)[t].owner = tree[t].owner
                            /\ pruned(T)[t].dir = tree[t].dir
  <2>1. ASSUME NEW x \in Trees
        PROVE  /\ [x EXCEPT !.registered = FALSE] \in Trees
               /\ [x EXCEPT !.registered = FALSE].owner = x.owner
               /\ [x EXCEPT !.registered = FALSE].dir = x.dir
    BY DEF Trees
  <2> QED
    BY <2>1 DEF pruned, TypeInv
<1>r. Resting \in Sweeps /\ Resting.pc = "rest"
  BY DEF Resting, Sweeps
<1>1. CASE StartSweep
  <2>1. sweep' \in Sweeps
    BY <1>1 DEF StartSweep, Resting, Sweeps
  <2> QED
    BY <1>1, <2>1 DEF StartSweep, TypeInv, Sweeping, learnerVars
<1>2. ASSUME NEW w \in Workspaces, ListWorkspace(w) PROVE Sweeping
  <2> DEFINE listed == {t \in in(w) : tree[t].registered /\ tree[t].dir}
             skipped == [sweep EXCEPT !.todo = @ \ {w}]
             noted == [skipped EXCEPT !.worktrees = @ \cup listed,
                                      !.branches = @ \cup listed]
  <2>1. listed \subseteq Tasks
    BY DEF in
  <2>2. /\ skipped \in Sweeps /\ skipped.pc = sweep.pc
        /\ skipped.worktrees = sweep.worktrees
    BY DEF TypeInv, Sweeps
  <2>3. /\ noted \in Sweeps /\ noted.pc = sweep.pc
        /\ noted.worktrees = sweep.worktrees \cup listed
    BY <2>1, <2>2 DEF TypeInv, Sweeps
  <2>4. CASE /\ tree' = pruned(in(w)) /\ sweep' = noted
             /\ safe' = safe \cup {l \in Learners :
                                      active(l) /\ mine(l).owner = l
                                      /\ learner[l].task \in listed}
    <3>1. \A l \in safe' \ safe : mine(l).dir
      BY <2>4 DEF mine
    <3>2. UNCHANGED <<learner, lessonVars, world>> /\ sweep.pc = "list"
      BY <1>2 DEF ListWorkspace
    <3> HIDE DEF listed, skipped, noted
    <3> QED
      BY <1>t, <2>3, <2>4, <3>1, <3>2 DEF TypeInv, Sweeping
  <2>5. CASE sweep' = skipped /\ UNCHANGED <<tree, safe>>
    <3>1. UNCHANGED <<learner, lessonVars, world>> /\ sweep.pc = "list"
      BY <1>2 DEF ListWorkspace
    <3> HIDE DEF skipped
    <3> QED
      BY <2>2, <2>5, <3>1 DEF TypeInv, Sweeping
  <2> QED
    BY <1>2, <2>4, <2>5 DEF ListWorkspace, collected
<1>3. CASE RemoveOrphans
  <2>1. ASSUME NEW x \in Trees
        PROVE  /\ [x EXCEPT !.dir = FALSE] \in Trees
               /\ [x EXCEPT !.dir = FALSE].owner = x.owner
    BY DEF Trees
  <2>2. sweep' \in Sweeps /\ sweep'.pc = "branches"
    BY <1>3 DEF RemoveOrphans, TypeInv, Sweeps
  <2>3. /\ tree' \in [Tasks -> Trees]
        /\ \A t \in Tasks :
             /\ tree'[t].owner = tree[t].owner
             /\ tree[t].dir /\ t \in sweep.worktrees => tree'[t].dir
    BY <1>3, <2>1 DEF RemoveOrphans, TypeInv
  <2>4. UNCHANGED <<learner, lessonVars, world, safe>>
    BY <1>3 DEF RemoveOrphans
  <2> QED
    BY <1>3, <2>2, <2>3, <2>4 DEF TypeInv, Sweeping
<1>4. ASSUME NEW w \in Workspaces, DeleteBranches(w) PROVE Sweeping
  <2>1. ASSUME NEW x \in Trees
        PROVE  /\ [x EXCEPT !.branch = FALSE, !.remote = FALSE] \in Trees
               /\ [x EXCEPT !.branch = FALSE, !.remote = FALSE].owner = x.owner
               /\ [x EXCEPT !.branch = FALSE, !.remote = FALSE].dir = x.dir
    BY DEF Trees
  <2>2. sweep' \in Sweeps /\ sweep'.pc = "branches"
    BY <1>4 DEF DeleteBranches, TypeInv, Sweeps
  <2>3. /\ tree' \in [Tasks -> Trees]
        /\ \A t \in Tasks : /\ tree'[t].owner = tree[t].owner
                            /\ tree[t].dir => tree'[t].dir
    <3>1. CASE UNCHANGED tree
      BY <3>1 DEF TypeInv
    <3>2. CASE tree' = [t \in Tasks |->
            IF /\ t \in in(w) \ sweep.branches
               /\ tree[t].branch /\ ~tree[t].registered
            THEN [tree[t] EXCEPT !.branch = FALSE, !.remote = FALSE]
            ELSE tree[t]]
      BY <2>1, <3>2 DEF TypeInv
    <3> QED
      BY <1>4, <3>1, <3>2 DEF DeleteBranches
  <2>4. UNCHANGED <<learner, lessonVars, world, safe>>
    BY <1>4 DEF DeleteBranches
  <2> QED
    BY <2>2, <2>3, <2>4 DEF TypeInv, Sweeping
<1>5. CASE EndSweep
  BY <1>5, <1>t, <1>r DEF EndSweep, TypeInv, Sweeping
<1>6. CASE SweepDies
  BY <1>6, <1>r DEF SweepDies, TypeInv, Sweeping, learnerVars
<1> QED
  BY <1>1, <1>2, <1>3, <1>4, <1>5, <1>6 DEF JanitorStep

(* The attempts between look-up and insert after a step.                   *)
holdersNext(t, s) ==
    {a \in Attempts : attempt'[a].task = t /\ s \in attempt'[a].fresh}

(* What a step may do to one lesson of a task: nothing, or an attempt is   *)
(* through with it; an attempt finds it missing; one fails to look; or one *)
(* inserts it.                                                             *)
Settles(t, s) ==
    /\ holdersNext(t, s) \subseteq holders(t, s)
    /\ lessons'[t][s] = lessons[t][s]
    /\ held'[t][s] = held[t][s] /\ unseen'[t][s] = unseen[t][s]

Misses(t, s) ==
    /\ \E a \in Attempts : holdersNext(t, s) \subseteq holders(t, s) \cup {a}
    /\ lessons'[t][s] = 0 /\ unseen'[t][s] = unseen[t][s]
    /\ held'[t][s] >= Cardinality(holders(t, s)) + 1

Overlooks(t, s) ==
    /\ \E a \in Attempts : holdersNext(t, s) \subseteq holders(t, s) \cup {a}
    /\ lessons'[t][s] = lessons[t][s] /\ held'[t][s] = held[t][s]
    /\ unseen'[t][s] = unseen[t][s] + 1

Inserts(t, s) ==
    /\ \E a \in holders(t, s) : holdersNext(t, s) \subseteq holders(t, s) \ {a}
    /\ lessons'[t][s] = lessons[t][s] + 1
    /\ held'[t][s] = held[t][s] /\ unseen'[t][s] = unseen[t][s]

Counters == [Tasks -> [Summaries -> Nat]]

(* The effect of a step on attempts and lessons.                           *)
Storing ==
    /\ attempt' \in [Attempts -> AttemptRecords]
    /\ lessons' \in Counters /\ held' \in Counters /\ unseen' \in Counters
    /\ \A t \in Tasks, s \in Summaries :
         Settles(t, s) \/ Misses(t, s) \/ Overlooks(t, s) \/ Inserts(t, s)

(* Attempts that only drop what they held settle every lesson.             *)
LEMMA Dropping ==
    ASSUME TypeInv, attempt' \in [Attempts -> AttemptRecords],
           UNCHANGED <<lessons, held, unseen>>,
           \A a \in Attempts : attempt'[a].fresh = {} \/ attempt'[a] = attempt[a]
    PROVE  Storing
<1>1. \A t \in Tasks, s \in Summaries : holdersNext(t, s) \subseteq holders(t, s)
  BY DEF holdersNext, holders
<1> QED
  BY <1>1 DEF Storing, Settles, TypeInv, Counters

(* One attempt that drops what it held.                                    *)
LEMMA OneDrops ==
    ASSUME TypeInv, NEW a \in Attempts, NEW x \in AttemptRecords, x.fresh = {},
           attempt' = [attempt EXCEPT ![a] = x], UNCHANGED <<lessons, held, unseen>>
    PROVE  Storing
<1>1. /\ attempt' \in [Attempts -> AttemptRecords]
      /\ \A b \in Attempts : attempt'[b].fresh = {} \/ attempt'[b] = attempt[b]
  BY DEF TypeInv
<1> QED
  BY <1>1, Dropping

(* There are finitely many attempts.                                       *)
LEMMA FewHolders ==
    ASSUME NEW t, NEW s
    PROVE  /\ IsFiniteSet(holders(t, s)) /\ IsFiniteSet(holdersNext(t, s))
           /\ Cardinality(holders(t, s)) \in Nat
           /\ Cardinality(holdersNext(t, s)) \in Nat
<1>1. IsFiniteSet(1..StoreAttempts)
  BY LearnerAssumption, FS_Interval
<1>2. IsFiniteSet(Attempts)
  BY <1>1, LearnerAssumption, FS_Product DEF Attempts
<1>3. holders(t, s) \subseteq Attempts /\ holdersNext(t, s) \subseteq Attempts
  BY DEF holders, holdersNext
<1>4. IsFiniteSet(holders(t, s)) /\ IsFiniteSet(holdersNext(t, s))
  BY <1>2, <1>3, FS_Subset
<1> QED
  BY <1>4, FS_CardinalityType

(* Storing describes every step of an attempt.                             *)
LEMMA AttemptStores ==
    ASSUME TypeInv, NEW a \in Attempts, AttemptStep(a)
    PROVE  Storing
<1>0. /\ attempt[a] \in AttemptRecords /\ attempt[a].task \in Tasks
      /\ lessons \in Counters /\ held \in Counters /\ unseen \in Counters
  BY DEF TypeInv, AttemptRecords, Counters
<1>1. ASSUME NEW s \in Summaries, attempt[a].fresh = {},
             attempt' = [attempt EXCEPT ![a].fresh = {s}]
      PROVE  /\ attempt' \in [Attempts -> AttemptRecords]
             /\ holdersNext(attempt[a].task, s) \subseteq
                  holders(attempt[a].task, s) \cup {a}
             /\ \A t \in Tasks, v \in Summaries :
                  t # attempt[a].task \/ v # s =>
                    holdersNext(t, v) \subseteq holders(t, v)
  <2> DEFINE x == [attempt[a] EXCEPT !.fresh = {s}]
  <2>1. x \in AttemptRecords /\ x.task = attempt[a].task /\ x.fresh = {s}
    BY <1>0 DEF AttemptRecords
  <2>2. attempt' = [attempt EXCEPT ![a] = x]
    BY <1>1
  <2> HIDE DEF x
  <2>3. /\ attempt' \in [Attempts -> AttemptRecords] /\ attempt'[a] = x
        /\ \A b \in Attempts \ {a} : attempt'[b] = attempt[b]
    BY <2>1, <2>2 DEF TypeInv
  <2> QED
    BY <2>1, <2>3 DEF holders, holdersNext
<1>2. ASSUME NEW s \in Summaries, LookUpLesson(a, s) PROVE Storing
  <2> DEFINE t == attempt[a].task
             n == Cardinality(holders(t, s)) + 1
             m == IF n > held[t][s] THEN n ELSE held[t][s]
  <2>1. n \in Nat /\ held[t][s] \in Nat
    BY <1>0, FewHolders DEF Counters
  <2>2. m \in Nat /\ m >= n
    BY <2>1
  <2>3. held' = [held EXCEPT ![t][s] = m]
    BY <1>2 DEF LookUpLesson
  <2>4. lessons[t][s] = 0 /\ UNCHANGED <<lessons, unseen>>
    BY <1>0, <1>2 DEF LookUpLesson, isDuplicate, Counters
  <2>5. t \in Tasks
    BY <1>0
  <2>6. /\ attempt' \in [Attempts -> AttemptRecords]
        /\ holdersNext(t, s) \subseteq holders(t, s) \cup {a}
        /\ \A u \in Tasks, v \in Summaries :
             u # t \/ v # s => holdersNext(u, v) \subseteq holders(u, v)
    BY <1>1, <1>2 DEF LookUpLesson
  <2> HIDE DEF t, m
  <2>7. /\ held' \in Counters /\ held'[t][s] = m
        /\ \A u \in Tasks, v \in Summaries :
             u # t \/ v # s => held'[u][v] = held[u][v]
    <3>1. [held[t] EXCEPT ![s] = m] \in [Summaries -> Nat]
      BY <1>0, <2>2, <2>5 DEF Counters
    <3> QED
      BY <1>0, <2>2, <2>3, <2>5, <3>1 DEF Counters
  <2>8. Misses(t, s)
    BY <2>2, <2>4, <2>6, <2>7 DEF Misses
  <2>9. \A u \in Tasks, v \in Summaries : u # t \/ v # s => Settles(u, v)
    BY <2>4, <2>6, <2>7 DEF Settles
  <2> QED
    BY <1>0, <2>4, <2>6, <2>7, <2>8, <2>9 DEF Storing
<1>3. ASSUME NEW s \in Summaries, SkipDuplicate(a, s) PROVE Storing
  <2> DEFINE x == [attempt[a] EXCEPT !.todo = @ \ {s}]
  <2>1. x \in AttemptRecords /\ x.fresh = {}
    BY <1>0, <1>3 DEF SkipDuplicate, AttemptRecords
  <2>2. attempt' = [attempt EXCEPT ![a] = x] /\ UNCHANGED <<lessons, held, unseen>>
    BY <1>3 DEF SkipDuplicate
  <2> HIDE DEF x
  <2> QED
    BY <2>1, <2>2, OneDrops
<1>4. ASSUME NEW s \in Summaries, LookUpFails(a, s) PROVE Storing
  <2> DEFINE t == attempt[a].task
  <2>1. PICK n \in Nat : n = unseen[t][s] + 1
    BY <1>0 DEF Counters
  <2>2. unseen' = [unseen EXCEPT ![t][s] = n] /\ UNCHANGED <<lessons, held>>
    BY <1>4, <2>1 DEF LookUpFails
  <2>3. t \in Tasks
    BY <1>0
  <2>4. /\ attempt' \in [Attempts -> AttemptRecords]
        /\ holdersNext(t, s) \subseteq holders(t, s) \cup {a}
        /\ \A u \in Tasks, v \in Summaries :
             u # t \/ v # s => holdersNext(u, v) \subseteq holders(u, v)
    BY <1>1, <1>4 DEF LookUpFails
  <2> HIDE DEF t
  <2>5. /\ unseen' \in Counters /\ unseen'[t][s] = n
        /\ \A u \in Tasks, v \in Summaries :
             u # t \/ v # s => unseen'[u][v] = unseen[u][v]
    <3>1. [unseen[t] EXCEPT ![s] = n] \in [Summaries -> Nat]
      BY <1>0, <2>3 DEF Counters
    <3> QED
      BY <1>0, <2>2, <2>3, <3>1 DEF Counters
  <2>6. Overlooks(t, s)
    BY <2>1, <2>2, <2>4, <2>5 DEF Overlooks
  <2>7. \A u \in Tasks, v \in Summaries : u # t \/ v # s => Settles(u, v)
    BY <2>2, <2>4, <2>5 DEF Settles
  <2> QED
    BY <1>0, <2>2, <2>4, <2>5, <2>6, <2>7 DEF Storing
<1>5. ASSUME NEW s \in Summaries, StoreLesson(a, s) PROVE Storing
  <2> DEFINE t == attempt[a].task
             x == [attempt[a] EXCEPT !.todo = @ \ {s}, !.fresh = {}]
  <2>1. x \in AttemptRecords /\ x.fresh = {}
    BY <1>0 DEF AttemptRecords
  <2>2. attempt' = [attempt EXCEPT ![a] = x] /\ UNCHANGED <<held, unseen>>
    BY <1>5 DEF StoreLesson, TypeInv
  <2>3. CASE UNCHANGED lessons
    <3> HIDE DEF x
    <3> QED
      BY <2>1, <2>2, <2>3, OneDrops
  <2>4. CASE insert(t, s)
    <3>1. PICK n \in Nat : n = lessons[t][s] + 1
      BY <1>0 DEF Counters
    <3>2. lessons' = [lessons EXCEPT ![t][s] = n]
      BY <2>4, <3>1 DEF insert
    <3>3. t \in Tasks /\ a \in holders(t, s)
      BY <1>0, <1>5 DEF StoreLesson, holders
    <3> HIDE DEF t, x
    <3>4. /\ attempt' \in [Attempts -> AttemptRecords] /\ attempt'[a].fresh = {}
          /\ \A b \in Attempts \ {a} : attempt'[b] = attempt[b]
      BY <2>1, <2>2 DEF TypeInv
    <3>5. \A u \in Tasks, v \in Summaries :
            holdersNext(u, v) \subseteq holders(u, v) \ {a}
      BY <3>4 DEF holders, holdersNext
    <3>6. /\ lessons' \in Counters /\ lessons'[t][s] = n
          /\ \A u \in Tasks, v \in Summaries :
               u # t \/ v # s => lessons'[u][v] = lessons[u][v]
      <4>1. [lessons[t] EXCEPT ![s] = n] \in [Summaries -> Nat]
        BY <1>0, <3>3 DEF Counters
      <4> QED
        BY <1>0, <3>2, <3>3, <4>1 DEF Counters
    <3>7. Inserts(t, s)
      BY <2>2, <3>1, <3>3, <3>5, <3>6 DEF Inserts
    <3>8. \A u \in Tasks, v \in Summaries : u # t \/ v # s => Settles(u, v)
      BY <2>2, <3>5, <3>6 DEF Settles
    <3> QED
      BY <1>0, <2>2, <3>4, <3>6, <3>7, <3>8 DEF Storing
  <2> QED
    BY <1>5, <2>3, <2>4 DEF StoreLesson
<1>6. CASE LessonsStored(a)
  <2>1. NotRunning \in AttemptRecords /\ NotRunning.fresh = {}
    BY LearnerAssumption DEF NotRunning, AttemptRecords
  <2> QED
    BY <1>6, <2>1, OneDrops DEF LessonsStored
<1> QED
  BY <1>2, <1>3, <1>4, <1>5, <1>6 DEF AttemptStep

(* Storing describes what learners and the worker do to the attempts.      *)
LEMMA OthersStore ==
    ASSUME TypeInv,
           \/ \E l \in Learners : LearnerAct(l)
           \/ WorkerDies \/ UNCHANGED lessonVars
    PROVE  Storing
<1>0. NotRunning \in AttemptRecords /\ NotRunning.fresh = {}
  BY LearnerAssumption DEF NotRunning, AttemptRecords
<1>1. CASE UNCHANGED lessonVars
  BY <1>1, Dropping DEF lessonVars, TypeInv
<1>2. CASE WorkerDies
  BY <1>0, <1>2, Dropping DEF WorkerDies
<1>3. ASSUME NEW l \in Learners, LearnerAct(l) PROVE Storing
  <2>1. ASSUME NEW n \in 1..StoreAttempts, NEW S \in SUBSET Summaries,
               begins(l, n, S), UNCHANGED <<lessons, held, unseen>>
        PROVE  Storing
    <3> DEFINE x == [on |-> TRUE, task |-> learner[l].task, todo |-> S, fresh |-> {}]
    <3>1. x \in AttemptRecords /\ x.fresh = {}
      BY DEF TypeInv, Records, AttemptRecords
    <3>2. PICK a \in Attempts : a = <<l, n>>
      BY DEF Attempts
    <3>3. attempt' = [attempt EXCEPT ![a] = x]
      BY <2>1, <3>2 DEF begins
    <3> HIDE DEF x
    <3> QED
      BY <2>1, <3>1, <3>3, OneDrops
  <2>2. CASE ExtractLessons(l)
    <3>1. UNCHANGED <<lessons, held, unseen>> /\ 1 \in 1..StoreAttempts
      BY <2>2, LearnerAssumption DEF ExtractLessons
    <3>2. UNCHANGED attempt \/ \E S \in SUBSET Summaries : begins(l, 1, S)
      BY <2>2 DEF ExtractLessons, TypeInv
    <3> QED
      BY <1>1, <2>1, <3>1, <3>2 DEF lessonVars
  <2>3. CASE StoreTimesOut(l)
    <3>1. UNCHANGED <<lessons, held, unseen>> /\ learner[l].lessons \in SUBSET Summaries
      BY <2>3 DEF StoreTimesOut, TypeInv, Records
    <3>n. PICK n \in Nat : n = learner[l].tries + 1
      BY DEF TypeInv, Records
    <3>2. UNCHANGED attempt \/ (n \in 1..StoreAttempts /\ begins(l, n, learner[l].lessons))
      <4>1. n >= 1
        BY <3>n DEF TypeInv, Records
      <4>2. \/ UNCHANGED attempt
            \/ n <= StoreAttempts /\ begins(l, n, learner[l].lessons)
        BY <2>3, <3>n DEF StoreTimesOut
      <4> QED
        BY <4>1, <4>2, LearnerAssumption
    <3> QED
      BY <1>1, <2>1, <3>1, <3>2 DEF lessonVars
  <2>4. CASE ~ExtractLessons(l) /\ ~StoreTimesOut(l)
    <3>1. UNCHANGED lessonVars
      BY <1>3, <2>4
      DEF LearnerAct, LearnerStep, SetupWorktree, CleanupWorktree, Terminate,
          GenerateSemgrepRule, WriteRule, SynthesizeMemory, CalcifyPattern,
          WriteScript, CommitLearnerOutputs, Push
    <3> QED
      BY <1>1, <3>1
  <2> QED
    BY <2>2, <2>3, <2>4
<1> QED
  BY <1>1, <1>2, <1>3

(* A step of the part that learners, attempts and the worker are.          *)
Works ==
    \/ \E l \in Learners : LearnerAct(l)
    \/ \E a \in Attempts : AttemptStep(a)
    \/ WorkerDies

(* Every step is one of these.                                             *)
LEMMA StepKinds ==
    ASSUME [Next]_vars
    PROVE  \/ UNCHANGED <<learner, tree, lessonVars, sweep, safe, world>>
           \/ Works /\ UNCHANGED <<sweep, safe, world>>
           \/ \E l \in Learners, t \in Tasks, ok \in BOOLEAN :
                spawn(l, t, ok) /\ UNCHANGED <<sweep, safe, world>>
           \/ JanitorStep
  BY DEF vars, learnerVars, Next, Learning, Reviewing, LearnerAct, Works,
         spawnCHUMWorkflows, spawnFailureLearner

(* Whoever works, at most one learner moves, and only it moves a worktree. *)
LEMMA WorkMoves ==
    ASSUME TypeInv, Works
    PROVE  \/ UNCHANGED <<learner, tree>>
           \/ \E l \in Learners : Moves(l) /\ TreesMove(l)
<1>1. ASSUME NEW l \in Learners, LearnerAct(l) PROVE Moves(l) /\ TreesMove(l)
  BY <1>1, LearnersMove, TreesAreMoved
<1>2. ASSUME NEW a \in Attempts, AttemptStep(a)
      PROVE  \/ UNCHANGED <<learner, tree>>
             \/ \E l \in Learners : Moves(l) /\ TreesMove(l)
  BY <1>2, AttemptMoves, TreesStay
<1>3. WorkerDies => UNCHANGED <<learner, tree>>
  BY DEF WorkerDies
<1> QED
  BY <1>1, <1>2, <1>3 DEF Works

(* Storing describes every step there is.                                  *)
LEMMA StepStores ==
    ASSUME TypeInv, [Next]_vars
    PROVE  Storing
<1>1. ASSUME NEW l \in Learners, NEW t \in Tasks, NEW ok \in BOOLEAN, spawn(l, t, ok)
      PROVE  UNCHANGED lessonVars
  BY <1>1 DEF spawn
<1>2. JanitorStep => UNCHANGED lessonVars
  BY JanitorSweeps DEF Sweeping
<1>3. UNCHANGED <<learner, tree, lessonVars, sweep, safe, world>> => UNCHANGED lessonVars
  OBVIOUS
<1> QED
  BY <1>1, <1>2, <1>3, StepKinds, AttemptStores, OthersStore DEF Works

(* A learner that is spawned has its task and nothing else yet.            *)
LEMMA SpawnEffect ==
    ASSUME TypeInv, NEW l \in Learners, NEW t \in Tasks, NEW ok \in BOOLEAN,
           spawn(l, t, ok)
    PROVE  /\ learner' \in [Learners -> Records]
           /\ \A k \in Learners \ {l} : learner'[k] = learner[k]
           /\ at(l, "none") /\ learner'[l].pc = "setup"
           /\ learner'[l].task = t
           /\ UNCHANGED <<tree, lessonVars>>
<1> DEFINE x == [learner[l] EXCEPT !.pc = "setup", !.task = t, !.passed = ok]
<1>1. at(l, "none")
  BY DEF spawn
<1>2. x \in Records /\ x.pc = "setup" /\ x.task = t
  BY <1>1 DEF TypeInv, Records, Pcs, at
<1>3. learner' = [learner EXCEPT ![l] = x] /\ UNCHANGED <<tree, lessonVars>>
  BY DEF spawn, TypeInv
<1> HIDE DEF x
<1> QED
  BY <1>1, <1>2, <1>3 DEF TypeInv

(* TypeInv is inductive.                                                   *)
LEMMA TypeInvInductive ==
    /\ Init => TypeInv
    /\ TypeInv /\ [Next]_vars => TypeInv'
<1>1. ASSUME Init PROVE TypeInv
  <2>1. NotSpawned \in Records /\ NotRunning \in AttemptRecords
    BY LearnerAssumption DEF NotSpawned, Records, Pcs, NotRunning, AttemptRecords
  <2>2. NoTree \in Trees
    BY DEF NoTree, Trees
  <2>3. Resting \in Sweeps
    BY DEF Resting, Sweeps
  <2>4. world.lessons \subseteq Summaries
    BY <1>1, LearnerAssumption DEF Init
  <2> QED
    BY <1>1, <2>1, <2>2, <2>3, <2>4 DEF Init, LearnerInit, TypeInv
<1>2. ASSUME TypeInv, [Next]_vars PROVE TypeInv'
  <2>0. /\ attempt' \in [Attempts -> AttemptRecords]
        /\ lessons' \in [Tasks -> [Summaries -> Nat]]
        /\ held' \in [Tasks -> [Summaries -> Nat]]
        /\ unseen' \in [Tasks -> [Summaries -> Nat]]
    BY <1>2, StepStores DEF Storing, Counters
  <2>1. CASE UNCHANGED <<learner, tree, lessonVars, sweep, safe, world>>
    BY <1>2, <2>0, <2>1 DEF TypeInv
  <2>2. CASE Works /\ UNCHANGED <<sweep, safe, world>>
    BY <1>2, <2>0, <2>2, WorkMoves DEF TypeInv, Moves, TreesMove
  <2>3. ASSUME NEW l \in Learners, NEW t \in Tasks, NEW ok \in BOOLEAN,
               spawn(l, t, ok), UNCHANGED <<sweep, safe, world>>
        PROVE  TypeInv'
    BY <1>2, <2>0, <2>3, SpawnEffect DEF TypeInv
  <2>4. CASE JanitorStep
    BY <1>2, <2>0, <2>4, JanitorSweeps DEF TypeInv, Sweeping
  <2> QED
    BY <1>2, <2>1, <2>2, <2>3, <2>4, StepKinds
<1> QED
  BY <1>1, <1>2

----------------------------------------------------------------------------
(* A learner that has not set up its worktree owns none; one that a sweep  *)
(* spares is past that point, and as long as it owns its worktree this is  *)
(* there and, until the orphans are removed, on the sweep's list.          *)
SpareInv ==
    /\ \A l \in Learners, t \in Tasks :
         at(l, "none") \/ at(l, "setup") => tree[t].owner # l
    /\ \A l \in safe :
         /\ ~at(l, "none") /\ ~at(l, "setup")
         /\ active(l) /\ mine(l).owner = l =>
              /\ mine(l).dir
              /\ sweep.pc = "list" => learner[l].task \in sweep.worktrees

(* SpareInv is inductive: a directory goes only together with its owner,   *)
(* or as an orphan, and what was listed before is still on the list.       *)
LEMMA SpareInvInductive ==
    /\ Init => SpareInv
    /\ TypeInv /\ SpareInv /\ [Next]_vars => SpareInv'
<1> USE LearnerAssumption
<1>1. Init => SpareInv
  BY DEF Init, LearnerInit, SpareInv, NoTree
<1>2. ASSUME TypeInv, SpareInv, [Next]_vars PROVE SpareInv'
  <2>a. \A l \in Learners : learner[l].task \in Tasks
    BY <1>2 DEF TypeInv, Records
  <2>b. \A l \in Learners : learner'[l].task \in Tasks
    BY <1>2, TypeInvInductive DEF TypeInv, Records
  <2>1. CASE UNCHANGED <<learner, tree, sweep, safe, world>>
    BY <1>2, <2>1 DEF SpareInv, at, active, mine
  <2>2. ASSUME NEW l \in Learners, Moves(l), TreesMove(l),
               UNCHANGED <<sweep, safe, world>>
        PROVE  SpareInv'
    <3>1. Moves(l) /\ TreesMove(l)
      BY <2>2
    <3>2. ASSUME NEW k \in Learners, learner'[k].pc \in {"none", "setup"},
                 NEW t \in Tasks
          PROVE  tree'[t].owner # k
      <4>1. k # l /\ learner'[k] = learner[k]
        BY <3>1, <3>2 DEF Moves
      <4>2. tree[t].owner # k
        BY <1>2, <3>2, <4>1 DEF SpareInv, at
      <4> QED
        BY <3>1, <4>1, <4>2 DEF TreesMove
    <3>3. ASSUME NEW k \in safe
          PROVE  /\ learner'[k].pc \notin {"none", "setup"}
                 /\ (/\ learner'[k].pc # "done"
                     /\ tree'[learner'[k].task].owner = k) =>
                      /\ tree'[learner'[k].task].dir
                      /\ sweep.pc = "list" =>
                           learner'[k].task \in sweep.worktrees
      <4>1. k \in Learners /\ learner[k].pc \notin {"none", "setup"}
        BY <1>2, <3>3 DEF TypeInv, SpareInv, at
      <4>2. learner'[k].pc \notin {"none", "setup"}
        BY <3>1, <4>1 DEF Moves
      <4>3. ASSUME learner'[k].pc # "done", tree'[learner'[k].task].owner = k
            PROVE  /\ tree'[learner'[k].task].dir
                   /\ sweep.pc = "list" => learner'[k].task \in sweep.worktrees
        <5>1. active(k) /\ learner'[k].task = learner[k].task
          BY <3>1, <4>1, <4>2, <4>3 DEF Moves, active
        <5>2. /\ tree[learner[k].task].owner = k
              /\ tree[learner[k].task].dir => tree'[learner[k].task].dir
          BY <2>a, <3>1, <4>1, <4>3, <5>1 DEF TreesMove, at
        <5> QED
          BY <1>2, <3>3, <5>1, <5>2 DEF SpareInv, mine
      <4> QED
        BY <4>2, <4>3
    <3> QED
      BY <2>2, <3>2, <3>3 DEF SpareInv, at, active, mine
  <2>3. ASSUME NEW l \in Learners, NEW t \in Tasks, NEW ok \in BOOLEAN,
               spawn(l, t, ok), UNCHANGED <<sweep, safe, world>>
        PROVE  SpareInv'
    <3>1. /\ \A k \in Learners \ {l} : learner'[k] = learner[k]
          /\ at(l, "none") /\ UNCHANGED tree
      BY <1>2, <2>3, SpawnEffect
    <3>2. \A k \in Learners, u \in Tasks :
            learner'[k].pc \in {"none", "setup"} => tree'[u].owner # k
      BY <1>2, <3>1 DEF SpareInv, at
    <3>3. \A k \in safe : learner'[k] = learner[k] /\ k \in Learners
      BY <1>2, <3>1 DEF TypeInv, SpareInv, at
    <3> QED
      BY <1>2, <2>3, <3>1, <3>2, <3>3 DEF SpareInv, at, active, mine
  <2>4. CASE JanitorStep
    <3>1. Sweeping
      BY <1>2, <2>4, JanitorSweeps
    <3>2. RemoveOrphans => sweep.pc = "list"
      BY DEF RemoveOrphans
    <3>3. \A k \in Learners, t \in Tasks :
            learner'[k].pc \in {"none", "setup"} => tree'[t].owner # k
      BY <1>2, <3>1 DEF SpareInv, Sweeping, at
    <3>4. ASSUME NEW k \in safe', k \in safe,
                 sweep'.pc = "list" =>
                   /\ sweep.pc = "list"
                   /\ learner[k].task \in sweep.worktrees =>
                        learner[k].task \in sweep'.worktrees
          PROVE  /\ learner[k].pc \notin {"none", "setup"}
                 /\ (active(k) /\ tree'[learner[k].task].owner = k) =>
                      /\ tree'[learner[k].task].dir
                      /\ sweep'.pc = "list" =>
                           learner[k].task \in sweep'.worktrees
      <4>1. k \in Learners /\ learner[k].task \in Tasks
        BY <1>2, <2>a, <3>4 DEF TypeInv
      <4>2. /\ tree'[learner[k].task].owner = tree[learner[k].task].owner
            /\ tree[learner[k].task].dir =>
                 \/ tree'[learner[k].task].dir
                 \/ RemoveOrphans /\ learner[k].task \notin sweep.worktrees
        BY <3>1, <4>1 DEF Sweeping
      <4> QED
        BY <1>2, <3>2, <3>4, <4>2 DEF SpareInv, at, mine
    <3>5. ASSUME NEW k \in safe', active(k), mine(k).owner = k, mine(k).dir,
                 learner[k].task \in sweep'.worktrees
          PROVE  /\ learner[k].pc \notin {"none", "setup"}
                 /\ (active(k) /\ tree'[learner[k].task].owner = k) =>
                      /\ tree'[learner[k].task].dir
                      /\ sweep'.pc = "list" =>
                           learner[k].task \in sweep'.worktrees
      <4>1. k \in Learners /\ learner[k].task \in Tasks
        BY <2>a, <3>1, <3>5 DEF Sweeping
      <4>2. learner[k].pc \notin {"none", "setup"}
        BY <1>2, <3>5, <4>1 DEF SpareInv, at, mine
      <4>3. CASE RemoveOrphans
        BY <1>2, <3>1, <3>5, <4>1, <4>2, <4>3
        DEF RemoveOrphans, SpareInv, Sweeping, at, mine
      <4>4. CASE ~RemoveOrphans
        BY <3>1, <3>5, <4>1, <4>2, <4>4 DEF Sweeping, mine
      <4> QED
        BY <4>3, <4>4
    <3>6. \A k \in safe' :
            /\ learner'[k].pc \notin {"none", "setup"}
            /\ (/\ learner'[k].pc \notin {"none", "done"}
                /\ tree'[learner'[k].task].owner = k) =>
                 /\ tree'[learner'[k].task].dir
                 /\ sweep'.pc = "list" => learner'[k].task \in sweep'.worktrees
      BY <3>1, <3>4, <3>5 DEF Sweeping, active
    <3> QED
      BY <3>3, <3>6 DEF SpareInv, at, active, mine
  <2>5. CASE Works /\ UNCHANGED <<sweep, safe, world>>
    BY <1>2, <2>1, <2>2, <2>5, WorkMoves
  <2> QED
    BY <1>2, <2>1, <2>3, <2>4, <2>5, StepKinds
<1> QED
  BY <1>1, <1>2

(* However the workspaces are listed, whichever of them cannot be, and     *)
(* whoever sets up, cleans up or is terminated during a sweep, it takes no *)
(* worktree away from a learner that had it when it was listed.            *)
THEOREM SparesTheLiving == Spec => []SweepSparesTheLiving
<1>1. SpareInv => SweepSparesTheLiving
  BY DEF SpareInv, SweepSparesTheLiving
<1> QED
  BY <1>1, TypeInvInductive, SpareInvInductive, PTL DEF Spec

----------------------------------------------------------------------------
(* The rows of a lesson, and those that are still to come from attempts    *)
(* that have looked for it, are accounted for.                             *)
StoreInv ==
    \A t \in Tasks, s \in Summaries :
        lessons[t][s] + Cardinality(holders(t, s)) <= held[t][s] + unseen[t][s]

(* StoreInv is inductive: once there is a row, only a look-up that fails   *)
(* adds an attempt that will insert another.                               *)
LEMMA StoreInvInductive ==
    /\ Init => StoreInv
    /\ TypeInv /\ StoreInv /\ [Next]_vars => StoreInv'
<1>1. ASSUME Init PROVE StoreInv
  <2>1. NotRunning.fresh = {}
    BY DEF NotRunning
  <2>2. \A t \in Tasks, s \in Summaries : holders(t, s) = {}
    BY <1>1, <2>1 DEF Init, LearnerInit, holders
  <2>3. \A t \in Tasks, s \in Summaries :
          lessons[t][s] = 0 /\ held[t][s] = 0 /\ unseen[t][s] = 0
    BY <1>1 DEF Init, LearnerInit
  <2> QED
    BY <2>2, <2>3, FS_EmptySet DEF StoreInv
<1>2. ASSUME TypeInv, StoreInv, [Next]_vars PROVE StoreInv'
  <2> SUFFICES ASSUME NEW t \in Tasks, NEW s \in Summaries
               PROVE  lessons'[t][s] + Cardinality(holdersNext(t, s)) <=
                        held'[t][s] + unseen'[t][s]
    BY DEF StoreInv, holders, holdersNext
  <2> DEFINE H == holders(t, s)
             h == Cardinality(H)
             n == Cardinality(holdersNext(t, s))
  <2>1. IsFiniteSet(H) /\ h \in Nat /\ n \in Nat
    BY FewHolders
  <2>2. /\ lessons[t][s] \in Nat /\ held[t][s] \in Nat /\ unseen[t][s] \in Nat
        /\ lessons[t][s] + h <= held[t][s] + unseen[t][s]
    BY <1>2 DEF TypeInv, StoreInv
  <2>3. /\ Settles(t, s) \/ Misses(t, s) \/ Overlooks(t, s) \/ Inserts(t, s)
        /\ lessons'[t][s] \in Nat /\ held'[t][s] \in Nat /\ unseen'[t][s] \in Nat
    BY <1>2, StepStores DEF Storing, Counters
  <2>4. CASE Settles(t, s)
    <3>1. n <= h
      BY <2>1, <2>4, FS_Subset DEF Settles
    <3> QED
      BY <2>1, <2>2, <2>4, <3>1 DEF Settles
  <2>5. ASSUME NEW a \in Attempts, holdersNext(t, s) \subseteq H \cup {a}
        PROVE  n <= h + 1
    <3>0. /\ IsFiniteSet(H \cup {a})
          /\ Cardinality(H \cup {a}) = IF a \in H THEN h ELSE h + 1
      BY <2>1, FS_AddElement
    <3>1. IsFiniteSet(H \cup {a}) /\ Cardinality(H \cup {a}) <= h + 1
      <4> HIDE DEF H, h
      <4> QED
        BY <2>1, <3>0
    <3>2. n <= Cardinality(H \cup {a}) /\ Cardinality(H \cup {a}) \in Nat
      BY <2>5, <3>1, FS_Subset, FS_CardinalityType
    <3> QED
      BY <2>1, <3>1, <3>2
  <2>6. CASE Misses(t, s)
    <3>1. n <= h + 1
      BY <2>5, <2>6 DEF Misses
    <3> QED
      BY <2>1, <2>3, <2>6, <3>1 DEF Misses
  <2>7. CASE Overlooks(t, s)
    <3>1. n <= h + 1
      BY <2>5, <2>7 DEF Overlooks
    <3> QED
      BY <2>1, <2>2, <2>7, <3>1 DEF Overlooks
  <2>8. CASE Inserts(t, s)
    <3>1. PICK a \in H : holdersNext(t, s) \subseteq H \ {a}
      BY <2>8 DEF Inserts
    <3>2. IsFiniteSet(H \ {a}) /\ Cardinality(H \ {a}) = h - 1
      BY <2>1, <3>1, FS_RemoveElement
    <3>3. n <= h - 1
      BY <3>1, <3>2, FS_Subset
    <3> QED
      BY <2>1, <2>2, <2>8, <3>3 DEF Inserts
  <2> QED
    BY <2>3, <2>4, <2>6, <2>7, <2>8
<1> QED
  BY <1>1, <1>2

(* However often the storing is begun again, by however many learners, and *)
(* whichever late attempts go on: a row of a lesson beyond the first takes *)
(* a look-up that failed, or attempts that looked before either inserted.  *)
THEOREM NoOtherDuplicates == Spec => []DuplicatesNeedARace
<1>1. TypeInv /\ StoreInv => DuplicatesNeedARace
  <2> SUFFICES ASSUME TypeInv, StoreInv, NEW t \in Tasks, NEW s \in Summaries
               PROVE  lessons[t][s] <= held[t][s] + unseen[t][s]
    BY DEF DuplicatesNeedARace
  <2>1. /\ lessons[t][s] \in Nat /\ held[t][s] \in Nat /\ unseen[t][s] \in Nat
        /\ Cardinality(holders(t, s)) \in Nat
    BY FewHolders DEF TypeInv
  <2>2. lessons[t][s] + Cardinality(holders(t, s)) <= held[t][s] + unseen[t][s]
    BY DEF StoreInv
  <2> QED
    BY <2>1, <2>2
<1> QED
  BY <1>1, TypeInvInductive, StoreInvInductive, PTL DEF Spec

=============================================================================
