---------------------------- MODULE SharkProofs ----------------------------
(***************************************************************************)
(* Theorems about Shark, for every set of runs, tiers, infrastructure      *)
(* reasons and faults, and about ResumeGate, the gates between the phases  *)
(* of a run, for any number of gates and of signals.                       *)
(***************************************************************************)
EXTENDS Shark, ResumeGate, FiniteSetTheorems, TLAPS

(* The number of attempts of a tier is a natural number.                   *)
LEMMA RetriesType == \A t \in TierNames : retriesForTier(t) \in Nat
  BY ConstantsAssumption DEF retriesForTier, TierNames

(* The tiers of the circumstances are tiers.                               *)
LEMMA TiersType == TypeOK => Tiers \subseteq TierNames
  BY ConstantsAssumption DEF TypeOK, Tiers

(* TypeOK is inductive.                                                    *)
LEMMA TypeInvInductive ==
    /\ Init => TypeOK
    /\ TypeOK /\ [Next]_vars => TypeOK'
<1>1. Init => TypeOK
  <2> SUFFICES ASSUME Init PROVE TypeOK
    OBVIOUS
  <2>1. stray \in BOOLEAN /\ prOpen \in BOOLEAN /\ ungated \in BOOLEAN
        /\ errorLog \in BOOLEAN
    BY Zenon DEF Init
  <2> QED
    BY <2>1 DEF Init, TypeOK, Phases, TierNames
<1>2. TypeOK /\ [Next]_vars => TypeOK'
  <2> SUFFICES ASSUME TypeOK, [Next]_vars
               PROVE  TypeOK'
    OBVIOUS
  <2> USE ConstantsAssumption
      DEF TypeOK, Phases, Goto, vars, given, taskVars, treeVars, remoteVars, loopVars
  <2>1. CASE UNCHANGED vars
    BY <2>1
  <2>2. ASSUME NEW r \in Runs, NEW t \in Tiers, Dispatch(r, t) PROVE TypeOK'
    BY <2>2, TiersType DEF Dispatch, Begin
  <2>3. ASSUME NEW r \in Runs, handleWorkflowStart(r) PROVE TypeOK'
    BY <2>3 DEF handleWorkflowStart, Begin
  <2>4. ASSUME NEW r \in Runs, SetupWorktree(r) PROVE TypeOK'
    BY <2>4 DEF SetupWorktree
  <2>5. ASSUME NEW r \in Runs, StructuredPlan(r) PROVE TypeOK'
    BY <2>5 DEF StructuredPlan, LoopHead
  <2>6. ASSUME NEW r \in Runs, Execute(r) PROVE TypeOK'
    <3>1. CASE TryAgain(r)
      BY <2>6, <3>1 DEF Execute, LoopHead, NoteFailure, TryAgain
    <3>2. CASE Goto(r, "review") /\ UNCHANGED <<attempt, total, failures>>
      BY <2>6, <3>2 DEF Execute
    <3> QED
      BY <2>6, <3>1, <3>2 DEF Execute
  <2>7. ASSUME NEW r \in Runs, CodeReview(r) PROVE TypeOK'
    BY <2>7 DEF CodeReview, NoteFailure
  <2>8. ASSUME NEW r \in Runs, RunUBSScan(r) PROVE TypeOK'
    <3>1. CASE TryAgain(r)
      BY <2>8, <3>1 DEF RunUBSScan, LoopHead, NoteFailure, TryAgain
    <3>2. CASE Goto(r, "dod") /\ UNCHANGED <<attempt, total, failures>>
      BY <2>8, <3>2 DEF RunUBSScan
    <3> QED
      BY <2>8, <3>1, <3>2 DEF RunUBSScan
  <2>9. ASSUME NEW r \in Runs, DoDPasses(r) PROVE TypeOK'
    BY <2>9 DEF DoDPasses
  <2>10. ASSUME NEW r \in Runs, DoDFails(r) PROVE TypeOK'
    <3>1. CASE TryAgain(r)
      BY <2>10, <3>1 DEF DoDFails, LoopHead, NoteFailure, TryAgain
    <3>2. CASE Goto(r, "triage") /\ NoteFailure(r) /\ UNCHANGED <<attempt, total>>
      BY <2>10, <3>2 DEF DoDFails, NoteFailure
    <3> QED
      BY <2>10, <3>1, <3>2 DEF DoDFails
  <2>11. ASSUME NEW r \in Runs, NEW why \in Reasons, TransientInfra(r, why)
        PROVE TypeOK'
    BY <2>11 DEF TransientInfra, LoopHead
  <2>12. ASSUME NEW r \in Runs, InfraRescue(r) PROVE TypeOK'
    BY <2>12 DEF InfraRescue, LeaveLoop, NoteFailure
  <2>13. ASSUME NEW r \in Runs, FailureTriage(r) PROVE TypeOK'
    BY <2>13 DEF FailureTriage, LoopHead, LeaveLoop
  <2>14. ASSUME NEW r \in Runs, ClosePlanFailed(r) PROVE TypeOK'
    BY <2>14 DEF ClosePlanFailed, BestEffort
  <2>15. ASSUME NEW r \in Runs, CloseTask(r) PROVE TypeOK'
    BY <2>15 DEF CloseTask, BestEffort
  <2>16. ASSUME NEW r \in Runs, UnblockDependents(r) PROVE TypeOK'
    BY <2>16 DEF UnblockDependents, BestEffort, isTerminal
  <2>17. ASSUME NEW r \in Runs, RecordOutcome(r) PROVE TypeOK'
    BY <2>17 DEF RecordOutcome, BestEffort
  <2>18. ASSUME NEW r \in Runs, PushWorktree(r) PROVE TypeOK'
    BY <2>18 DEF PushWorktree, BestEffort
  <2>19. ASSUME NEW r \in Runs, MergeToMain(r) PROVE TypeOK'
    BY <2>19 DEF MergeToMain, BestEffort
  <2>20. ASSUME NEW r \in Runs, CleanupWorktree(r) PROVE TypeOK'
    BY <2>20 DEF CleanupWorktree, BestEffort
  <2>21. ASSUME NEW r \in Runs, Escalate(r) PROVE TypeOK'
    BY <2>21 DEF Escalate
  <2>22. ASSUME NEW r \in Runs, Reopen(r) PROVE TypeOK'
    BY <2>22 DEF Reopen, BestEffort
  <2>23. ASSUME NEW r \in Runs, RecordFailure(r) PROVE TypeOK'
    BY <2>23 DEF RecordFailure, BestEffort
  <2>24. ASSUME NEW r \in Runs, Timeout(r) PROVE TypeOK'
    BY <2>24 DEF Timeout
  <2>25. CASE MergePR
    BY <2>25 DEF MergePR
  <2> QED
    BY <2>1, <2>2, <2>3, <2>4, <2>5, <2>6, <2>7, <2>8, <2>9, <2>10, <2>11,
       <2>12, <2>13, <2>14, <2>15, <2>16, <2>17, <2>18, <2>19, <2>20, <2>21,
       <2>22, <2>23, <2>24, <2>25 DEF Next, Step
<1> QED
  BY <1>1, <1>2

(* Type correctness of the runs and of what they share.                    *)
THEOREM TypeCorrect == Spec => []TypeOK
  BY TypeInvInductive, PTL DEF Spec

----------------------------------------------------------------------------
(* Subsets of the reasons are finite and no larger than the whole.         *)
LEMMA ReasonCounts ==
    /\ Cardinality(Reasons) \in Nat
    /\ Cardinality({}) = 0
    /\ \A S \in SUBSET Reasons :
         /\ Cardinality(S) \in Nat
         /\ Cardinality(S) <= Cardinality(Reasons)
         /\ \A x \in Reasons \ S : Cardinality(S \cup {x}) = Cardinality(S) + 1
<1>1. ASSUME NEW S \in SUBSET Reasons
      PROVE  /\ IsFiniteSet(S)
             /\ Cardinality(S) \in Nat
             /\ Cardinality(S) <= Cardinality(Reasons)
  BY FS_Subset, FS_CardinalityType, ConstantsAssumption
<1>2. ASSUME NEW S \in SUBSET Reasons, NEW x \in Reasons \ S
      PROVE  Cardinality(S \cup {x}) = Cardinality(S) + 1
  BY <1>1, FS_AddElement
<1>3. Cardinality(Reasons) \in Nat /\ Cardinality({}) = 0
  BY FS_CardinalityType, FS_EmptySet, ConstantsAssumption
<1> QED
  BY <1>1, <1>2, <1>3

InBody(r) == pc[r] \in {"execute", "review", "ubs", "dod", "triage"}

(* An attempt in progress is within the tier's bound, and the attempts     *)
(* made exceed the loop counter by the free retries granted so far.        *)
LoopInv ==
    \A r \in Runs :
        /\ pc[r] \in {"idle", "setup", "plan"} => total[r] = 0
        /\ InBody(r) => /\ attempt[r] < retriesForTier(tier[r])
                        /\ total[r] <= attempt[r] + Cardinality(seen[r]) + 1
        /\ total[r] <= retriesForTier(tier[r]) + Cardinality(seen[r])

(* LoopInv holds initially, and every step of every run keeps it.          *)
LEMMA LoopInvInductive ==
    /\ Init => LoopInv
    /\ TypeOK /\ LoopInv /\ [Next]_vars => LoopInv'
<1>1. Init => LoopInv
  BY RetriesType, ReasonCounts DEF Init, LoopInv, InBody, TierNames
<1>2. TypeOK /\ LoopInv /\ [Next]_vars => LoopInv'
  <2> SUFFICES ASSUME TypeOK, LoopInv, [Next]_vars PROVE LoopInv'
    OBVIOUS
  <2> USE ConstantsAssumption, RetriesType, ReasonCounts
      DEF TypeOK, LoopInv, InBody, Goto, vars, given, taskVars, treeVars, remoteVars, loopVars
  <2>1. CASE UNCHANGED vars
    BY <2>1
  <2>2. ASSUME NEW r \in Runs, NEW t \in Tiers, Dispatch(r, t) PROVE LoopInv'
    BY <2>2, TiersType DEF Dispatch, Begin
  <2>3. ASSUME NEW r \in Runs, handleWorkflowStart(r) PROVE LoopInv'
    BY <2>3 DEF handleWorkflowStart, Begin
  <2>4. ASSUME NEW r \in Runs, SetupWorktree(r) PROVE LoopInv'
    BY <2>4 DEF SetupWorktree
  <2>5. ASSUME NEW r \in Runs, StructuredPlan(r) PROVE LoopInv'
    BY <2>5 DEF StructuredPlan, LoopHead
  <2>6. ASSUME NEW r \in Runs, Execute(r) PROVE LoopInv'
    BY <2>6 DEF Execute, LoopHead, NoteFailure, TryAgain
  <2>7. ASSUME NEW r \in Runs, CodeReview(r) PROVE LoopInv'
    BY <2>7 DEF CodeReview, NoteFailure
  <2>8. ASSUME NEW r \in Runs, RunUBSScan(r) PROVE LoopInv'
    BY <2>8 DEF RunUBSScan, LoopHead, NoteFailure, TryAgain
  <2>9. ASSUME NEW r \in Runs, DoDPasses(r) PROVE LoopInv'
    BY <2>9 DEF DoDPasses
  <2>10. ASSUME NEW r \in Runs, DoDFails(r) PROVE LoopInv'
    BY <2>10 DEF DoDFails, LoopHead, NoteFailure, TryAgain
  <2>11. ASSUME NEW r \in Runs, NEW why \in Reasons, TransientInfra(r, why)
        PROVE LoopInv'
    BY <2>11 DEF TransientInfra, LoopHead
  <2>12. ASSUME NEW r \in Runs, InfraRescue(r) PROVE LoopInv'
    BY <2>12 DEF InfraRescue, LeaveLoop, NoteFailure
  <2>13. ASSUME NEW r \in Runs, FailureTriage(r) PROVE LoopInv'
    BY <2>13 DEF FailureTriage, LoopHead, LeaveLoop
  <2>14. ASSUME NEW r \in Runs, ClosePlanFailed(r) PROVE LoopInv'
    BY <2>14 DEF ClosePlanFailed, BestEffort
  <2>15. ASSUME NEW r \in Runs, CloseTask(r) PROVE LoopInv'
    BY <2>15 DEF CloseTask, BestEffort
  <2>16. ASSUME NEW r \in Runs, UnblockDependents(r) PROVE LoopInv'
    BY <2>16 DEF UnblockDependents, BestEffort, isTerminal
  <2>17. ASSUME NEW r \in Runs, RecordOutcome(r) PROVE LoopInv'
    BY <2>17 DEF RecordOutcome, BestEffort
  <2>18. ASSUME NEW r \in Runs, PushWorktree(r) PROVE LoopInv'
    BY <2>18 DEF PushWorktree, BestEffort
  <2>19. ASSUME NEW r \in Runs, MergeToMain(r) PROVE LoopInv'
    BY <2>19 DEF MergeToMain, BestEffort
  <2>20. ASSUME NEW r \in Runs, CleanupWorktree(r) PROVE LoopInv'
    BY <2>20 DEF CleanupWorktree, BestEffort
  <2>21. ASSUME NEW r \in Runs, Escalate(r) PROVE LoopInv'
    BY <2>21 DEF Escalate
  <2>22. ASSUME NEW r \in Runs, Reopen(r) PROVE LoopInv'
    BY <2>22 DEF Reopen, BestEffort
  <2>23. ASSUME NEW r \in Runs, RecordFailure(r) PROVE LoopInv'
    BY <2>23 DEF RecordFailure, BestEffort
  <2>24. ASSUME NEW r \in Runs, Timeout(r) PROVE LoopInv'
    BY <2>24 DEF Timeout
  <2>25. CASE MergePR
    BY <2>25 DEF MergePR
  <2> QED
    BY <2>1, <2>2, <2>3, <2>4, <2>5, <2>6, <2>7, <2>8, <2>9, <2>10, <2>11,
       <2>12, <2>13, <2>14, <2>15, <2>16, <2>17, <2>18, <2>19, <2>20, <2>21,
       <2>22, <2>23, <2>24, <2>25 DEF Next, Step
<1> QED
  BY <1>1, <1>2

(* The retry loop is bounded: a run makes at most its tier's number of     *)
(* attempts and one more for each infrastructure reason.                   *)
THEOREM BoundedAttempts == Spec => []AttemptsBounded
<1>1. TypeOK /\ LoopInv => AttemptsBounded
  BY RetriesType, ReasonCounts DEF TypeOK, LoopInv, AttemptsBounded
<1> QED
  BY <1>1, TypeInvInductive, LoopInvInductive, PTL DEF Spec

----------------------------------------------------------------------------
(* A run's result is what its place in the workflow says it is, and it has *)
(* no worktree before it has set one up.                                   *)
Undecided ==
    {"idle", "setup", "plan", "execute", "review", "ubs", "dod", "triage",
     "escalate"}

ResultInv ==
    \A r \in Runs :
        /\ pc[r] \in Undecided => result[r] = "running"
        /\ pc[r] \in {"idle", "setup"} => ~hasTree[r]
        /\ pc[r] = "planFailed" => result[r] = "planFailed"
        /\ pc[r] \in {"close", "unblock", "push", "pr"} => result[r] = "passed"
        /\ pc[r] = "reopen" => result[r] = "escalated"
        /\ pc[r] \in {"outcome", "cleanup"} =>
             result[r] \in {"passed", "escalated"}

(* ResultInv and CompletionIsVerified are kept by every step, overlapping  *)
(* runs included.                                                          *)
LEMMA ResultInvInductive ==
    /\ Init => ResultInv /\ CompletionIsVerified
    /\ TypeOK /\ ResultInv /\ CompletionIsVerified /\ [Next]_vars
         => ResultInv' /\ CompletionIsVerified'
<1>1. Init => ResultInv /\ CompletionIsVerified
  BY DEF Init, ResultInv, Undecided, CompletionIsVerified
<1>2. TypeOK /\ ResultInv /\ CompletionIsVerified /\ [Next]_vars
        => ResultInv' /\ CompletionIsVerified'
  <2> SUFFICES ASSUME TypeOK, ResultInv, CompletionIsVerified, [Next]_vars
               PROVE  ResultInv' /\ CompletionIsVerified'
    OBVIOUS
  <2> USE DEF TypeOK, ResultInv, Undecided, CompletionIsVerified, Goto,
              vars, given, taskVars, treeVars, remoteVars, loopVars
  <2>1. CASE UNCHANGED vars
    BY <2>1
  <2>2. ASSUME NEW r \in Runs, NEW t \in Tiers, Dispatch(r, t) PROVE
       ResultInv' /\ CompletionIsVerified'
    BY <2>2, TiersType DEF Dispatch, Begin
  <2>3. ASSUME NEW r \in Runs, handleWorkflowStart(r) PROVE ResultInv' /\
       CompletionIsVerified'
    BY <2>3 DEF handleWorkflowStart, Begin
  <2>4. ASSUME NEW r \in Runs, SetupWorktree(r) PROVE ResultInv' /\
       CompletionIsVerified'
    BY <2>4 DEF SetupWorktree
  <2>5. ASSUME NEW r \in Runs, StructuredPlan(r) PROVE ResultInv' /\
       CompletionIsVerified'
    BY <2>5 DEF StructuredPlan, LoopHead
  <2>6. ASSUME NEW r \in Runs, Execute(r) PROVE ResultInv' /\
       CompletionIsVerified'
    BY <2>6 DEF Execute, LoopHead, NoteFailure, TryAgain
  <2>7. ASSUME NEW r \in Runs, CodeReview(r) PROVE ResultInv' /\
       CompletionIsVerified'
    BY <2>7 DEF CodeReview, NoteFailure
  <2>8. ASSUME NEW r \in Runs, RunUBSScan(r) PROVE ResultInv' /\
       CompletionIsVerified'
    BY <2>8 DEF RunUBSScan, LoopHead, NoteFailure, TryAgain
  <2>9. ASSUME NEW r \in Runs, DoDPasses(r) PROVE ResultInv' /\
       CompletionIsVerified'
    BY <2>9 DEF DoDPasses
  <2>10. ASSUME NEW r \in Runs, DoDFails(r) PROVE ResultInv' /\
       CompletionIsVerified'
    BY <2>10 DEF DoDFails, LoopHead, NoteFailure, TryAgain
  <2>11. ASSUME NEW r \in Runs, NEW why \in Reasons, TransientInfra(r, why)
        PROVE ResultInv' /\ CompletionIsVerified'
    BY <2>11 DEF TransientInfra, LoopHead
  <2>12. ASSUME NEW r \in Runs, InfraRescue(r) PROVE ResultInv' /\
       CompletionIsVerified'
    BY <2>12 DEF InfraRescue, LeaveLoop, NoteFailure
  <2>13. ASSUME NEW r \in Runs, FailureTriage(r) PROVE ResultInv' /\
       CompletionIsVerified'
    BY <2>13 DEF FailureTriage, LoopHead, LeaveLoop
  <2>14. ASSUME NEW r \in Runs, ClosePlanFailed(r) PROVE ResultInv' /\
       CompletionIsVerified'
    BY <2>14 DEF ClosePlanFailed, BestEffort
  <2>15. ASSUME NEW r \in Runs, CloseTask(r) PROVE ResultInv' /\
       CompletionIsVerified'
    BY <2>15 DEF CloseTask, BestEffort
  <2>16. ASSUME NEW r \in Runs, UnblockDependents(r) PROVE ResultInv' /\
       CompletionIsVerified'
    BY <2>16 DEF UnblockDependents, BestEffort, isTerminal
  <2>17. ASSUME NEW r \in Runs, RecordOutcome(r) PROVE ResultInv' /\
       CompletionIsVerified'
    BY <2>17 DEF RecordOutcome, BestEffort
  <2>18. ASSUME NEW r \in Runs, PushWorktree(r) PROVE ResultInv' /\
       CompletionIsVerified'
    BY <2>18 DEF PushWorktree, BestEffort
  <2>19. ASSUME NEW r \in Runs, MergeToMain(r) PROVE ResultInv' /\
       CompletionIsVerified'
    BY <2>19 DEF MergeToMain, BestEffort
  <2>20. ASSUME NEW r \in Runs, CleanupWorktree(r) PROVE ResultInv' /\
       CompletionIsVerified'
    BY <2>20 DEF CleanupWorktree, BestEffort
  <2>21. ASSUME NEW r \in Runs, Escalate(r) PROVE ResultInv' /\
       CompletionIsVerified'
    BY <2>21 DEF Escalate
  <2>22. ASSUME NEW r \in Runs, Reopen(r) PROVE ResultInv' /\
       CompletionIsVerified'
    BY <2>22 DEF Reopen, BestEffort
  <2>23. ASSUME NEW r \in Runs, RecordFailure(r) PROVE ResultInv' /\
       CompletionIsVerified'
    BY <2>23 DEF RecordFailure, BestEffort
  <2>24. ASSUME NEW r \in Runs, Timeout(r) PROVE ResultInv' /\
       CompletionIsVerified'
    BY <2>24 DEF Timeout
  <2>25. CASE MergePR
    BY <2>25 DEF MergePR
  <2> QED
    BY <2>1, <2>2, <2>3, <2>4, <2>5, <2>6, <2>7, <2>8, <2>9, <2>10, <2>11,
       <2>12, <2>13, <2>14, <2>15, <2>16, <2>17, <2>18, <2>19, <2>20, <2>21,
       <2>22, <2>23, <2>24, <2>25 DEF Next, Step
<1> QED
  BY <1>1, <1>2

(* No task is completed, closed or ungated without a run whose checks      *)
(* passed, however the runs overlap and whatever fails.                    *)
THEOREM VerifiedCompletion == Spec => []CompletionIsVerified
  BY TypeInvInductive, ResultInvInductive, PTL DEF Spec

----------------------------------------------------------------------------
(* Circumstances do not change.                                            *)
LEMMA WorldIsFixed == [Next]_vars => UNCHANGED world
  BY DEF vars, given, Next, Step, Dispatch, handleWorkflowStart, SetupWorktree,
         StructuredPlan, Execute, CodeReview, RunUBSScan, DoDPasses, DoDFails,
         TransientInfra, InfraRescue, FailureTriage, ClosePlanFailed,
         CloseTask, UnblockDependents, RecordOutcome, PushWorktree,
         MergeToMain, CleanupWorktree, Escalate, Reopen, RecordFailure,
         Timeout, MergePR

(* A run that is alone has company of no one, and has its worktree.        *)
OwnInv ==
    /\ \A r, q \in Runs : alone[r] /\ active(r) /\ active(q) => r = q
    /\ OwnsItsWorktree

(* OwnInv is kept by every step: another run can take the worktree only    *)
(* while it is active, and from its start on the first is not alone.       *)
LEMMA OwnInvInductive ==
    /\ Init => OwnInv
    /\ TypeOK /\ ResultInv /\ OwnInv /\ [Next]_vars => OwnInv'
<1>1. Init => OwnInv
  BY DEF Init, OwnInv, OwnsItsWorktree, active
<1>2. TypeOK /\ ResultInv /\ OwnInv /\ [Next]_vars => OwnInv'
  <2> SUFFICES ASSUME TypeOK, ResultInv, OwnInv, [Next]_vars PROVE OwnInv'
    OBVIOUS
  <2> USE ConstantsAssumption
      DEF TypeOK, ResultInv, Undecided, OwnInv, OwnsItsWorktree, active, Goto,
          vars, given, taskVars, treeVars, remoteVars, loopVars
  <2>1. CASE UNCHANGED vars
    BY <2>1
  <2>2. ASSUME NEW r \in Runs, NEW t \in Tiers, Dispatch(r, t) PROVE OwnInv'
    BY <2>2 DEF Dispatch, Begin
  <2>3. ASSUME NEW r \in Runs, handleWorkflowStart(r) PROVE OwnInv'
    BY <2>3 DEF handleWorkflowStart, Begin
  <2>4. ASSUME NEW r \in Runs, SetupWorktree(r) PROVE OwnInv'
    <3>1. CASE tree' = r /\ local' = r
      BY <2>4, <3>1 DEF SetupWorktree
    <3>2. CASE UNCHANGED hasTree
      BY <2>4, <3>2 DEF SetupWorktree
    <3> QED
      BY <2>4, <3>1, <3>2 DEF SetupWorktree
  <2>5. ASSUME NEW r \in Runs, StructuredPlan(r) PROVE OwnInv'
    BY <2>5 DEF StructuredPlan, LoopHead
  <2>6. ASSUME NEW r \in Runs, Execute(r) PROVE OwnInv'
    BY <2>6 DEF Execute, LoopHead, NoteFailure, TryAgain
  <2>7. ASSUME NEW r \in Runs, CodeReview(r) PROVE OwnInv'
    BY <2>7 DEF CodeReview, NoteFailure
  <2>8. ASSUME NEW r \in Runs, RunUBSScan(r) PROVE OwnInv'
    BY <2>8 DEF RunUBSScan, LoopHead, NoteFailure, TryAgain
  <2>9. ASSUME NEW r \in Runs, DoDPasses(r) PROVE OwnInv'
    BY <2>9 DEF DoDPasses
  <2>10. ASSUME NEW r \in Runs, DoDFails(r) PROVE OwnInv'
    BY <2>10 DEF DoDFails, LoopHead, NoteFailure, TryAgain
  <2>11. ASSUME NEW r \in Runs, NEW why \in Reasons, TransientInfra(r, why)
        PROVE OwnInv'
    BY <2>11 DEF TransientInfra, LoopHead
  <2>12. ASSUME NEW r \in Runs, InfraRescue(r) PROVE OwnInv'
    BY <2>12 DEF InfraRescue, LeaveLoop, NoteFailure
  <2>13. ASSUME NEW r \in Runs, FailureTriage(r) PROVE OwnInv'
    BY <2>13 DEF FailureTriage, LoopHead, LeaveLoop
  <2>14. ASSUME NEW r \in Runs, ClosePlanFailed(r) PROVE OwnInv'
    BY <2>14 DEF ClosePlanFailed, BestEffort
  <2>15. ASSUME NEW r \in Runs, CloseTask(r) PROVE OwnInv'
    BY <2>15 DEF CloseTask, BestEffort
  <2>16. ASSUME NEW r \in Runs, UnblockDependents(r) PROVE OwnInv'
    BY <2>16 DEF UnblockDependents, BestEffort, isTerminal
  <2>17. ASSUME NEW r \in Runs, RecordOutcome(r) PROVE OwnInv'
    BY <2>17 DEF RecordOutcome, BestEffort
  <2>18. ASSUME NEW r \in Runs, PushWorktree(r) PROVE OwnInv'
    BY <2>18 DEF PushWorktree, BestEffort
  <2>19. ASSUME NEW r \in Runs, MergeToMain(r) PROVE OwnInv'
    BY <2>19 DEF MergeToMain, BestEffort
  <2>20. ASSUME NEW r \in Runs, CleanupWorktree(r) PROVE OwnInv'
    BY <2>20 DEF CleanupWorktree, BestEffort
  <2>21. ASSUME NEW r \in Runs, Escalate(r) PROVE OwnInv'
    BY <2>21 DEF Escalate
  <2>22. ASSUME NEW r \in Runs, Reopen(r) PROVE OwnInv'
    BY <2>22 DEF Reopen, BestEffort
  <2>23. ASSUME NEW r \in Runs, RecordFailure(r) PROVE OwnInv'
    BY <2>23 DEF RecordFailure, BestEffort
  <2>24. ASSUME NEW r \in Runs, Timeout(r) PROVE OwnInv'
    BY <2>24 DEF Timeout
  <2>25. CASE MergePR
    BY <2>25 DEF MergePR
  <2> QED
    BY <2>1, <2>2, <2>3, <2>4, <2>5, <2>6, <2>7, <2>8, <2>9, <2>10, <2>11,
       <2>12, <2>13, <2>14, <2>15, <2>16, <2>17, <2>18, <2>19, <2>20, <2>21,
       <2>22, <2>23, <2>24, <2>25 DEF Next, Step
<1> QED
  BY <1>1, <1>2

(* A run that has been alone since it began owns its worktree, whatever    *)
(* the runs before it left behind, for any number of runs and failures.    *)
THEOREM OwnedWorktree == Spec => []OwnsItsWorktree
<1>1. OwnInv => OwnsItsWorktree
  BY DEF OwnInv
<1> QED
  BY <1>1, TypeInvInductive, ResultInvInductive, OwnInvInductive, PTL DEF Spec

----------------------------------------------------------------------------
(* One run at a time, and the task is ready until it closes it.            *)
ExclusiveInv ==
    /\ \A r, q \in Runs : active(r) /\ active(q) => r = q
    /\ \A r \in Runs :
         pc[r] \in (Undecided \ {"idle"}) \cup {"planFailed", "reopen"}
            => status = "ready"

(* Where runs do not overlap, ExclusiveInv is inductive and no step takes  *)
(* the task out of a terminal status.                                      *)
LEMMA ExclusiveInvInductive ==
    /\ Init => ExclusiveInv
    /\ Exclusive /\ TypeOK /\ ResultInv /\ ExclusiveInv /\ [Next]_vars
         => ExclusiveInv' /\ (isTerminal(status) => isTerminal(status'))
<1>1. Init => ExclusiveInv
  BY DEF Init, ExclusiveInv, active, Undecided
<1>2. Exclusive /\ TypeOK /\ ResultInv /\ ExclusiveInv /\ [Next]_vars
        => ExclusiveInv' /\ (isTerminal(status) => isTerminal(status'))
  <2> DEFINE Goal == ExclusiveInv' /\ (isTerminal(status) => isTerminal(status'))
  <2> SUFFICES ASSUME Exclusive, TypeOK, ResultInv, ExclusiveInv, [Next]_vars
               PROVE  Goal
    OBVIOUS
  <2> USE ConstantsAssumption
      DEF Exclusive, TypeOK, ResultInv, ExclusiveInv, Undecided, active,
          isTerminal, Goto,
          vars, given, taskVars, treeVars, remoteVars, loopVars
  <2>1. CASE UNCHANGED vars
    BY <2>1
  <2>2. ASSUME NEW r \in Runs, NEW t \in Tiers, Dispatch(r, t) PROVE Goal
    <3>1. \A q \in Runs : ~active(q)
      BY <2>2, Zenon DEF Dispatch
    <3> QED
      BY <2>2, <3>1 DEF Dispatch, Begin
  <2>3. ASSUME NEW r \in Runs, handleWorkflowStart(r) PROVE Goal
    BY <2>3 DEF handleWorkflowStart, Begin
  <2>4. ASSUME NEW r \in Runs, SetupWorktree(r) PROVE Goal
    <3>1. CASE tree' = r /\ local' = r
      BY <2>4, <3>1 DEF SetupWorktree
    <3>2. CASE UNCHANGED hasTree
      BY <2>4, <3>2 DEF SetupWorktree
    <3> QED
      BY <2>4, <3>1, <3>2 DEF SetupWorktree
  <2>5. ASSUME NEW r \in Runs, StructuredPlan(r) PROVE Goal
    BY <2>5 DEF StructuredPlan, LoopHead
  <2>6. ASSUME NEW r \in Runs, Execute(r) PROVE Goal
    BY <2>6 DEF Execute, LoopHead, NoteFailure, TryAgain
  <2>7. ASSUME NEW r \in Runs, CodeReview(r) PROVE Goal
    BY <2>7 DEF CodeReview, NoteFailure
  <2>8. ASSUME NEW r \in Runs, RunUBSScan(r) PROVE Goal
    BY <2>8 DEF RunUBSScan, LoopHead, NoteFailure, TryAgain
  <2>9. ASSUME NEW r \in Runs, DoDPasses(r) PROVE Goal
    BY <2>9 DEF DoDPasses
  <2>10. ASSUME NEW r \in Runs, DoDFails(r) PROVE Goal
    BY <2>10 DEF DoDFails, LoopHead, NoteFailure, TryAgain
  <2>11. ASSUME NEW r \in Runs, NEW why \in Reasons, TransientInfra(r, why)
        PROVE Goal
    BY <2>11 DEF TransientInfra, LoopHead
  <2>12. ASSUME NEW r \in Runs, InfraRescue(r) PROVE Goal
    BY <2>12 DEF InfraRescue, LeaveLoop, NoteFailure
  <2>13. ASSUME NEW r \in Runs, FailureTriage(r) PROVE Goal
    BY <2>13 DEF FailureTriage, LoopHead, LeaveLoop
  <2>14. ASSUME NEW r \in Runs, ClosePlanFailed(r) PROVE Goal
    BY <2>14 DEF ClosePlanFailed, BestEffort
  <2>15. ASSUME NEW r \in Runs, CloseTask(r) PROVE Goal
    BY <2>15 DEF CloseTask, BestEffort
  <2>16. ASSUME NEW r \in Runs, UnblockDependents(r) PROVE Goal
    BY <2>16 DEF UnblockDependents, BestEffort, isTerminal
  <2>17. ASSUME NEW r \in Runs, RecordOutcome(r) PROVE Goal
    BY <2>17 DEF RecordOutcome, BestEffort
  <2>18. ASSUME NEW r \in Runs, PushWorktree(r) PROVE Goal
    BY <2>18 DEF PushWorktree, BestEffort
  <2>19. ASSUME NEW r \in Runs, MergeToMain(r) PROVE Goal
    BY <2>19 DEF MergeToMain, BestEffort
  <2>20. ASSUME NEW r \in Runs, CleanupWorktree(r) PROVE Goal
    BY <2>20 DEF CleanupWorktree, BestEffort
  <2>21. ASSUME NEW r \in Runs, Escalate(r) PROVE Goal
    BY <2>21 DEF Escalate
  <2>22. ASSUME NEW r \in Runs, Reopen(r) PROVE Goal
    BY <2>22 DEF Reopen, BestEffort
  <2>23. ASSUME NEW r \in Runs, RecordFailure(r) PROVE Goal
    BY <2>23 DEF RecordFailure, BestEffort
  <2>24. ASSUME NEW r \in Runs, Timeout(r) PROVE Goal
    BY <2>24 DEF Timeout
  <2>25. CASE MergePR
    BY <2>25 DEF MergePR
  <2> QED
    BY <2>1, <2>2, <2>3, <2>4, <2>5, <2>6, <2>7, <2>8, <2>9, <2>10, <2>11,
       <2>12, <2>13, <2>14, <2>15, <2>16, <2>17, <2>18, <2>19, <2>20, <2>21,
       <2>22, <2>23, <2>24, <2>25 DEF Next, Step
<1> QED
  BY <1>1, <1>2

----------------------------------------------------------------------------
(* A provider that is not gated has at least one attempt.                  *)
LEMMA RetriesPositive ==
    \A t \in TierNames : t # "gated" => retriesForTier(t) >= 1
  BY ConstantsAssumption DEF retriesForTier, TierNames

(* A run that leaves the loop without success has errors to report, unless *)
(* its provider is gated; the worktree at the path belongs to a run that   *)
(* knows of it; the result of a run says how far it can have got; and what *)
(* it reported stays.                                                      *)
FailureInv ==
    \A r \in Runs :
        /\ tree = r => hasTree[r]
        /\ (tier[r] # "gated"
             /\ (\/ pc[r] \in {"triage", "escalate", "reopen"}
                 \/ /\ pc[r] \in {"outcome", "cleanup", "scent"}
                    /\ result[r] = "escalated")) => failures[r]
        /\ result[r] = "escalated" =>
             pc[r] \in {"reopen", "outcome", "cleanup", "scent", "done", "killed"}
        /\ result[r] = "passed" => pc[r] # "scent"
        /\ ("scent" \notin Faults /\ pc[r] = "done"
             /\ result[r] = "escalated" /\ tier[r] # "gated") => errorLog

(* FailureInv is kept by every step, overlapping runs included: the loop   *)
(* is left early only with a failure noted, and left at its head only      *)
(* after an attempt that failed.                                           *)
LEMMA FailureInvInductive ==
    /\ Init => FailureInv
    /\ TypeOK /\ LoopInv /\ ResultInv /\ FailureInv /\ [Next]_vars => FailureInv'
<1>1. Init => FailureInv
  BY ConstantsAssumption DEF Init, FailureInv
<1>2. TypeOK /\ LoopInv /\ ResultInv /\ FailureInv /\ [Next]_vars => FailureInv'
  <2> SUFFICES ASSUME TypeOK, LoopInv, ResultInv, FailureInv, [Next]_vars
               PROVE  FailureInv'
    OBVIOUS
  <2>a. UNCHANGED world
    BY WorldIsFixed
  <2> USE <2>a, ConstantsAssumption, RetriesType, RetriesPositive
      DEF TypeOK, LoopInv, InBody, ResultInv, Undecided, FailureInv, Goto, Faults,
          vars, given, taskVars, treeVars, remoteVars, loopVars
  <2>1. CASE UNCHANGED vars
    BY <2>1
  <2>2. ASSUME NEW r \in Runs, NEW t \in Tiers, Dispatch(r, t) PROVE FailureInv'
    BY <2>2, TiersType DEF Dispatch, Begin
  <2>3. ASSUME NEW r \in Runs, handleWorkflowStart(r) PROVE FailureInv'
    BY <2>3 DEF handleWorkflowStart, Begin
  <2>4. ASSUME NEW r \in Runs, SetupWorktree(r) PROVE FailureInv'
    BY <2>4 DEF SetupWorktree
  <2>5. ASSUME NEW r \in Runs, StructuredPlan(r) PROVE FailureInv'
    BY <2>5 DEF StructuredPlan, LoopHead
  <2>6. ASSUME NEW r \in Runs, Execute(r) PROVE FailureInv'
    BY <2>6 DEF Execute, LoopHead, NoteFailure, TryAgain
  <2>7. ASSUME NEW r \in Runs, CodeReview(r) PROVE FailureInv'
    BY <2>7 DEF CodeReview, NoteFailure
  <2>8. ASSUME NEW r \in Runs, RunUBSScan(r) PROVE FailureInv'
    BY <2>8 DEF RunUBSScan, LoopHead, NoteFailure, TryAgain
  <2>9. ASSUME NEW r \in Runs, DoDPasses(r) PROVE FailureInv'
    BY <2>9 DEF DoDPasses
  <2>10. ASSUME NEW r \in Runs, DoDFails(r) PROVE FailureInv'
    BY <2>10 DEF DoDFails, LoopHead, NoteFailure, TryAgain
  <2>11. ASSUME NEW r \in Runs, NEW why \in Reasons, TransientInfra(r, why)
        PROVE FailureInv'
    BY <2>11 DEF TransientInfra, LoopHead
  <2>12. ASSUME NEW r \in Runs, InfraRescue(r) PROVE FailureInv'
    BY <2>12 DEF InfraRescue, LeaveLoop, NoteFailure
  <2>13. ASSUME NEW r \in Runs, FailureTriage(r) PROVE FailureInv'
    BY <2>13 DEF FailureTriage, LoopHead, LeaveLoop
  <2>14. ASSUME NEW r \in Runs, ClosePlanFailed(r) PROVE FailureInv'
    BY <2>14 DEF ClosePlanFailed, BestEffort
  <2>15. ASSUME NEW r \in Runs, CloseTask(r) PROVE FailureInv'
    BY <2>15 DEF CloseTask, BestEffort
  <2>16. ASSUME NEW r \in Runs, UnblockDependents(r) PROVE FailureInv'
    BY <2>16 DEF UnblockDependents, BestEffort
  <2>17. ASSUME NEW r \in Runs, RecordOutcome(r) PROVE FailureInv'
    BY <2>17 DEF RecordOutcome, BestEffort
  <2>18. ASSUME NEW r \in Runs, PushWorktree(r) PROVE FailureInv'
    BY <2>18 DEF PushWorktree, BestEffort
  <2>19. ASSUME NEW r \in Runs, MergeToMain(r) PROVE FailureInv'
    BY <2>19 DEF MergeToMain, BestEffort
  <2>20. ASSUME NEW r \in Runs, CleanupWorktree(r) PROVE FailureInv'
    BY <2>20 DEF CleanupWorktree, BestEffort
  <2>21. ASSUME NEW r \in Runs, Escalate(r) PROVE FailureInv'
    BY <2>21 DEF Escalate
  <2>22. ASSUME NEW r \in Runs, Reopen(r) PROVE FailureInv'
    BY <2>22 DEF Reopen, BestEffort
  <2>23. ASSUME NEW r \in Runs, RecordFailure(r) PROVE FailureInv'
    BY <2>23 DEF RecordFailure, BestEffort
  <2>24. ASSUME NEW r \in Runs, Timeout(r) PROVE FailureInv'
    BY <2>24 DEF Timeout
  <2>25. CASE MergePR
    BY <2>25 DEF MergePR
  <2> QED
    BY <2>1, <2>2, <2>3, <2>4, <2>5, <2>6, <2>7, <2>8, <2>9, <2>10, <2>11,
       <2>12, <2>13, <2>14, <2>15, <2>16, <2>17, <2>18, <2>19, <2>20, <2>21,
       <2>22, <2>23, <2>24, <2>25 DEF Next, Step
<1> QED
  BY <1>1, <1>2

(* What a run has done to the task, its worktree and its error log once it *)
(* is past the step that does it, by the failures that may happen.         *)
SettleInv ==
    \A r \in Runs :
        /\ "outcome" \notin Faults =>
             (pc[r] \in {"push", "pr", "cleanup", "done"} /\ result[r] = "passed"
                => isTerminal(status))
        /\ OnlyFail({"setup", "push", "pr", "cleanup"}) =>
             /\ pc[r] # "killed"
             /\ pc[r] = "unblock" => isTerminal(status)
             /\ (pc[r] \in {"outcome", "push", "pr", "cleanup", "done"}
                  /\ result[r] = "passed") => ungated
        /\ OnlyFail({"setup", "push", "pr"}) =>
             (pc[r] \in {"scent", "done"} /\ result[r] \in {"passed", "escalated"}
                => tree # r)

(* Where runs do not overlap SettleInv is inductive: what a run has done   *)
(* no later run takes back.                                                *)
LEMMA SettleInvInductive ==
    /\ Init => SettleInv
    /\ (/\ Exclusive /\ TypeOK /\ ResultInv /\ ExclusiveInv /\ FailureInv
        /\ SettleInv /\ [Next]_vars) => SettleInv'
<1>1. Init => SettleInv
  BY DEF Init, SettleInv
<1>2. (/\ Exclusive /\ TypeOK /\ ResultInv /\ ExclusiveInv /\ FailureInv
       /\ SettleInv /\ [Next]_vars) => SettleInv'
  <2> SUFFICES ASSUME Exclusive, TypeOK, ResultInv, ExclusiveInv, FailureInv,
                      SettleInv, [Next]_vars
               PROVE  SettleInv'
    OBVIOUS
  <2>a. (isTerminal(status) => isTerminal(status')) /\ UNCHANGED world
    BY ExclusiveInvInductive, WorldIsFixed
  <2> USE <2>a, ConstantsAssumption
      DEF TypeOK, ResultInv, FailureInv, SettleInv, Undecided, Goto, OnlyFail,
          Faults, vars, given, taskVars, treeVars, remoteVars, loopVars
  <2>1. CASE UNCHANGED vars
    BY <2>1
  <2>2. ASSUME NEW r \in Runs, NEW t \in Tiers, Dispatch(r, t) PROVE SettleInv'
    BY <2>2, TiersType DEF Dispatch, Begin
  <2>3. ASSUME NEW r \in Runs, handleWorkflowStart(r) PROVE SettleInv'
    BY <2>3 DEF handleWorkflowStart, Begin
  <2>4. ASSUME NEW r \in Runs, SetupWorktree(r) PROVE SettleInv'
    BY <2>4 DEF SetupWorktree
  <2>5. ASSUME NEW r \in Runs, StructuredPlan(r) PROVE SettleInv'
    BY <2>5 DEF StructuredPlan, LoopHead
  <2>6. ASSUME NEW r \in Runs, Execute(r) PROVE SettleInv'
    BY <2>6 DEF Execute, LoopHead, NoteFailure, TryAgain
  <2>7. ASSUME NEW r \in Runs, CodeReview(r) PROVE SettleInv'
    BY <2>7 DEF CodeReview, NoteFailure
  <2>8. ASSUME NEW r \in Runs, RunUBSScan(r) PROVE SettleInv'
    BY <2>8 DEF RunUBSScan, LoopHead, NoteFailure, TryAgain
  <2>9. ASSUME NEW r \in Runs, DoDPasses(r) PROVE SettleInv'
    BY <2>9 DEF DoDPasses
  <2>10. ASSUME NEW r \in Runs, DoDFails(r) PROVE SettleInv'
    BY <2>10 DEF DoDFails, LoopHead, NoteFailure, TryAgain
  <2>11. ASSUME NEW r \in Runs, NEW why \in Reasons, TransientInfra(r, why)
        PROVE SettleInv'
    BY <2>11 DEF TransientInfra, LoopHead
  <2>12. ASSUME NEW r \in Runs, InfraRescue(r) PROVE SettleInv'
    BY <2>12 DEF InfraRescue, LeaveLoop, NoteFailure
  <2>13. ASSUME NEW r \in Runs, FailureTriage(r) PROVE SettleInv'
    BY <2>13 DEF FailureTriage, LoopHead, LeaveLoop
  <2>14. ASSUME NEW r \in Runs, ClosePlanFailed(r) PROVE SettleInv'
    BY <2>14 DEF ClosePlanFailed, BestEffort
  <2>15. ASSUME NEW r \in Runs, CloseTask(r) PROVE SettleInv'
    BY <2>15 DEF CloseTask, BestEffort, isTerminal
  <2>16. ASSUME NEW r \in Runs, UnblockDependents(r) PROVE SettleInv'
    BY <2>16 DEF UnblockDependents, BestEffort
  <2>17. ASSUME NEW r \in Runs, RecordOutcome(r) PROVE SettleInv'
    BY <2>17 DEF RecordOutcome, BestEffort, isTerminal
  <2>18. ASSUME NEW r \in Runs, PushWorktree(r) PROVE SettleInv'
    BY <2>18 DEF PushWorktree, BestEffort
  <2>19. ASSUME NEW r \in Runs, MergeToMain(r) PROVE SettleInv'
    BY <2>19 DEF MergeToMain, BestEffort
  <2>20. ASSUME NEW r \in Runs, CleanupWorktree(r) PROVE SettleInv'
    BY <2>20 DEF CleanupWorktree, BestEffort
  <2>21. ASSUME NEW r \in Runs, Escalate(r) PROVE SettleInv'
    BY <2>21 DEF Escalate
  <2>22. ASSUME NEW r \in Runs, Reopen(r) PROVE SettleInv'
    BY <2>22 DEF Reopen, BestEffort
  <2>23. ASSUME NEW r \in Runs, RecordFailure(r) PROVE SettleInv'
    BY <2>23 DEF RecordFailure, BestEffort
  <2>24. ASSUME NEW r \in Runs, Timeout(r) PROVE SettleInv'
    BY <2>24 DEF Timeout
  <2>25. CASE MergePR
    BY <2>25 DEF MergePR
  <2> QED
    BY <2>1, <2>2, <2>3, <2>4, <2>5, <2>6, <2>7, <2>8, <2>9, <2>10, <2>11,
       <2>12, <2>13, <2>14, <2>15, <2>16, <2>17, <2>18, <2>19, <2>20, <2>21,
       <2>22, <2>23, <2>24, <2>25 DEF Next, Step
<1> QED
  BY <1>1, <1>2

(* If runs of the task never overlap, what a run that has ended must have  *)
(* done is done, each part under the failures its definition allows.       *)
LEMMA RunsSettle == Spec => [](SuccessIsSettled /\ ReturnsItsWorktree)
<1> DEFINE IInv == Exclusive => ExclusiveInv /\ SettleInv
<1>1. IInv => SuccessIsSettled /\ ReturnsItsWorktree
  BY DEF SettleInv, SuccessIsSettled, ReturnsItsWorktree
<1>2. TypeOK /\ ResultInv /\ FailureInv /\ IInv /\ [Next]_vars => IInv'
  BY ExclusiveInvInductive, SettleInvInductive, WorldIsFixed
  DEF Exclusive, Overlap, ApiRuns
<1>3. Init => IInv
  BY ExclusiveInvInductive, SettleInvInductive
<1> QED
  BY <1>1, <1>2, <1>3, TypeInvInductive, LoopInvInductive,
     ResultInvInductive, FailureInvInductive, PTL DEF Spec

(* A run that passed its checks leaves the task closed although either of  *)
(* the two writes may be lost, and its dependents promoted.                *)
THEOREM SettledSuccess == Spec => []SuccessIsSettled
  BY RunsSettle, PTL

(* A run that passed or escalated leaves no worktree of its own behind.    *)
THEOREM ReturnedWorktree == Spec => []ReturnsItsWorktree
  BY RunsSettle, PTL

(* Whatever else fails and however many runs end at once, the errors of an *)
(* escalated run are in the task's row when it has ended.                  *)
THEOREM KeptErrors == Spec => []ErrorsAreKept
<1>1. FailureInv => ErrorsAreKept
  BY DEF FailureInv, ErrorsAreKept
<1> QED
  BY <1>1, TypeInvInductive, LoopInvInductive, ResultInvInductive,
     FailureInvInductive, PTL DEF Spec

----------------------------------------------------------------------------
(* Gates.                                                                  *)

(* A drain that no resume answers is in the channel or has been received.  *)
HoldInv == (drains > 0 /\ resumes = 0) => (drainQ > 0 \/ isDrained)

(* Whatever signals arrive, GateTypeOK and HoldInv are kept.               *)
LEMMA GateInvInductive ==
    /\ GateInit => GateTypeOK /\ HoldInv
    /\ GateTypeOK /\ HoldInv /\ [GateNext]_gateVars => GateTypeOK' /\ HoldInv'
<1> USE GateAssumption DEF GateTypeOK, HoldInv
<1>1. GateInit => GateTypeOK /\ HoldInv
  <2> SUFFICES ASSUME GateInit PROVE GateTypeOK /\ HoldInv
    OBVIOUS
  <2>1. (waiting => passed < Gates) /\ (isDrained => waiting)
    BY Zenon DEF GateInit
  <2>2. waiting \in BOOLEAN /\ isDrained \in BOOLEAN
    BY Zenon DEF GateInit
  <2> QED
    BY <2>1, <2>2 DEF GateInit
<1>2. GateTypeOK /\ HoldInv /\ [GateNext]_gateVars => GateTypeOK' /\ HoldInv'
  <2> SUFFICES ASSUME GateTypeOK, HoldInv, [GateNext]_gateVars PROVE GateTypeOK' /\ HoldInv'
    OBVIOUS
  <2>1. CASE UNCHANGED gateVars
    BY <2>1 DEF gateVars
  <2>2. CASE StartDrainAgentWorkflows
    BY <2>2 DEF StartDrainAgentWorkflows
  <2>3. CASE StartResumeAgentWorkflows
    BY <2>3 DEF StartResumeAgentWorkflows
  <2>4. CASE ReachGate
    BY <2>4 DEF ReachGate
  <2>5. CASE SelectDrain
    BY <2>5 DEF SelectDrain
  <2>6. CASE SelectResume
    <3>1. (waiting => passed < Gates)' /\ (isDrained => waiting)'
      BY <2>6, Zenon DEF SelectResume, Leave
    <3>2. waiting' \in BOOLEAN /\ isDrained' \in BOOLEAN
      BY <2>6, Zenon DEF SelectResume, Leave
    <3>3. passed' \in 0..Gates
      BY <2>6 DEF SelectResume, Leave
    <3> QED
      BY <2>6, <3>1, <3>2, <3>3 DEF SelectResume
  <2>7. CASE SelectDefault
    <3>1. (waiting => passed < Gates)' /\ (isDrained => waiting)'
      BY <2>7, Zenon DEF SelectDefault, Leave
    <3>2. waiting' \in BOOLEAN /\ isDrained' \in BOOLEAN
      BY <2>7, Zenon DEF SelectDefault, Leave
    <3>3. passed' \in 0..Gates
      BY <2>7 DEF SelectDefault, Leave
    <3> QED
      BY <2>7, <3>1, <3>2, <3>3 DEF SelectDefault
  <2> QED
    BY <2>1, <2>2, <2>3, <2>4, <2>5, <2>6, <2>7 DEF GateNext, Select
<1> QED
  BY <1>1, <1>2

(* Type correctness; a run is drained only while it waits at a gate.       *)
THEOREM GateTypeCorrect == GateSpec => []GateTypeOK
  BY GateInvInductive, PTL DEF GateSpec

(* A drain that is not answered by a resume stops the run at the next      *)
(* gate and keeps it there.                                                *)
THEOREM DrainHolds == GateSpec => DrainHoldsUntilResume
<1>1. GateTypeOK /\ HoldInv /\ [GateNext]_gateVars
        => [(drains > 0 /\ resumes = 0) => passed' = passed]_gateVars
  <2> SUFFICES ASSUME GateTypeOK, HoldInv, GateNext, drains > 0, resumes = 0
               PROVE  passed' = passed
    OBVIOUS
  <2>1. ~SelectResume
    BY DEF SelectResume, GateTypeOK
  <2>2. ~SelectDefault
    BY DEF SelectDefault, GateTypeOK, HoldInv
  <2> QED
    BY <2>1, <2>2 DEF GateNext, Select, StartDrainAgentWorkflows,
       StartResumeAgentWorkflows, ReachGate, SelectDrain
<1> QED
  BY <1>1, GateInvInductive, PTL DEF GateSpec, DrainHoldsUntilResume


=============================================================================
