---------------------------- MODULE GroomProofs ----------------------------
(***************************************************************************)
(* Theorems about the slicing of whales, for every set of tasks, crabs and *)
(* answers of the model, every cap, and whatever fails or is stopped.      *)
(***************************************************************************)
EXTENDS Groom, FiniteSetTheorems, TLAPS

(* Fields of a crab.                                                       *)
Fields == {"pc", "plan", "by", "attempt"}

(* What is needed of types: a crab has an order, which it keeps, and an    *)
(* attempt; every row has a status.                                        *)
ShapeInv ==
    /\ DOMAIN crab = Crabs
    /\ \A c \in Crabs : /\ Fields \subseteq DOMAIN crab[c]
                        /\ crab[c].attempt \in 1..EmitAttempts
                        /\ crab[c].pc = "idle" => crab[c].by = "none"
    /\ status \in [Rows -> Statuses \cup {"absent"}]
    /\ {"pc", "todo", "next", "pending"} \subseteq DOMAIN groom

(* Crabs after a step in which none is started.                            *)
SameOrders ==
    /\ DOMAIN crab' = Crabs
    /\ \A c \in Crabs : /\ Fields \subseteq DOMAIN crab'[c]
                        /\ crab'[c].attempt \in 1..EmitAttempts
                        /\ crab'[c].by = crab[c].by
                        /\ crab'[c].plan = crab[c].plan
                        /\ crab'[c].pc = "idle" => crab[c].pc = "idle"

(* Crabs after crab c was started.                                         *)
Ordered(c, plan, by) ==
    /\ crab[c].pc = "idle" /\ DOMAIN crab' = Crabs
    /\ \A d \in Crabs \ {c} : crab'[d] = crab[d]
    /\ Fields \subseteq DOMAIN crab'[c] /\ crab'[c].attempt \in 1..EmitAttempts
    /\ crab'[c].by = by /\ crab'[c].plan = plan /\ crab'[c].pc # "idle"

(* A started crab.                                                         *)
LEMMA StartedCrab ==
    ASSUME ShapeInv, NEW c \in Crabs, fresh(c), NEW plan, NEW review, NEW by,
           NEW parent,
           crab' = [crab EXCEPT ![c] = started(plan, review, by, parent)]
    PROVE  Ordered(c, plan, by)
<1> DEFINE s == started(plan, review, by, parent)
<1>1. /\ Fields \subseteq DOMAIN s /\ s.attempt = 1 /\ s.by = by
      /\ s.plan = plan /\ s.pc = "parse"
  BY DEF started, Idle, Fields
<1> HIDE DEF s
<1>2. crab' = [crab EXCEPT ![c] = s]
  BY DEF s
<1>3. DOMAIN crab' = Crabs /\ crab'[c] = s /\ \A d \in Crabs \ {c} : crab'[d] = crab[d]
  BY <1>2 DEF ShapeInv
<1>4. 1 \in 1..EmitAttempts
  BY CrabAssumption
<1> QED BY <1>1, <1>3, <1>4 DEF Ordered, fresh

(* A crab that goes to another phase.                                      *)
LEMMA WentOn ==
    ASSUME ShapeInv, NEW c \in Crabs, NEW p, p # "idle", Goto(c, p)
    PROVE  SameOrders
BY DEF ShapeInv, SameOrders, Goto, Fields

(* A crab takes an answer of the model, or a step of its emission.         *)
Wrote(c, p, w, a) ==
    \/ crab' = [crab EXCEPT ![c].pc = p, ![c].whales = w]
    \/ crab' = [crab EXCEPT ![c].pc = p, ![c].morsels = w]
    \/ crab' = [crab EXCEPT ![c].pc = p, ![c].todo = w]
    \/ crab' = [crab EXCEPT ![c].todo = w]
    \/ crab' = [crab EXCEPT ![c].attempt = a, ![c].todo = w]

(* Its order stays as it is.                                               *)
LEMMA WroteDown ==
    ASSUME ShapeInv, NEW c \in Crabs, NEW p, p # "idle", NEW w,
           NEW a \in 1..EmitAttempts, Wrote(c, p, w, a)
    PROVE  SameOrders
<1> USE DEF ShapeInv, SameOrders, Fields
<1>1. CASE crab' = [crab EXCEPT ![c].pc = p, ![c].whales = w]
  BY <1>1
<1>2. CASE crab' = [crab EXCEPT ![c].pc = p, ![c].morsels = w]
  BY <1>2
<1>3. CASE crab' = [crab EXCEPT ![c].pc = p, ![c].todo = w]
  BY <1>3
<1>4. CASE crab' = [crab EXCEPT ![c].todo = w]
  BY <1>4
<1>5. CASE crab' = [crab EXCEPT ![c].attempt = a, ![c].todo = w]
  BY <1>5
<1> QED BY <1>1, <1>2, <1>3, <1>4, <1>5 DEF Wrote

(* A step of a crab leaves all orders alone.                               *)
LEMMA CrabStepOrders ==
    ASSUME ShapeInv, NEW c \in Crabs, CrabStep(c)
    PROVE  SameOrders
<1>0. crab[c].attempt \in 1..EmitAttempts /\ crab[c].attempt \in Nat
      /\ EmitAttempts \in Nat
  BY CrabAssumption DEF ShapeInv
<1>1. CASE Fail(c)
  <2>1. failOrEscalateToPlanning(c) # "idle"
    BY DEF failOrEscalateToPlanning
  <2> QED BY <1>1, <2>1, WentOn DEF Fail
<1>2. CASE ParsePlan(c)
  BY <1>1, <1>2, WentOn DEF ParsePlan
<1>3. CASE ClarifyGaps(c)
  <2>1. Goto(c, "answer") \/ Goto(c, "scan")
    BY <1>3 DEF ClarifyGaps
  <2> QED BY <2>1, WentOn
<1>4. CASE ClarificationEnds(c) \/ BlastRadiusScan(c) \/ EmitDone(c)
           \/ CeremonyCloses(c) \/ escalateToPlanningCeremony(c)
  <2>1. \/ Goto(c, "scan") \/ Goto(c, "decompose") \/ Goto(c, "completed")
        \/ Goto(c, "closed") \/ Goto(c, "error") \/ Goto(c, "escalated")
    BY <1>4 DEF ClarificationEnds, BlastRadiusScan, EmitDone, CeremonyCloses,
       escalateToPlanningCeremony
  <2> QED BY <2>1, WentOn
<1>w. ASSUME NEW p \in {"scope", "size", "review", "emit"}, NEW w,
             NEW a \in 1..EmitAttempts, Wrote(c, p, w, a)
      PROVE  SameOrders
  <2>1. p # "idle"
    OBVIOUS
  <2> QED BY <1>w, <2>1, WroteDown
<1>5. CASE Decompose(c)
  <2>1. Fail(c) \/ \E w : Wrote(c, "scope", w, crab[c].attempt)
    BY <1>5 DEF Decompose, Wrote
  <2> QED BY <1>0, <1>1, <1>w, <2>1
<1>6. CASE ScopeMorsels(c)
  <2>1. \E w : Wrote(c, "size", w, crab[c].attempt)
    BY <1>6 DEF ScopeMorsels, Wrote
  <2> QED BY <1>0, <1>w, <2>1
<1>7. CASE SizeMorsels(c)
  <2>1. Fail(c) \/ \E w : Wrote(c, "review", w, crab[c].attempt)
    BY <1>7 DEF SizeMorsels, Wrote
  <2> QED BY <1>0, <1>1, <1>w, <2>1
<1>8. CASE AutoApprove(c) \/ ReceiveReview(c)
  <2>1. Wrote(c, "emit", emission(c), crab[c].attempt) \/ Goto(c, "rejected")
    BY <1>8 DEF AutoApprove, ReceiveReview, ReviewDecided, Goto, Wrote
  <2>2. CASE Goto(c, "rejected")
    BY <2>2, WentOn
  <2> QED BY <1>0, <1>w, <2>1, <2>2
<1>9. CASE EmitTask(c) \/ EmitEdge(c)
  <2>1. Wrote(c, "emit", Tail(crab[c].todo), crab[c].attempt)
    BY <1>9 DEF EmitTask, EmitEdge, EmitNext, Wrote
  <2> QED BY <1>0, <1>w, <2>1
<1>10. CASE EmitTimeout(c)
  <2>1. CASE crab[c].attempt < EmitAttempts
    <3>1. Wrote(c, "emit", emission(c), crab[c].attempt + 1)
      BY <1>10, <2>1 DEF EmitTimeout, Wrote
    <3>2. crab[c].attempt + 1 \in 1..EmitAttempts
      BY <1>0, <2>1
    <3> QED BY <1>w, <3>1, <3>2
  <2>2. CASE ~(crab[c].attempt < EmitAttempts)
    BY <1>1, <1>10, <2>2 DEF EmitTimeout
  <2> QED BY <2>1, <2>2
<1> QED
  BY <1>2, <1>3, <1>4, <1>5, <1>6, <1>7, <1>8, <1>9, <1>10 DEF CrabStep

----------------------------------------------------------------------------
(* Rows stay, and none is completed unless a shark completes it.           *)
StatusKept ==
    /\ status' \in [Rows -> Statuses \cup {"absent"}]
    /\ \A t \in Rows : status[t] # "absent" => status'[t] # "absent"
    /\ \A t \in Rows : status'[t] = "completed" =>
                        status[t] = "completed" \/ RunTask(t)

(* Creating or closing a task, or leaving all as they are.                 *)
LEMMA StatusCalls ==
    ASSUME ShapeInv,
           \/ UNCHANGED status
           \/ \E t : DAG!Create(t, "open")
           \/ \E t : DAG!SetStatus(t, "closed")
           \/ \E t : status' = [status EXCEPT ![t] = "closed"]
           \/ \E t : status' = [status EXCEPT ![t] = "ready"]
           \/ \E t : status' = [status EXCEPT ![t] = "plan_failed"]
    PROVE  StatusKept
<1> USE DEF ShapeInv, StatusKept, Statuses, TerminalStatuses, Rows
<1>1. CASE UNCHANGED status
  BY <1>1
<1>2. ASSUME NEW t, NEW v \in {"open", "closed", "ready", "plan_failed"},
             status' = [status EXCEPT ![t] = v]
      PROVE  StatusKept
  BY <1>2
<1> QED BY <1>1, <1>2 DEF DAG!Create, DAG!SetStatus

(* Every step but the groomer's collection of a crab is like that.         *)
LEMMA StatusStep ==
    ASSUME ShapeInv, [Next]_vars, ~\E c \in Crabs : CollectCrab(c)
    PROVE  StatusKept
<1>1. CASE UNCHANGED status
  BY <1>1, StatusCalls
<1>2. ASSUME NEW c \in Crabs, CrabStep(c)
      PROVE  StatusKept
  <2>1. CASE EmitTask(c)
    <3>1. UNCHANGED status \/ \E t : DAG!Create(t, "open")
      BY <2>1 DEF EmitTask, dagVars
    <3> QED BY <3>1, StatusCalls
  <2>2. CASE CeremonyCloses(c)
    <3>1. UNCHANGED status \/ \E t : status' = [status EXCEPT ![t] = "closed"]
      BY <2>2 DEF CeremonyCloses
    <3> QED BY <3>1, StatusCalls
  <2>3. CASE Fail(c)
    BY <1>1, <2>3 DEF Fail, dagVars
  <2>4. CASE ~EmitTask(c) /\ ~CeremonyCloses(c) /\ ~Fail(c)
    BY <1>1, <1>2, <2>4
    DEF CrabStep, ParsePlan, ClarifyGaps, ClarificationEnds, BlastRadiusScan,
        Decompose, ScopeMorsels, SizeMorsels, AutoApprove, ReceiveReview,
        EmitEdge, EmitDone, EmitTimeout, escalateToPlanningCeremony, dagVars
  <2> QED BY <2>1, <2>2, <2>3, <2>4
<1>3. CASE CrabsNext
  BY <1>1, <1>2, <1>3 DEF CrabsNext, handleCrabSignal, handleCrabDecompose,
     CeremonyHandsOver, CeremonyStartsCrab, dagVars
<1>4. CASE \E t \in Rows : Promote(t)
  <2>1. \E t : status' = [status EXCEPT ![t] = "ready"]
    BY <1>4 DEF Promote
  <2> QED BY <2>1, StatusCalls
<1>5. ASSUME NEW t \in Rows, RunTask(t)
      PROVE  StatusKept
  <2> DEFINE done == [status EXCEPT ![t] = "completed"]
             up(u) == /\ done[u] = "open" /\ t \in DependsOn(u)
                      /\ \A d \in DependsOn(u) : done[d] \in TerminalStatuses
  <2>1. \/ status' = [u \in Rows |-> IF up(u) THEN "ready" ELSE done[u]]
        \/ UNCHANGED status
        \/ status' = [status EXCEPT ![t] = "plan_failed"]
    BY <1>5 DEF RunTask
  <2>2. /\ done \in [Rows -> Statuses \cup {"absent"}]
        /\ \A u \in Rows \ {t} : done[u] = status[u]
        /\ done[t] = "completed" /\ "ready" \in Statuses
    BY DEF ShapeInv, Statuses, TerminalStatuses, Rows
  <2> HIDE DEF done, up
  <2>3. CASE status' = [u \in Rows |-> IF up(u) THEN "ready" ELSE done[u]]
    BY <1>5, <2>2, <2>3 DEF StatusKept
  <2> QED BY <2>1, <2>3, StatusCalls
<1>6. CASE TacticalStep
  <2>1. UNCHANGED status \/ \E t : DAG!SetStatus(t, "closed")
    BY <1>6 DEF TacticalStep, StartTactical, MutateTasks, dagVars
  <2> QED BY <2>1, StatusCalls
<1>7. CASE applyMutation
  <2>1. \/ UNCHANGED status \/ \E t : DAG!SetStatus(t, "closed")
        \/ \E t : DAG!Create(t, "open")
    BY <1>7 DEF applyMutation, CreateMutation, dagVars
  <2> QED BY <2>1, StatusCalls
<1>8. CASE UBSBaselineScan
  <2>1. PICK new : status' = [t \in Rows |->
              IF t \in {<<groom.day, 0, "ubs", i>> : i \in new} THEN "open"
                                                              ELSE status[t]]
    BY <1>8 DEF UBSBaselineScan
  <2> DEFINE N == {<<groom.day, 0, "ubs", i>> : i \in new}
  <2>2. status' = [t \in Rows |-> IF t \in N THEN "open" ELSE status[t]]
    BY <2>1
  <2>3. "open" \in Statuses
    BY DEF Statuses
  <2> HIDE DEF N
  <2> QED BY <2>2, <2>3 DEF StatusKept, ShapeInv
<1>9. CASE UNCHANGED vars \/ TerminateGroom \/ StartDay \/ StrategicAnalysis
           \/ DetectWhales \/ LabelWhale \/ StartSlicing
           \/ GenerateMorningBriefing
  BY <1>1, <1>9 DEF vars, dagVars, TerminateGroom, StartDay,
     StrategicAnalysis, DetectWhales, LabelWhale, StartSlicing,
     GenerateMorningBriefing
<1> QED
  BY <1>3, <1>4, <1>5, <1>6, <1>7, <1>8, <1>9 DEF Next, GroomStep

----------------------------------------------------------------------------
(* A whale is labelled before its crab starts, what is labelled is not on  *)
(* the list of a day, and crabs of the groomer have whales of their own.   *)
LabelInv ==
    /\ groom.todo \cap labelled = {}
    /\ \A c \in Crabs : crab[c].by = "groom" => crab[c].plan \in labelled
    /\ \A c, d \in Crabs :
         (/\ crab[c].by = "groom" /\ crab[d].by = "groom"
          /\ crab[c].plan = crab[d].plan) => c = d
    /\ groom.pc = "slice" =>
         /\ groom.next \in labelled
         /\ \A c \in Crabs : crab[c].by = "groom" => crab[c].plan # groom.next

(* The crabs that a day waits for are crabs of the groomer.                *)
PendingInv ==
    \A c \in groom.pending : c \in Crabs /\ crab[c].by = "groom"

(* The groomer after a step that neither detects nor labels a whale.       *)
GroomKept ==
    /\ {"pc", "todo", "next", "pending"} \subseteq DOMAIN groom'
    /\ groom'.todo \subseteq groom.todo /\ labelled' = labelled
    /\ groom'.pending \subseteq groom.pending
    /\ groom'.pc = "slice" => groom.pc = "slice" /\ groom'.next = groom.next

GroomFields == {"pc", "todo", "next", "pending"}

(* The steps that matter: the list of a day, a label, a start.             *)
Detected ==
    /\ SameOrders /\ GroomFields \subseteq DOMAIN groom'
    /\ groom'.todo \cap labelled = {} /\ labelled' = labelled
    /\ groom'.pending = groom.pending /\ groom'.pc # "slice"

Labelled ==
    \E t \in groom.todo :
        /\ SameOrders /\ GroomFields \subseteq DOMAIN groom'
        /\ labelled' = labelled \cup {t} /\ groom'.todo = groom.todo \ {t}
        /\ groom'.pending = groom.pending /\ groom'.next = t

Started ==
    \E c \in Crabs :
        /\ Ordered(c, groom.next, "groom") /\ groom.pc = "slice"
        /\ GroomFields \subseteq DOMAIN groom' /\ labelled' = labelled
        /\ groom'.todo = groom.todo /\ groom'.pc # "slice"
        /\ groom'.pending = groom.pending \cup {c}

(* Another crab starts, or none does.                                      *)
Elsewhere ==
    /\ GroomKept
    /\ \/ SameOrders
       \/ \E c \in Crabs : \E plan, by : by # "groom" /\ Ordered(c, plan, by)

(* Every step is one of these.                                             *)
LEMMA StepKinds ==
    ASSUME ShapeInv, [Next]_vars
    PROVE  Detected \/ Labelled \/ Started \/ Elsewhere
<1>0. UNCHANGED crab => SameOrders
  BY DEF SameOrders, ShapeInv
<1>1. UNCHANGED <<groom, labelled>> => GroomKept
  BY DEF GroomKept, ShapeInv
<1>2. CASE CrabsNext
  <2>1. PICK c \in Crabs : \/ CrabStep(c) \/ handleCrabSignal(c)
                           \/ handleCrabDecompose(c) \/ CeremonyHandsOver(c)
                           \/ \E d \in Crabs : CeremonyStartsCrab(c, d)
    BY <1>2 DEF CrabsNext
  <2>2. GroomKept
    BY <1>1, <1>2 DEF CrabsNext, groomVars
  <2>3. CASE CrabStep(c)
    BY <2>2, <2>3, CrabStepOrders DEF Elsewhere
  <2>4. CASE handleCrabSignal(c)
    BY <1>0, <2>2, <2>4 DEF handleCrabSignal, Elsewhere
  <2>5. CASE handleCrabDecompose(c)
    <3>1. "api" # "groom"
      OBVIOUS
    <3>2. \E review : /\ fresh(c)
            /\ crab' = [crab EXCEPT ![c] = started(NoTask, review, "api", 0)]
      BY <2>5 DEF handleCrabDecompose
    <3>3. Ordered(c, NoTask, "api")
      BY <3>2, StartedCrab
    <3> QED BY <2>2, <3>1, <3>3 DEF Elsewhere
  <2>6. CASE CeremonyHandsOver(c)
    <3>1. "ceremony" # "groom"
      OBVIOUS
    <3>2. PICK s \in Seeds : /\ fresh(c)
            /\ crab' = [crab EXCEPT ![c] = started(s, FALSE, "ceremony", 0)]
      BY <2>6 DEF CeremonyHandsOver
    <3>3. Ordered(c, s, "ceremony")
      BY <3>2, StartedCrab
    <3> QED BY <2>2, <3>1, <3>3 DEF Elsewhere
  <2>7. ASSUME NEW d \in Crabs, CeremonyStartsCrab(c, d)
        PROVE  Elsewhere
    <3>1. "ceremony" # "groom"
      OBVIOUS
    <3>2. /\ fresh(d)
          /\ crab' = [crab EXCEPT ![d] =
                        started(crab[c].plan, FALSE, "ceremony", c)]
      BY <2>7 DEF CeremonyStartsCrab
    <3>3. Ordered(d, crab[c].plan, "ceremony")
      BY <3>2, StartedCrab
    <3> QED BY <2>2, <3>1, <3>3 DEF Elsewhere
  <2> QED BY <2>1, <2>3, <2>4, <2>5, <2>6, <2>7
<1>3. CASE UNCHANGED vars \/ TacticalStep \/ \E t \in Rows : Promote(t) \/ RunTask(t)
  <2>1. UNCHANGED <<crab, groom, labelled>>
    BY <1>3 DEF vars, crabVars, groomVars, TacticalStep, StartTactical,
       MutateTasks, Promote, RunTask
  <2> QED BY <1>0, <1>1, <2>1 DEF Elsewhere
<1>4. CASE StartDay \/ StrategicAnalysis \/ applyMutation
           \/ GenerateMorningBriefing \/ UBSBaselineScan
           \/ \E c \in Crabs : CollectCrab(c)
  <2>1. UNCHANGED <<crab, labelled>>
    BY <1>4 DEF crabVars, StartDay, StrategicAnalysis, applyMutation,
       GenerateMorningBriefing, UBSBaselineScan, CollectCrab
  <2>2. GroomKept
    <3> USE <2>1 DEF GroomKept, ShapeInv, GroomGoto, GroomAt
    <3>1. CASE StartDay
      BY <3>1 DEF StartDay
    <3>2. CASE StrategicAnalysis
      BY <3>2 DEF StrategicAnalysis
    <3>3. CASE applyMutation
      BY <3>3 DEF applyMutation
    <3>4. CASE GenerateMorningBriefing \/ UBSBaselineScan
      BY <3>4 DEF GenerateMorningBriefing, UBSBaselineScan
    <3>5. CASE \E c \in Crabs : CollectCrab(c)
      BY <3>5 DEF CollectCrab
    <3> QED BY <1>4, <3>1, <3>2, <3>3, <3>4, <3>5
  <2> QED BY <1>0, <2>1, <2>2 DEF Elsewhere
<1>5. CASE TerminateGroom
  <2>1. SameOrders
    BY <1>5 DEF TerminateGroom, SameOrders, ShapeInv, Fields, running
  <2>2. GroomKept
    BY <1>5 DEF TerminateGroom, GroomKept, ShapeInv
  <2> QED BY <2>1, <2>2 DEF Elsewhere
<1>6. CASE DetectWhales
  <2>1. UNCHANGED <<crab, labelled>>
    BY <1>6 DEF DetectWhales, crabVars
  <2>2. CASE Fails("label") /\ GroomGoto("label")
    <3>1. GroomKept
      BY <2>1, <2>2 DEF GroomKept, ShapeInv, GroomGoto
    <3> QED BY <1>0, <2>1, <3>1 DEF Elsewhere
  <2>3. ASSUME NEW whales \in SUBSET detectable,
               groom' = [groom EXCEPT !.pc = "label", !.todo = whales]
        PROVE  Detected
    <3>1. whales \cap labelled = {}
      BY DEF detectable
    <3> QED BY <1>0, <2>1, <2>3, <3>1 DEF Detected, ShapeInv, GroomFields
  <2> QED BY <1>6, <2>2, <2>3 DEF DetectWhales
<1>7. CASE LabelWhale
  <2>1. UNCHANGED crab
    BY <1>7 DEF LabelWhale, crabVars
  <2>2. PICK t \in groom.todo :
         \/ /\ labelled' = labelled \cup {t}
            /\ groom' = [groom EXCEPT !.pc = "slice", !.todo = @ \ {t},
                                      !.next = t]
         \/ /\ groom' = [groom EXCEPT !.todo = @ \ {t}]
            /\ UNCHANGED labelled
    BY <1>7 DEF LabelWhale
  <2>3. CASE /\ labelled' = labelled \cup {t}
             /\ groom' = [groom EXCEPT !.pc = "slice", !.todo = @ \ {t},
                                       !.next = t]
    <3>1. /\ GroomFields \subseteq DOMAIN groom' /\ groom'.todo = groom.todo \ {t}
          /\ groom'.pending = groom.pending /\ groom'.next = t
      BY <2>3 DEF ShapeInv, GroomFields
    <3> QED BY <1>0, <2>1, <2>3, <3>1 DEF Labelled
  <2>4. CASE /\ groom' = [groom EXCEPT !.todo = @ \ {t}]
             /\ UNCHANGED labelled
    <3>1. GroomKept
      BY <2>4 DEF GroomKept, ShapeInv
    <3> QED BY <1>0, <2>1, <3>1 DEF Elsewhere
  <2> QED BY <2>2, <2>3, <2>4
<1>8. CASE StartSlicing
  <2>1. PICK c \in Crabs :
         /\ fresh(c)
         /\ crab' = [crab EXCEPT ![c] = started(groom.next, FALSE, "groom", 0)]
         /\ groom' = [groom EXCEPT !.pc = "label", !.next = NoTask,
                                   !.pending = @ \cup {c}]
    BY <1>8 DEF StartSlicing
  <2>2. Ordered(c, groom.next, "groom")
    BY <2>1, StartedCrab
  <2>3. groom.pc = "slice" /\ labelled' = labelled
    BY <1>8 DEF StartSlicing, GroomAt
  <2>4. /\ GroomFields \subseteq DOMAIN groom' /\ groom'.todo = groom.todo
        /\ groom'.pc # "slice" /\ groom'.pending = groom.pending \cup {c}
    BY <2>1 DEF ShapeInv, GroomFields
  <2> QED BY <2>2, <2>3, <2>4 DEF Started
<1> QED
  BY <1>2, <1>3, <1>4, <1>5, <1>6, <1>7, <1>8 DEF Next, GroomStep

----------------------------------------------------------------------------
(* The three invariants hold at the start.                                 *)
LEMMA GroomStarts ==
    ASSUME GroomInit
    PROVE  ShapeInv /\ LabelInv /\ PendingInv
<1>1. /\ crab = [c \in Crabs |-> Idle]
      /\ status = [t \in Rows |-> IF t \in Seeds THEN world.seeds ELSE "absent"]
      /\ world \in Worlds
      /\ groom = [pc |-> "asleep", day |-> 0, mutations |-> 0, todo |-> {},
                  next |-> NoTask, pending |-> {}]
      /\ labelled = {}
  BY DEF GroomInit, Init
<1>2. /\ Fields \subseteq DOMAIN Idle /\ Idle.attempt = 1 /\ Idle.by = "none"
  BY DEF Idle, Fields
<1>3. 1 \in 1..EmitAttempts
  BY CrabAssumption
<1>4. ShapeInv
  <2>2. world.seeds \in Statuses
    BY <1>1, CrabAssumption DEF Statuses
  <2>1. status \in [Rows -> Statuses \cup {"absent"}]
    BY <1>1, <2>2
  <2> QED BY <1>1, <1>2, <1>3, <2>1 DEF ShapeInv
<1>5. \A c \in Crabs : crab[c].by # "groom"
  BY <1>1, <1>2
<1>6. LabelInv
  BY <1>1, <1>5 DEF LabelInv
<1>7. PendingInv
  BY <1>1 DEF PendingInv
<1> QED BY <1>4, <1>6, <1>7

(* What a collected crab does to the tasks.                                *)
LEMMA CollectedStatus ==
    ASSUME ShapeInv, NEW c \in Crabs, CollectCrab(c)
    PROVE  /\ status' \in [Rows -> Statuses \cup {"absent"}]
           /\ \/ UNCHANGED status
              \/ sliced(c) /\ status' = [status EXCEPT ![crab[c].plan] = "completed"]
<1>1. \/ UNCHANGED status
      \/ sliced(c) /\ status' = [status EXCEPT ![crab[c].plan] = "completed"]
  BY DEF CollectCrab, DAG!SetStatus, dagVars
<1>2. "completed" \in Statuses
  BY DEF Statuses, TerminalStatuses
<1> QED BY <1>1, <1>2 DEF ShapeInv

(* Every step keeps the shape of crabs, tasks and the groomer.             *)
LEMMA ShapeStep ==
    ASSUME ShapeInv, [Next]_vars
    PROVE  ShapeInv'
<1>1. status' \in [Rows -> Statuses \cup {"absent"}]
  BY StatusStep, CollectedStatus DEF StatusKept
<1>2. SameOrders \/ \E c \in Crabs : \E plan, by : Ordered(c, plan, by)
  BY StepKinds DEF Detected, Labelled, Started, Elsewhere
<1>3. {"pc", "todo", "next", "pending"} \subseteq DOMAIN groom'
  BY StepKinds DEF Detected, Labelled, Started, Elsewhere, GroomKept, GroomFields
<1>4. CASE SameOrders
  BY <1>1, <1>3, <1>4 DEF ShapeInv, SameOrders
<1>5. ASSUME NEW c \in Crabs, NEW plan, NEW by, Ordered(c, plan, by)
      PROVE  ShapeInv'
  <2>1. \A d \in Crabs : /\ Fields \subseteq DOMAIN crab'[d]
                         /\ crab'[d].attempt \in 1..EmitAttempts
                         /\ crab'[d].pc = "idle" => crab'[d].by = "none"
    BY <1>5 DEF ShapeInv, Ordered
  <2> QED BY <1>1, <1>3, <1>5, <2>1 DEF ShapeInv, Ordered
<1> QED BY <1>2, <1>4, <1>5

(* The crabs of the groomer, with their whales, after a step that starts   *)
(* none for it.                                                            *)
LEMMA ForeignOrders ==
    ASSUME ShapeInv,
           SameOrders \/ \E c \in Crabs : \E plan, by : by # "groom" /\ Ordered(c, plan, by)
    PROVE  \A d \in Crabs : /\ crab'[d].by = "groom" <=> crab[d].by = "groom"
                            /\ crab[d].by = "groom" => crab'[d].plan = crab[d].plan
<1>1. CASE SameOrders
  BY <1>1 DEF SameOrders
<1>2. ASSUME NEW c \in Crabs, NEW plan, NEW by, by # "groom", Ordered(c, plan, by)
      PROVE  \A d \in Crabs : /\ crab'[d].by = "groom" <=> crab[d].by = "groom"
                              /\ crab[d].by = "groom" => crab'[d].plan = crab[d].plan
  <2>1. crab[c].by = "none" /\ crab'[c].by = by
    BY <1>2 DEF Ordered, ShapeInv
  <2> QED BY <1>2, <2>1 DEF Ordered
<1> QED BY <1>1, <1>2

(* Every step keeps the labels ahead of the crabs.                         *)
LEMMA LabelStep ==
    ASSUME ShapeInv, LabelInv, PendingInv, [Next]_vars
    PROVE  LabelInv' /\ PendingInv'
<1> DEFINE Kept == \A d \in Crabs :
                     /\ crab'[d].by = "groom" <=> crab[d].by = "groom"
                     /\ crab[d].by = "groom" => crab'[d].plan = crab[d].plan
<1>1. CASE Elsewhere
  <2>1. Kept
    BY <1>1, ForeignOrders DEF Elsewhere
  <2> HIDE DEF Kept
  <2>2. GroomKept
    BY <1>1 DEF Elsewhere
  <2>3. LabelInv'
    BY <2>1, <2>2 DEF Kept, GroomKept, LabelInv
  <2>4. PendingInv'
    BY <2>1, <2>2 DEF Kept, GroomKept, PendingInv
  <2> QED BY <2>3, <2>4
<1>2. CASE Detected
  <2>1. Kept
    BY <1>2, ForeignOrders DEF Detected
  <2>2. LabelInv'
    BY <1>2, <2>1 DEF Detected, LabelInv
  <2>3. PendingInv'
    BY <1>2, <2>1 DEF Detected, PendingInv
  <2> QED BY <2>2, <2>3
<1>3. CASE Labelled
  <2>1. Kept
    BY <1>3, ForeignOrders DEF Labelled
  <2>2. PICK t \in groom.todo :
          /\ labelled' = labelled \cup {t} /\ groom'.todo = groom.todo \ {t}
          /\ groom'.pending = groom.pending /\ groom'.next = t
    BY <1>3 DEF Labelled
  <2>3. t \notin labelled /\ \A c \in Crabs : crab[c].by = "groom" => crab[c].plan # t
    BY DEF LabelInv
  <2>4. LabelInv'
    BY <2>1, <2>2, <2>3 DEF LabelInv
  <2>5. PendingInv'
    BY <2>1, <2>2 DEF PendingInv
  <2> QED BY <2>4, <2>5
<1>4. CASE Started
  <2>1. PICK c \in Crabs :
          /\ Ordered(c, groom.next, "groom") /\ groom.pc = "slice"
          /\ labelled' = labelled /\ groom'.todo = groom.todo
          /\ groom'.pc # "slice" /\ groom'.pending = groom.pending \cup {c}
    BY <1>4 DEF Started
  <2>2. /\ \A d \in Crabs \ {c} : crab'[d] = crab[d]
        /\ crab'[c].by = "groom" /\ crab'[c].plan = groom.next
    BY <2>1 DEF Ordered
  <2>3. /\ groom.next \in labelled
        /\ \A d \in Crabs : crab[d].by = "groom" => crab[d].plan # groom.next
    BY <2>1 DEF LabelInv
  <2>4. LabelInv'
    BY <2>1, <2>2, <2>3 DEF LabelInv
  <2>5. PendingInv'
    BY <2>1, <2>2 DEF PendingInv
  <2> QED BY <2>4, <2>5
<1> QED BY <1>1, <1>2, <1>3, <1>4, StepKinds

(* The three hold in every reachable state.                                *)
LEMMA Labels == Spec => [](ShapeInv /\ LabelInv /\ PendingInv)
<1>1. ShapeInv /\ LabelInv /\ PendingInv /\ [Next]_vars
        => (ShapeInv /\ LabelInv /\ PendingInv)'
  BY ShapeStep, LabelStep
<1> QED BY <1>1, GroomStarts, PTL DEF Spec

(* A whale is sliced by the groomer at most once, although it stays on the *)
(* list of detectable tasks until its crab has ended, crabs fail, days are *)
(* cut short and other ceremonies slice what they like: the label is       *)
(* written before the crab of StrategicGroomWorkflow starts, and never     *)
(* taken off.                                                              *)
THEOREM WhalesSlicedOnce == Spec => []SlicedOnce
<1>1. ASSUME LabelInv, NEW t \in Rows
      PROVE  Cardinality(slicing(t)) <= 1
  <2>1. CASE slicing(t) = {}
    BY <2>1, FS_EmptySet
  <2>2. ASSUME NEW c \in slicing(t)
        PROVE  Cardinality(slicing(t)) <= 1
    <3>1. slicing(t) = {c}
      BY <1>1, <2>2 DEF LabelInv, slicing
    <3>2. Cardinality({c}) = 1
      BY FS_Singleton
    <3> QED BY <3>1, <3>2
  <2> QED BY <2>1, <2>2
<1>2. LabelInv => SlicedOnce
  BY <1>1 DEF SlicedOnce
<1> QED BY <1>2, Labels, PTL

----------------------------------------------------------------------------
(* Whatever completes a task has run it, or it is a whale whose crab wrote *)
(* morsels, in the last attempt of EmitMorselsActivity: the groomer looks  *)
(* at the count of that attempt before it closes the whale, and nothing    *)
(* else completes a task.                                                  *)
THEOREM SlicedWhalesHaveMorsels == Spec => SlicedWhaleHasMorsels
<1>1. ASSUME ShapeInv, PendingInv, [Next]_vars, NEW t \in Rows,
             status[t] # "completed", status'[t] = "completed", ~RunTask(t)
      PROVE  \E c \in slicing(t), n \in 1..EmitAttempts, i \in 0..(MaxMorsels - 1) :
                exists(<<c, n, "morsel", i>>)
  <2>1. PICK c \in Crabs : CollectCrab(c)
    BY <1>1, StatusStep DEF StatusKept
  <2>2. sliced(c) /\ crab[c].plan = t
    <3>1. sliced(c) /\ status' = [status EXCEPT ![crab[c].plan] = "completed"]
      BY <1>1, <2>1, CollectedStatus
    <3>2. t \in DOMAIN status
      BY <1>1 DEF ShapeInv
    <3> QED BY <1>1, <3>1, <3>2
  <2>3. c \in slicing(t)
    BY <1>1, <2>1, <2>2 DEF CollectCrab, PendingInv, slicing
  <2>4. PICK n \in 1..EmitAttempts : n = crab[c].attempt
    BY <1>1 DEF ShapeInv
  <2>5. PICK i \in 0..(MaxMorsels - 1) : exists(<<c, n, "morsel", i>>)
    BY <2>2, <2>4 DEF sliced, MorselsEmitted, row
  <2> QED BY <2>3, <2>5
<1>2. ShapeInv /\ PendingInv /\ [Next]_vars =>
        [\A t \in Rows :
           status[t] # "completed" /\ status'[t] = "completed" =>
             \/ RunTask(t)
             \/ \E c \in slicing(t), n \in 1..EmitAttempts, i \in 0..(MaxMorsels - 1) :
                  exists(<<c, n, "morsel", i>>)]_vars
  BY <1>1
<1> QED BY <1>2, Labels, PTL DEF Spec, SlicedWhaleHasMorsels

=============================================================================
