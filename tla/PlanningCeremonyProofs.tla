----------------------- MODULE PlanningCeremonyProofs -----------------------
(***************************************************************************)
(* Safety of planning sessions, for every backlog, limit, clock and set of *)
(* failing activities.                                                     *)
(*                                                                         *)
(* GateInv says, for each place of the loop, which gates of the cycle have *)
(* been passed.  ScoreInv keeps the scores in memory next to the stored    *)
(* ones: what is not stored is zero in memory, so that an item that comes  *)
(* back to the backlog in a later cycle agrees as well.                    *)
(***************************************************************************)
EXTENDS PlanningCeremony, FiniteSetTheorems, WellFoundedInduction, TLAPS

Past == Over \cup {"closing"}   \* nothing is asked for any more
Places == Past \cup Waits \cup {"begin", "groom", "questions", "summary",
                                "crab"}

(* At each place of the loop, the gates of the cycle that lie behind it.   *)
GateInv ==
    /\ pc \in Places
    /\ cycle \in 0..MaxCycles /\ questions \in Nat /\ answers \in Nat
    /\ pc \in {"groom", "selection", "questions"} => answers = 0
    /\ pc \in {"questions", "answers", "summary", "greenlight", "crab"} =>
            selected \in backlog
    /\ pc = "answers" => answers < questions
    /\ pc \in {"summary", "greenlight", "crab"} =>
            questions > 0 /\ answers = questions
    /\ pc \in {"greenlight", "crab"} =>
            \/ plan = "sliceable"
            \/ plan = "large" /\ (Unattended \/ cycle = MaxCycles)

(* No session has begun.                                                   *)
LEMMA GateInit == Init => GateInv
  BY PlanningAssumption DEF Init, GateInv, Places, Past, Over, Waits

(* A step passes one gate, or goes back to a place that asks for fewer.    *)
LEMMA GateStep == GateInv /\ [Next]_vars => GateInv'
<1> SUFFICES ASSUME GateInv, [Next]_vars PROVE GateInv'
  OBVIOUS
<1> USE PlanningAssumption DEF GateInv, Places, Past, Over, Waits, Unattended
<1>1. CASE UNCHANGED vars
  BY <1>1 DEF vars, cycleVars
<1>2. CASE StartSession
  BY <1>2 DEF StartSession
<1>3. CASE Tick
  BY <1>3 DEF Tick, cycleVars
<1>4. CASE WaitTimesOut
  BY <1>4 DEF WaitTimesOut, cycleVars
<1>5. CASE CrabReturns
  BY <1>5 DEF CrabReturns, cycleVars
<1>6. CASE handlePlanningPrompt
  BY <1>6 DEF handlePlanningPrompt, cycleVars
<1>7. CASE handlePlanningStop
  BY <1>7 DEF handlePlanningStop, cycleVars
<1>8. CASE \E s \in Signals : \E v \in values(s) : handlePlanningSignal(s, v)
  BY <1>8 DEF handlePlanningSignal, cycleVars
<1>10. CASE runCeremonyMode
  BY <1>2, <1>10 DEF runCeremonyMode
<1>11. CASE runCeremonyLoop \/ \E line \in Lines : ceremonyLine(line)
  BY <1>11 DEF runCeremonyLoop, ceremonyLine, cycleVars
<1>9. CASE Step
  <2>1. CASE BeginCycle
    BY <2>1 DEF BeginCycle
  <2>2. CASE \/ GiveUp \/ reviewPlanningCeremonyOutcome
             \/ ActivityError \/ BacklogRejected
    BY <2>2 DEF GiveUp, reviewPlanningCeremonyOutcome, ActivityError,
       BacklogRejected, cycleVars
  <2>3. CASE Groom
    BY <2>3 DEF Groom, Await
  <2>4. CASE AutoSelect
    BY <2>4 DEF AutoSelect, Select, Retry
  <2>5. CASE ReceiveSelection
    BY <2>5 DEF ReceiveSelection, Select, Retry
  <2>6. CASE QuestionsBlocked
    BY <2>6 DEF QuestionsBlocked, Retry, cycleVars
  <2>7. CASE GenerateQuestions
    BY <2>7 DEF GenerateQuestions, GenerateQuestionsActivity, Await, Retry
  <2>8. CASE AutoAnswers
    BY <2>8 DEF AutoAnswers
  <2>9. CASE ReceiveAnswer
    BY <2>9 DEF ReceiveAnswer, Await
  <2>10. CASE SummarizePlan
    BY <2>10 DEF SummarizePlan, SummarizePlanActivity, Await, Retry, iterates
  <2>11. CASE AutoGreenlight \/ ReceiveGreenlight
    BY <2>11 DEF AutoGreenlight, ReceiveGreenlight, Decide, Retry, cycleVars
  <2> QED
    BY <1>9, <2>1, <2>2, <2>3, <2>4, <2>5, <2>6, <2>7, <2>8, <2>9, <2>10,
       <2>11 DEF Step
<1> QED
  BY <1>1, <1>2, <1>3, <1>4, <1>5, <1>6, <1>7, <1>8, <1>9, <1>10, <1>11
  DEF Next

(* What PlanningCeremonyWorkflow hands to the crab has passed every gate   *)
(* of its cycle, whatever people send and whichever activities fail.       *)
THEOREM GatedPlans == Spec => []DecomposesGatedPlans
<1>1. GateInv => DecomposesGatedPlans
  BY DEF GateInv, DecomposesGatedPlans
<1> QED
  BY GateInit, GateStep, <1>1, PTL DEF Spec

----------------------------------------------------------------------------
(* The clock is a number and no deadline lies after the session's.         *)
WaitInv == now \in Nat /\ WaitsWithinSession

(* planningWaitTimeout cuts a wait to what is left of the session.         *)
LEMMA AwaitWithinSession ==
    ASSUME NEW stage, NEW rows, now \in Nat, now' = now, world' = world,
           Await(stage, rows), stage \in Waits
    PROVE  WaitsWithinSession'
  BY PlanningAssumption
  DEF WaitsWithinSession, Await, planningWaitTimeout, Waits, Unattended

(* A deadline changes only where a wait begins.                            *)
LEMMA WaitStep == WaitInv /\ [Next]_vars => WaitInv'
<1> SUFFICES ASSUME WaitInv, [Next]_vars PROVE WaitInv'
  OBVIOUS
<1> USE PlanningAssumption DEF WaitInv, Over, Unattended
<1>1. CASE UNCHANGED vars \/ StartSession \/ Tick \/ WaitTimesOut
           \/ CrabReturns \/ handlePlanningPrompt \/ handlePlanningStop
  BY <1>1 DEF vars, StartSession, Tick, WaitTimesOut, CrabReturns,
     handlePlanningPrompt, handlePlanningStop, WaitsWithinSession, Waits
<1>2. CASE \E s \in Signals : \E v \in values(s) : handlePlanningSignal(s, v)
  BY <1>2 DEF handlePlanningSignal, WaitsWithinSession
<1>10. CASE runCeremonyMode
  BY <1>1, <1>10 DEF runCeremonyMode
<1>11. CASE runCeremonyLoop \/ \E line \in Lines : ceremonyLine(line)
  BY <1>11 DEF runCeremonyLoop, ceremonyLine, WaitsWithinSession
<1>3. CASE Groom
  BY <1>3, AwaitWithinSession DEF Groom, Waits
<1>4. CASE GenerateQuestions
  BY <1>4, AwaitWithinSession
  DEF GenerateQuestions, Retry, WaitsWithinSession, Waits
<1>5. CASE ReceiveAnswer
  BY <1>5, AwaitWithinSession DEF ReceiveAnswer, WaitsWithinSession, Waits
<1>6. CASE SummarizePlan
  BY <1>6, AwaitWithinSession
  DEF SummarizePlan, Retry, WaitsWithinSession, Waits
<1>7. CASE BeginCycle \/ GiveUp \/ reviewPlanningCeremonyOutcome
           \/ ActivityError \/ BacklogRejected \/ AutoAnswers
           \/ QuestionsBlocked
  BY <1>7 DEF BeginCycle, GiveUp, reviewPlanningCeremonyOutcome,
     ActivityError, BacklogRejected, AutoAnswers, QuestionsBlocked, Retry, WaitsWithinSession, Waits
<1>8. CASE AutoSelect \/ ReceiveSelection
  BY <1>8 DEF AutoSelect, ReceiveSelection, Select, Retry,
     WaitsWithinSession, Waits
<1>9. CASE AutoGreenlight \/ ReceiveGreenlight
  BY <1>9 DEF AutoGreenlight, ReceiveGreenlight, Decide, Retry,
     WaitsWithinSession, Waits
<1> QED
  BY <1>1, <1>2, <1>3, <1>4, <1>5, <1>6, <1>7, <1>8, <1>9, <1>10, <1>11
  DEF Next, Step

(* planningWaitTimeout: no wait for a signal outlasts the session, for all *)
(* pairs of timeouts and at every moment of the session.                   *)
THEOREM WaitsEnd == Spec => []WaitsWithinSession
<1>1. Init => WaitInv
  BY DEF Init, WaitInv, WaitsWithinSession, Waits
<1> QED
  BY <1>1, WaitStep, PTL DEF Spec, WaitInv

(* CrabReturns: a task row is closed only if the crab reported it as done. *)
THEOREM ClosedIsDecomposed == Spec => []ClosedWhenDecomposed
<1>1. Init => ClosedWhenDecomposed
  BY DEF Init, ClosedWhenDecomposed
<1>2. ClosedWhenDecomposed /\ [Next]_vars => ClosedWhenDecomposed'
  BY DEF ClosedWhenDecomposed, Next, Step, vars, taskVars, StartSession,
     Tick, WaitTimesOut, CrabReturns, handlePlanningPrompt,
     handlePlanningStop, handlePlanningSignal, BeginCycle, GiveUp,
     reviewPlanningCeremonyOutcome, ActivityError, BacklogRejected, Groom,
     AutoSelect, ReceiveSelection, QuestionsBlocked, GenerateQuestions, AutoAnswers, ReceiveAnswer,
     SummarizePlan, AutoGreenlight, ReceiveGreenlight, runCeremonyMode,
     runCeremonyLoop, ceremonyLine
<1> QED
  BY <1>1, <1>2, PTL DEF Spec

----------------------------------------------------------------------------
Bounds == -50..50

(* An item without a stored score has none in memory, and an item of the   *)
(* backlog with a stored score has the same in memory.                     *)
ScoreInv ==
    /\ backlog \subseteq Items /\ world \in Worlds
    /\ adj \in [Ids -> Bounds] /\ scores \in [Ids -> Bounds \cup {NoRow}]
    /\ Faults \cap {"load", "persist"} = {} =>
        \A i \in Ids :
            /\ scores[i] = NoRow => adj[i] = 0
            /\ i \in backlog /\ scores[i] # NoRow => adj[i] = scores[i]

(* A rank in the shortlist is a number.                                    *)
LEMMA AheadType ==
    ASSUME NEW i, NEW S, S \subseteq Items PROVE ahead(i, S) \in Nat
<1>1. IsFiniteSet({j \in S : before(j, i)})
  BY FS_Subset, PlanningAssumption
<1> QED
  BY <1>1, FS_CardinalityType DEF ahead

(* An adjustment is an integer: the promotions are given for ranks 1 to 3. *)
LEMMA DeltaType ==
    ASSUME NEW i, NEW id, backlog \subseteq Items PROVE delta(i, id) \in Int
<1>1. shortlisted \ {id} \subseteq Items
  BY DEF shortlisted
<1>2. ahead(i, shortlisted \ {id}) + 1 \in Nat \ {0}
  BY <1>1, AheadType
<1>3. ASSUME NEW k \in Nat \ {0}, k <= 3 PROVE promotion[k] \in Int
  <2>1. k = 1 \/ k = 2 \/ k = 3
    BY <1>3
  <2> QED
    BY <2>1 DEF promotion
<1> QED
  BY <1>2, <1>3 DEF delta

(* clamp keeps a score within fifty.                                       *)
LEMMA ClampType == ASSUME NEW x \in Int PROVE clamp(x) \in Bounds
  BY DEF clamp, Bounds

(* clamp leaves a score that is within fifty alone.                        *)
LEMMA ClampId == ASSUME NEW x \in Bounds PROVE clamp(x + 0) = x
  BY DEF clamp, Bounds

(* Adjusting in memory and by statement leads to the same score.           *)
LEMMA AdjustStep ==
    ASSUME ScoreInv, NEW d \in [Ids -> Int], Adjust(d),
           backlog' = backlog, world' = world
    PROVE  ScoreInv'
<1> USE DEF ScoreInv, Faults
<1>1. PICK failing \in IF "persist" \in Faults THEN SUBSET Ids ELSE {{}} :
        /\ adj' = [i \in Ids |-> clamp(adj[i] + d[i])]
        /\ scores' = [i \in Ids |-> IF i \in failing THEN scores[i]
                                      ELSE persisted(i, d[i])]
  BY DEF Adjust
<1>2. \A i \in Ids : adj[i] \in Bounds /\ adj[i] \in Int /\ d[i] \in Int
  BY DEF Bounds
<1>3. \A i \in Ids : scores[i] # NoRow => scores[i] \in Int
  BY DEF Bounds
<1>4. adj' \in [Ids -> Bounds]
  BY <1>1, <1>2, ClampType
<1>5. \A i \in Ids : persisted(i, d[i]) \in Bounds \cup {NoRow}
  BY <1>2, <1>3, ClampType DEF persisted
<1>6. scores' \in [Ids -> Bounds \cup {NoRow}]
  BY <1>1, <1>5
<1>7. ASSUME Faults' \cap {"load", "persist"} = {}, NEW i \in Ids
      PROVE  /\ scores'[i] = NoRow => adj'[i] = 0
             /\ i \in backlog' /\ scores'[i] # NoRow => adj'[i] = scores'[i]
  <2>1. scores'[i] = persisted(i, d[i]) /\ adj'[i] = clamp(adj[i] + d[i])
    BY <1>1, <1>7
  <2>2. CASE d[i] = 0
    BY <1>2, <1>7, <2>1, <2>2, ClampId DEF persisted
  <2>3. CASE d[i] # 0 /\ scores[i] = NoRow
    <3>1. adj[i] = 0
      BY <1>7, <2>3
    <3>2. adj'[i] = clamp(d[i]) /\ scores'[i] = clamp(d[i])
      BY <1>2, <2>1, <2>3, <3>1 DEF persisted
    <3> QED
      BY <1>2, <3>2, ClampType, PlanningAssumption DEF Bounds
  <2>4. CASE d[i] # 0 /\ scores[i] # NoRow
    <3>1. scores'[i] = clamp(scores[i] + d[i])
      BY <2>1, <2>4 DEF persisted
    <3>2. scores'[i] # NoRow
      BY <1>2, <1>3, <2>4, <3>1, ClampType, PlanningAssumption DEF Bounds
    <3> QED
      BY <1>7, <2>1, <2>4, <3>1, <3>2
  <2> QED
    BY <2>2, <2>3, <2>4
<1> QED
  BY <1>4, <1>6, <1>7

(* A review of the shortlist is such an adjustment.                        *)
LEMMA ReviewStep ==
    ASSUME ScoreInv, NEW id, reviewAndProposeAlternatives(id),
           backlog' = backlog, world' = world
    PROVE  ScoreInv'
<1>1. [i \in Ids |-> delta(i, id)] \in [Ids -> Int]
  BY DeltaType DEF ScoreInv
<1> QED
  BY <1>1, AdjustStep DEF reviewAndProposeAlternatives

(* No score is in memory before the first session loads it.                *)
LEMMA ScoreInit == Init => ScoreInv
  BY PlanningAssumption DEF Init, ScoreInv, Ids, Bounds, Faults

(* Scores change when a backlog is loaded and when it is reviewed.         *)
LEMMA ScoreStep == ScoreInv /\ [Next]_vars => ScoreInv'
<1> SUFFICES ASSUME ScoreInv, [Next]_vars PROVE ScoreInv'
  OBVIOUS
<1>1. CASE UNCHANGED <<backlog, world, adj, scores>>
  BY <1>1 DEF ScoreInv, Faults
<1>2. CASE StartSession
  BY <1>2, PlanningAssumption DEF StartSession, ScoreInv, Faults, Bounds
<1>3. CASE BeginCycle
  BY <1>3 DEF BeginCycle, scoreVars, ScoreInv, Faults
<1>4. CASE Groom
  <2>1. PICK items \in IF Seeded THEN {{Seed}} ELSE SUBSET Items \ {{}},
             loaded \in IF "load" \in Faults THEN BOOLEAN ELSE {TRUE} :
          backlog' = items /\ adj' = hydrated(items, loaded)
    BY <1>4 DEF Groom, GroomBacklogActivity
  <2>2. items \subseteq Items
    BY <2>1, PlanningAssumption
  <2>3. scores' = scores /\ world' = world
    BY <1>4 DEF Groom, GroomBacklogActivity
  <2>4. adj' \in [Ids -> Bounds]
    BY <2>1 DEF hydrated, ScoreInv
  <2> QED
    BY <2>1, <2>2, <2>3, <2>4 DEF ScoreInv, hydrated, Faults
<1>5. CASE AutoSelect
  BY <1>1, <1>5, ReviewStep DEF AutoSelect, Select, Retry, scoreVars
<1>6. CASE ReceiveSelection
  BY <1>1, <1>6, ReviewStep DEF ReceiveSelection, Select, Retry, scoreVars
<1>7. CASE QuestionsBlocked
  BY <1>7, ReviewStep DEF QuestionsBlocked, Retry, cycleVars
<1>8. CASE GenerateQuestions
  BY <1>1, <1>8, ReviewStep DEF GenerateQuestions, Retry, scoreVars
<1>9. CASE SummarizePlan
  BY <1>1, <1>9, ReviewStep DEF SummarizePlan, Retry, scoreVars
<1>10. CASE AutoGreenlight \/ ReceiveGreenlight
  <2>1. [i \in Ids |-> IF i = selected THEN 10 ELSE 0] \in [Ids -> Int]
    OBVIOUS
  <2>2. backlog' = backlog /\ world' = world
    BY <1>10 DEF AutoGreenlight, ReceiveGreenlight, cycleVars
  <2>3. \/ Adjust([i \in Ids |-> IF i = selected THEN 10 ELSE 0])
        \/ reviewAndProposeAlternatives(selected)
    BY <1>10 DEF AutoGreenlight, ReceiveGreenlight, Decide, Retry
  <2> QED
    BY <2>1, <2>2, <2>3, AdjustStep, ReviewStep
<1>11. CASE Tick \/ WaitTimesOut \/ CrabReturns \/ handlePlanningPrompt
            \/ handlePlanningStop \/ GiveUp \/ ActivityError
            \/ reviewPlanningCeremonyOutcome
            \/ BacklogRejected \/ AutoAnswers \/ ReceiveAnswer
  BY <1>1, <1>11 DEF Tick, WaitTimesOut, CrabReturns, handlePlanningPrompt,
     handlePlanningStop, GiveUp, ActivityError, BacklogRejected,
     reviewPlanningCeremonyOutcome, AutoAnswers, ReceiveAnswer, cycleVars,
     scoreVars
<1>12. CASE \E s \in Signals : \E v \in values(s) :
                handlePlanningSignal(s, v)
  BY <1>1, <1>12 DEF handlePlanningSignal, cycleVars, scoreVars
<1>13. CASE UNCHANGED vars
  BY <1>1, <1>13 DEF vars, cycleVars, scoreVars
<1>14. CASE runCeremonyMode
  BY <1>2, <1>14 DEF runCeremonyMode
<1>15. CASE runCeremonyLoop \/ \E line \in Lines : ceremonyLine(line)
  BY <1>1, <1>15 DEF runCeremonyLoop, ceremonyLine, cycleVars, scoreVars
<1> QED
  BY <1>2, <1>3, <1>4, <1>5, <1>6, <1>7, <1>8, <1>9, <1>10, <1>11, <1>12,
     <1>13, <1>14, <1>15 DEF Next, Step

(* reviewAndProposeAlternatives and hydratePlanningCandidateScores: memory *)
(* and store agree about the backlog, for all items, scores and rankings,  *)
(* in sessions whose score statements work.                                *)
THEOREM ScoresStayEqual == Spec => []ScoresAgree
<1>1. ScoreInv => ScoresAgree
  BY DEF ScoreInv, ScoresAgree, Ids
<1> QED
  BY ScoreInit, ScoreStep, <1>1, PTL DEF Spec

----------------------------------------------------------------------------
(* The trace and the prompts.                                              *)

RowTypes ==
    {"tool_call", "candidate_ranked", "item_selected", "questions_result",
     "answer_recorded", "plan_summary_result", "greenlight_decision",
     "plan_agreed", "planning_signal_timeout", "planning_exhausted"}

Rows == [cycle : Nat, type : RowTypes, item : Ids \cup {NoItem}, n : Nat]

(* Until a session ends or begins to close, its trace has rows of the      *)
(* present cycle or an earlier one, and no row says that it timed out.     *)
TraceInv ==
    /\ trace \in Seq(Rows)
    /\ selected \in Ids \cup {NoItem}
    /\ pc \notin Past =>
         \A k \in DOMAIN trace : /\ trace[k].cycle <= cycle
                                 /\ trace[k].type # "planning_signal_timeout"

(* The rows of a trace.                                                    *)
LEMMA RowAt ==
    ASSUME trace \in Seq(Rows), NEW k \in DOMAIN trace
    PROVE  trace[k] \in Rows /\ trace[k].cycle \in Nat
<1>1. trace[k] \in Rows
  OBVIOUS
<1> QED BY <1>1 DEF Rows

(* Adding rows to the trace gives a trace.                                 *)
LEMMA NotedType ==
    ASSUME trace \in Seq(Rows), NEW rows \in Seq(Rows)
    PROVE  noted(rows) \in Seq(Rows)
BY DEF noted

(* The rows of a trace after others were added are rows of either.         *)
LEMMA NotedRows ==
    ASSUME trace \in Seq(Rows), NEW rows \in Seq(Rows),
           NEW k \in DOMAIN noted(rows)
    PROVE  \/ \E j \in DOMAIN trace : noted(rows)[k] = trace[j]
           \/ \E j \in DOMAIN rows : noted(rows)[k] = rows[j]
<1>1. CASE noted(rows) = rows
  BY <1>1
<1>2. CASE noted(rows) = trace \o rows
  <2>1. k \in 1..Len(trace) + Len(rows)
    BY <1>2
  <2>2. CASE k <= Len(trace)
    BY <1>2, <2>1, <2>2
  <2>3. CASE k > Len(trace)
    <3>1. k - Len(trace) \in DOMAIN rows
      BY <2>1, <2>3
    <3>2. (trace \o rows)[k] = rows[k - Len(trace)]
      BY <2>1, <2>3
    <3> QED BY <1>2, <3>1, <3>2
  <2> QED BY <2>1, <2>2, <2>3
<1> QED BY <1>1, <1>2 DEF noted

(* Record keeps the trace's part of TraceInv if the rows added do.         *)
LEMMA RecordKeeps ==
    ASSUME trace \in Seq(Rows), NEW rows \in Seq(Rows), Record(rows)
    PROVE  /\ trace' \in Seq(Rows)
           /\ \A k \in DOMAIN trace' :
                \/ \E j \in DOMAIN trace : trace'[k] = trace[j]
                \/ \E j \in DOMAIN rows : trace'[k] = rows[j]
<1>1. trace' = trace \/ trace' = noted(rows)
  BY DEF Record
<1> QED BY <1>1, NotedType, NotedRows

(* A row of the session is a row.                                          *)
LEMMA RowType ==
    ASSUME GateInv, NEW type \in RowTypes, NEW id \in Ids \cup {NoItem},
           NEW n \in Nat
    PROVE  /\ row(type, id, n) \in Rows
           /\ row(type, id, n).cycle = cycle
           /\ row(type, id, n).type = type
           /\ row(type, id, n).item = id
           /\ row(type, id, n).n = n
BY PlanningAssumption DEF GateInv, row, Rows

(* Rows of the present cycle that do not end the session, or any rows if   *)
(* the session ends.                                                       *)
Fits(rows) ==
    /\ rows \in Seq(Rows)
    /\ pc' \notin Past =>
         \A j \in DOMAIN rows : /\ rows[j].cycle = cycle'
                                /\ rows[j].type # "planning_signal_timeout"

(* Steps that add such rows, or none, keep TraceInv.                       *)
LEMMA TraceKept ==
    ASSUME GateInv, GateInv', TraceInv, cycle <= cycle',
           pc' \notin Past => pc \notin Past,
           selected' \in Ids \cup {NoItem},
           trace' = trace \/ \E rows : Fits(rows) /\ Record(rows)
    PROVE  TraceInv'
<1> USE DEF TraceInv
<1>0. cycle \in Nat /\ cycle' \in Nat
  BY PlanningAssumption DEF GateInv
<1>1. CASE trace' = trace
  <2>1. \A k \in DOMAIN trace : trace[k].cycle \in Nat
    BY RowAt
  <2> QED BY <1>0, <1>1, <2>1 DEF TraceInv
<1>2. ASSUME NEW rows, Fits(rows), Record(rows)
      PROVE  TraceInv'
  <2>1. rows \in Seq(Rows)
    BY <1>2 DEF Fits
  <2>2. trace' \in Seq(Rows)
    BY <1>2, <2>1, RecordKeeps
  <2>3. ASSUME pc' \notin Past, NEW k \in DOMAIN trace'
        PROVE  /\ trace'[k].cycle <= cycle'
               /\ trace'[k].type # "planning_signal_timeout"
    <3>1. \/ \E j \in DOMAIN trace : trace'[k] = trace[j]
          \/ \E j \in DOMAIN rows : trace'[k] = rows[j]
      BY <1>2, <2>1, <2>3, RecordKeeps
    <3>2. ASSUME NEW j \in DOMAIN trace, trace'[k] = trace[j]
          PROVE  /\ trace'[k].cycle <= cycle'
                 /\ trace'[k].type # "planning_signal_timeout"
      <4>1. trace[j].cycle \in Nat
        BY <3>2, RowAt
      <4> QED BY <1>0, <2>3, <3>2, <4>1
    <3>3. ASSUME NEW j \in DOMAIN rows, trace'[k] = rows[j]
          PROVE  /\ trace'[k].cycle <= cycle'
                 /\ trace'[k].type # "planning_signal_timeout"
      BY <1>0, <1>2, <2>3, <3>3 DEF Fits
    <3> QED BY <3>1, <3>2, <3>3
  <2> QED BY <2>2, <2>3
<1> QED BY <1>1, <1>2

(* A row by itself.                                                        *)
LEMMA OneRow ==
    ASSUME NEW r \in Rows
    PROVE  /\ <<r>> \in Seq(Rows) /\ DOMAIN <<r>> = {1} /\ <<r>>[1] = r
           /\ Head(<<r>>) = r /\ Len(<<r>>) = 1
OBVIOUS

(* One row of the session, which does not say that it timed out, fits.     *)
LEMMA RowFits ==
    ASSUME GateInv, NEW type \in RowTypes, NEW id \in Ids \cup {NoItem},
           NEW n \in Nat, type # "planning_signal_timeout", cycle' = cycle
    PROVE  Fits(<<row(type, id, n)>>)
<1> DEFINE r == row(type, id, n)
<1>1. r \in Rows /\ r.cycle = cycle' /\ r.type # "planning_signal_timeout"
  BY RowType
<1> HIDE DEF r
<1>2. Fits(<<r>>)
  BY <1>1, OneRow DEF Fits
<1> QED BY <1>2 DEF r

(* A wait that begins adds its row; one that cannot begin ends the session.*)
LEMMA AwaitFits ==
    ASSUME GateInv, NEW type \in RowTypes, NEW id \in Ids \cup {NoItem},
           NEW n \in Nat, type # "planning_signal_timeout", cycle' = cycle,
           NEW stage, Await(stage, <<row(type, id, n)>>)
    PROVE  \E rows : Fits(rows) /\ Record(rows)
<1> DEFINE r == row(type, id, n)
           t == row("planning_signal_timeout", NoItem, 0)
<1>1. Fits(<<r>>)
  BY RowFits
<1>2. r \in Rows /\ t \in Rows
  <2>1. "planning_signal_timeout" \in RowTypes /\ 0 \in Nat
        /\ NoItem \in Ids \cup {NoItem}
    BY DEF RowTypes
  <2> QED BY <2>1, RowType
<1>3. CASE Record(<<r>>)
  BY <1>1, <1>3
<1>4. CASE pc' = "closing" /\ Record(Append(<<r>>, t))
  <2> HIDE DEF r, t
  <2>1. Append(<<r>>, t) \in Seq(Rows)
    BY <1>2
  <2> QED BY <1>4, <2>1 DEF Fits, Past
<1> QED BY <1>3, <1>4 DEF Await

(* TraceInv is inductive.                                                  *)
LEMMA TraceStep ==
    GateInv /\ GateInv' /\ ScoreInv /\ TraceInv /\ [Next]_vars => TraceInv'
<1> SUFFICES ASSUME GateInv, GateInv', ScoreInv, TraceInv, [Next]_vars
             PROVE  TraceInv'
  OBVIOUS
<1>0. /\ cycle \in Nat /\ selected \in Ids \cup {NoItem} /\ 0 \in Nat
      /\ NoItem \in Ids \cup {NoItem}
      /\ "tool_call" \in RowTypes /\ "candidate_ranked" \in RowTypes
      /\ "item_selected" \in RowTypes /\ "questions_result" \in RowTypes
      /\ "answer_recorded" \in RowTypes /\ "plan_summary_result" \in RowTypes
      /\ "greenlight_decision" \in RowTypes /\ "plan_agreed" \in RowTypes
      /\ "planning_signal_timeout" \in RowTypes
      /\ "planning_exhausted" \in RowTypes
  BY PlanningAssumption DEF GateInv, TraceInv, RowTypes
<1>1. CASE StartSession
  <2>1. trace' = <<>> /\ selected' = NoItem
    BY <1>1 DEF StartSession
  <2> QED BY <2>1 DEF TraceInv
<1>2. CASE /\ trace' = trace /\ cycle' = cycle /\ selected' = selected
           /\ pc' \notin Past => pc \notin Past
  BY <1>0, <1>2, TraceKept
<1>3. CASE UNCHANGED vars \/ Tick \/ CrabReturns \/ handlePlanningPrompt
           \/ handlePlanningStop \/ runCeremonyLoop \/ ActivityError
           \/ BacklogRejected \/ QuestionsBlocked \/ reviewPlanningCeremonyOutcome
           \/ (\E s \in Signals : \E v \in values(s) : handlePlanningSignal(s, v))
           \/ (\E line \in Lines : ceremonyLine(line))
  BY <1>2, <1>3
  DEF vars, Tick, CrabReturns, handlePlanningPrompt, handlePlanningStop,
      runCeremonyLoop, ActivityError, BacklogRejected, QuestionsBlocked,
      handlePlanningSignal, ceremonyLine, cycleVars, traceVars, Retry, Past,
      Over, reviewPlanningCeremonyOutcome
<1>4. CASE runCeremonyMode
  BY <1>1, <1>4 DEF runCeremonyMode
<1>5. CASE WaitTimesOut
  <2> DEFINE r == row("planning_signal_timeout", selected, 0)
  <2>1. r \in Rows
    BY <1>0, RowType
  <2>2. pc' = "closing" /\ Record(<<r>>) /\ cycle' = cycle /\ selected' = selected
    BY <1>5 DEF WaitTimesOut, cycleVars
  <2>3. Fits(<<r>>)
    <3> HIDE DEF r
    <3> QED BY <2>1, <2>2, OneRow DEF Fits, Past, Over
  <2> QED BY <1>0, <2>2, <2>3, TraceKept DEF Past, Over
<1>6. CASE BeginCycle
  <2> DEFINE r == [row("tool_call", NoItem, 0) EXCEPT !.cycle = cycle + 1]
  <2>1. Record(<<r>>) /\ cycle' = cycle + 1 /\ selected' = NoItem
        /\ pc = "begin"
    BY <1>6 DEF BeginCycle
  <2>2. r \in Rows /\ r.cycle = cycle' /\ r.type = "tool_call"
    BY <1>0, <2>1 DEF row, Rows
  <2>3. Fits(<<r>>)
    <3> HIDE DEF r
    <3> QED BY <2>2, OneRow DEF Fits
  <2> HIDE DEF r
  <2> QED BY <1>0, <2>1, <2>3, TraceKept DEF Past, Over
<1>7. CASE GiveUp
  <2> DEFINE q == [row("planning_signal_timeout", NoItem, 0)
                     EXCEPT !.cycle = cycle + 1]
             r == row("planning_exhausted", NoItem, 0)
  <2>1. q \in Rows /\ r \in Rows
    BY <1>0 DEF row, Rows
  <2>2. pc' \in {"closing", "failed"} /\ (Record(<<q>>) \/ Record(<<r>>))
        /\ cycle' = cycle /\ selected' = selected
    BY <1>7 DEF GiveUp, cycleVars
  <2>3. Fits(<<q>>) /\ Fits(<<r>>)
    <3> HIDE DEF q, r
    <3> QED BY <2>1, <2>2, OneRow DEF Fits, Past, Over
  <2> HIDE DEF q, r
  <2> QED BY <1>0, <2>2, <2>3, TraceKept DEF Past, Over
<1>8. CASE Groom
  <2>1. /\ Await("selection", <<row("candidate_ranked", NoItem, 0)>>)
        /\ cycle' = cycle /\ selected' = selected /\ pc = "groom"
    BY <1>8 DEF Groom
  <2> QED BY <1>0, <2>1, AwaitFits, TraceKept DEF Past, Over
<1>9. CASE AutoSelect \/ ReceiveSelection
  <2>1. cycle' = cycle /\ pc = "selection"
    BY <1>9 DEF AutoSelect, ReceiveSelection
  <2>2. PICK id : Select(id)
    BY <1>9 DEF AutoSelect, ReceiveSelection
  <2>3. CASE selected' = selected /\ trace' = trace
    BY <1>2, <2>1, <2>3 DEF Past, Over
  <2>4. CASE /\ id \in backlog /\ selected' = id
             /\ Record(<<row("item_selected", id, 0)>>)
    <3>1. id \in Ids
      BY <2>4 DEF ScoreInv, Ids
    <3>2. Fits(<<row("item_selected", id, 0)>>)
      BY <1>0, <2>1, <3>1, RowFits
    <3> QED BY <1>0, <2>1, <2>4, <3>1, <3>2, TraceKept DEF Past, Over
  <2> QED BY <2>2, <2>3, <2>4 DEF Select, traceVars
<1>10. CASE GenerateQuestions
  <2>1. cycle' = cycle /\ selected' = selected /\ pc = "questions"
    BY <1>10 DEF GenerateQuestions
  <2>2. PICK n \in 1..MaxQuestions :
          \/ Await("answers", <<row("questions_result", selected, n)>>)
          \/ Record(<<row("questions_result", selected, n)>>)
    BY <1>10 DEF GenerateQuestions, GenerateQuestionsActivity
  <2>3. n \in Nat
    BY PlanningAssumption
  <2> QED BY <1>0, <2>1, <2>2, <2>3, RowFits, AwaitFits, TraceKept DEF Past, Over
<1>11. CASE AutoAnswers
  <2>1. ~Prompted /\ cycle' = cycle /\ selected' = selected /\ pc = "answers"
        /\ Record([k \in 1..questions |-> row("answer_recorded", selected, k)])
    BY <1>11 DEF AutoAnswers, Prompted
  <2>2. trace' = trace
    BY <2>1 DEF Record
  <2> QED BY <1>2, <2>1, <2>2 DEF Past, Over
<1>12. CASE ReceiveAnswer
  <2>1. cycle' = cycle /\ selected' = selected /\ pc = "answers"
    BY <1>12 DEF ReceiveAnswer
  <2>2. \/ Await("answers", <<row("answer_recorded", selected, 0)>>)
        \/ Record(<<row("answer_recorded", selected, 0)>>)
    BY <1>12 DEF ReceiveAnswer
  <2> QED BY <1>0, <2>1, <2>2, RowFits, AwaitFits, TraceKept DEF Past, Over
<1>13. CASE SummarizePlan
  <2>1. cycle' = cycle /\ selected' = selected /\ pc = "summary"
    BY <1>13 DEF SummarizePlan
  <2>2. \/ Await("greenlight", <<row("plan_summary_result", selected, 0)>>)
        \/ Record(<<row("plan_summary_result", selected, 0)>>)
    BY <1>13 DEF SummarizePlan
  <2> QED BY <1>0, <2>1, <2>2, RowFits, AwaitFits, TraceKept DEF Past, Over
<1>14. CASE AutoGreenlight \/ ReceiveGreenlight
  <2> DEFINE q == row("greenlight_decision", selected, 0)
             r == row("plan_agreed", selected, 0)
  <2>1. cycle' = cycle /\ selected' = selected /\ pc = "greenlight"
    BY <1>14 DEF AutoGreenlight, ReceiveGreenlight, cycleVars
  <2>2. Record(<<q, r>>) \/ Record(<<q>>)
    BY <1>14 DEF AutoGreenlight, ReceiveGreenlight, Decide
  <2>3. Fits(<<q>>)
    BY <1>0, <2>1, RowFits
  <2>4. /\ q \in Rows /\ q.cycle = cycle' /\ q.type # "planning_signal_timeout"
        /\ r \in Rows /\ r.cycle = cycle' /\ r.type # "planning_signal_timeout"
    BY <1>0, <2>1, RowType
  <2>5. Fits(<<q, r>>)
    <3> HIDE DEF q, r
    <3> QED BY <2>4 DEF Fits
  <2> HIDE DEF q, r
  <2> QED BY <1>0, <2>1, <2>2, <2>3, <2>5, TraceKept DEF Past, Over
<1> QED
  BY <1>1, <1>3, <1>4, <1>5, <1>6, <1>7, <1>8, <1>9, <1>10, <1>11, <1>12,
     <1>13, <1>14 DEF Next, Step

(* A set of positions that is not empty has a last one: by the least       *)
(* distance from the end.                                                  *)
LEMMA LastExists ==
    ASSUME NEW n \in Nat, NEW S, S \subseteq 1..n, S # {}
    PROVE  \E k \in S : \A j \in S : j <= k
<1> DEFINE Rel == {ss \in Nat \X Nat : ss[1] < ss[2]}
           T == {n - k : k \in S}
<1>1. IsWellFoundedOn(Rel, Nat)
  BY NatLessThanWellFounded DEF OpToRel
<1>2. T \subseteq Nat /\ T # {}
  <2>1. \A k \in S : n - k \in Nat
    OBVIOUS
  <2>2. PICK k \in S : TRUE
    OBVIOUS
  <2>3. n - k \in T
    OBVIOUS
  <2> QED BY <2>1, <2>3
<1>3. PICK x \in T : \A y \in T : <<y, x>> \notin Rel
  <2> HIDE DEF T, Rel
  <2> QED BY <1>1, <1>2, WFMin, Zenon
<1>4. PICK k \in S : x = n - k
  BY <1>3
<1>5. \A j \in S : j <= k
  <2> TAKE j \in S
  <2>1. n - j \in T /\ n - j \in Nat /\ x \in Nat
    BY <1>4
  <2>2. <<n - j, x>> \notin Rel
    <3> HIDE DEF Rel, T
    <3> QED BY <1>3, <2>1
  <2>3. ~(n - j < x)
    BY <2>1, <2>2
  <2> QED BY <1>4, <2>3
<1> QED BY <1>5

(* lastOf is the last position, however it is found.                       *)
LEMMA LastOf ==
    ASSUME trace \in Seq(Rows), NEW S, S \subseteq DOMAIN trace, S # {}
    PROVE  /\ lastOf(S) \in S /\ \A j \in S : j <= lastOf(S)
           /\ S \cap (lastOf(S) + 1..Len(trace)) = {}
           /\ \A k \in S : S \cap (k + 1..Len(trace)) = {} => k = lastOf(S)
<1>1. Len(trace) \in Nat /\ DOMAIN trace = 1..Len(trace)
  OBVIOUS
<1>2. \E k \in S : \A j \in S : j <= k
  BY <1>1, LastExists
<1>3. lastOf(S) \in S /\ \A j \in S : j <= lastOf(S)
  BY <1>2 DEF lastOf
<1> DEFINE m == lastOf(S)
<1>4. m \in S /\ \A j \in S : j <= m
  BY <1>3
<1> HIDE DEF m
<1>5. S \cap (m + 1..Len(trace)) = {}
  BY <1>1, <1>4
<1>6. \A k \in S : S \cap (k + 1..Len(trace)) = {} => k = m
  BY <1>1, <1>4
<1> QED BY <1>4, <1>5, <1>6 DEF m

(* Both copies of the inference find the same selected item.               *)
LEMMA SameSelection ==
    ASSUME trace \in Seq(Rows)
    PROVE  latestCeremonySelectedItem = latestSelectedItem
<1> DEFINE S == rowsOf("item_selected")
           P(k) == /\ trace[k].type = "item_selected"
                   /\ \A j \in k+1..Len(trace) : trace[j].type # "item_selected"
<1>1. S \subseteq DOMAIN trace /\ DOMAIN trace = 1..Len(trace)
      /\ Len(trace) \in Nat
  BY DEF rowsOf
<1>2. \A k \in DOMAIN trace : P(k) <=> k \in S /\ S \cap (k + 1..Len(trace)) = {}
  BY <1>1 DEF rowsOf
<1>3. CASE S = {}
  BY <1>3 DEF latestCeremonySelectedItem, latestSelectedItem, rowsOf
<1>4. CASE S # {}
  <2>1. lastOf(S) \in S /\ lastOf(S) \in DOMAIN trace /\ P(lastOf(S))
    <3> HIDE DEF S, P
    <3> QED BY <1>1, <1>2, <1>4, LastOf
  <2>2. \A k \in DOMAIN trace : P(k) => k = lastOf(S)
    <3> HIDE DEF S, P
    <3> QED BY <1>1, <1>2, <1>4, LastOf
  <2>3. (CHOOSE k \in DOMAIN trace : P(k)) = lastOf(S)
    <3> HIDE DEF S, P
    <3> QED BY <2>1, <2>2
  <2>4. latestSelectedItem = trace[lastOf(S)].item
    BY <1>4 DEF latestSelectedItem
  <2>5. \E k \in DOMAIN trace : trace[k].type = "item_selected"
    BY <1>4 DEF rowsOf
  <2>6. latestCeremonySelectedItem = trace[CHOOSE k \in DOMAIN trace : P(k)].item
    BY <2>5 DEF latestCeremonySelectedItem
  <2> QED BY <2>3, <2>4, <2>6
<1> QED BY <1>3, <1>4

(* ... the same questions, answers and summary for it.                     *)
LEMMA SameRows ==
    ASSUME trace \in Seq(Rows)
    PROVE  /\ latestCeremonyQuestions = latestPlanningQuestions
           /\ countCeremonyAnswers = countPlanningAnswers
           /\ hasCeremonySummary <=> about("plan_summary_result") # {}
           /\ latestSelectedItem = NoItem =>
                latestCeremonyCandidates = latestPlanningCandidates
<1>1. \A type : ceremonyRows(type) = about(type)
  BY SameSelection DEF ceremonyRows, about, rowsOf
<1>2. latestCeremonyQuestions = latestPlanningQuestions
  <2> DEFINE S == about("questions_result")
  <2>1. S \subseteq DOMAIN trace
    BY DEF about, rowsOf
  <2>2. CASE S = {}
    BY <1>1, <2>2 DEF latestCeremonyQuestions, latestPlanningQuestions
  <2>3. CASE S # {}
    <3>1. (CHOOSE k \in S : S \cap (k+1..Len(trace)) = {}) = lastOf(S)
      <4> HIDE DEF S
      <4>1. /\ lastOf(S) \in S /\ S \cap (lastOf(S) + 1..Len(trace)) = {}
            /\ \A k \in S : S \cap (k + 1..Len(trace)) = {} => k = lastOf(S)
        BY <2>1, <2>3, LastOf
      <4> QED BY <4>1
    <3>2. latestPlanningQuestions = trace[lastOf(S)].n
      BY <2>3 DEF latestPlanningQuestions
    <3>3. ceremonyRows("questions_result") = S
      BY <1>1
    <3>4. latestCeremonyQuestions
            = trace[CHOOSE k \in S : S \cap (k+1..Len(trace)) = {}].n
      <4> HIDE DEF S
      <4> QED BY <2>3, <3>3 DEF latestCeremonyQuestions
    <3> QED BY <3>1, <3>2, <3>4
  <2> QED BY <2>2, <2>3
<1>3. countCeremonyAnswers = countPlanningAnswers
  BY <1>1 DEF countCeremonyAnswers, countPlanningAnswers
<1>4. hasCeremonySummary <=> about("plan_summary_result") # {}
  BY <1>1 DEF hasCeremonySummary
<1>5. latestSelectedItem = NoItem =>
        latestCeremonyCandidates = latestPlanningCandidates
  BY <1>1 DEF latestCeremonyCandidates, latestPlanningCandidates, about, rowsOf
<1> QED BY <1>2, <1>3, <1>4, <1>5

(* inferCeremonyPrompt, which knows of no timeout, and                     *)
(* buildPlanningPromptResponse ask for the same, whatever people send and  *)
(* whichever rows are lost.  Only a row of a timeout tells them apart, and *)
(* the session is closing when there is one: then the API asks for nothing.*)
THEOREM PromptsAgree == Spec => []TerminalAndAPIAgree
<1>0. TraceInv /\ pc \notin Past => rowsOf("planning_signal_timeout") = {}
  BY DEF TraceInv, rowsOf
<1>4. rowsOf("planning_signal_timeout") # {} => buildPlanningPromptResponse = NoAsk
  BY DEF buildPlanningPromptResponse
<1>1. ASSUME TraceInv, rowsOf("planning_signal_timeout") = {}
      PROVE  inferCeremonyPrompt = buildPlanningPromptResponse
  <2>1. trace \in Seq(Rows) /\ rowsOf("planning_signal_timeout") = {}
    BY <1>1 DEF TraceInv
  <2>2. \A type : hasCeremonyEventType(type) <=> rowsOf(type) # {}
    BY DEF hasCeremonyEventType, rowsOf
  <2> DEFINE asked == latestPlanningQuestions
             given == countPlanningAnswers
             over == rowsOf("plan_agreed") # {} \/ rowsOf("planning_exhausted") # {}
             green == /\ rowsOf("greenlight_decision") = {}
                      /\ about("plan_summary_result") # {}
             some == latestPlanningCandidates # {}
             rest == IF given < asked THEN ask("answer", given + 1)
                     ELSE IF asked > 0 /\ green THEN ask("greenlight", 0)
                     ELSE IF latestSelectedItem = NoItem /\ some
                       THEN ask("item-selected", 0)
                     ELSE NoAsk
  <2>3. buildPlanningPromptResponse = IF over THEN NoAsk ELSE rest
    BY <2>1 DEF buildPlanningPromptResponse
  <2>4. inferCeremonyPrompt = IF over \/ trace = <<>> THEN NoAsk ELSE rest
    BY <2>1, <2>2, SameRows, SameSelection DEF inferCeremonyPrompt
  <2>5. ASSUME trace = <<>>
        PROVE  rest = NoAsk
    <3>1. \A type : rowsOf(type) = {} /\ about(type) = {}
      BY <2>5 DEF rowsOf, about
    <3>2. asked = 0 /\ given = 0 /\ ~green /\ ~some
      BY <3>1, FS_EmptySet
      DEF latestPlanningQuestions, countPlanningAnswers, latestPlanningCandidates
    <3> HIDE DEF asked, given, green, some
    <3> QED BY <3>2
  <2> QED BY <2>3, <2>4, <2>5
<1>2. TraceInv => TerminalAndAPIAgree
  BY <1>0, <1>1, <1>4 DEF TerminalAndAPIAgree, Past
<1>3. Init => TraceInv
  BY DEF Init, TraceInv
<1> QED
  BY <1>2, <1>3, GateInit, GateStep, ScoreInit, ScoreStep, TraceStep, PTL
  DEF Spec

----------------------------------------------------------------------------
Loop == Waits \cup {"groom", "questions", "summary"}

ItemRows ==
    {"item_selected", "questions_result", "answer_recorded",
     "plan_summary_result"}

(* What the trace says of the cycle: which phases it has been through, for *)
(* which item, with how many questions and answers.                        *)
Tells ==
    /\ trace # <<>> /\ \A k \in DOMAIN trace : trace[k].cycle = cycle
    /\ \A type \in {"plan_agreed", "planning_exhausted",
                     "greenlight_decision"} : rowsOf(type) = {}
    /\ \A k \in DOMAIN trace :
         trace[k].type \in ItemRows => trace[k].item = selected
    /\ \A k \in rowsOf("questions_result") : trace[k].n = questions
    /\ Cardinality(rowsOf("answer_recorded")) = answers
    /\ rowsOf("item_selected") = {} <=> pc \in {"groom", "selection"}
    /\ rowsOf("questions_result") = {}
         <=> pc \in {"groom", "selection", "questions"}
    /\ rowsOf("plan_summary_result") = {} <=> pc # "greenlight"
    /\ pc = "selection" => rowsOf("candidate_ranked") # {}

TellsInv == ~lost /\ Prompted /\ pc \in Loop => Tells

(* No row was lost before if none is lost now.                             *)
LEMMA Recorded ==
    ASSUME NEW rows, Record(rows), ~lost', Prompted
    PROVE  ~lost /\ trace' = noted(rows)
BY DEF Record

(* A row that is added to those of its cycle.                              *)
LEMMA RowAdded ==
    ASSUME trace \in Seq(Rows), NEW r \in Rows, trace' = noted(<<r>>),
           \A k \in DOMAIN trace : trace[k].cycle = r.cycle
    PROVE  /\ trace' # <<>>
           /\ \A k \in DOMAIN trace' : \/ k \in DOMAIN trace /\ trace'[k] = trace[k]
                                       \/ k = Len(trace) + 1 /\ trace'[k] = r
           /\ Len(trace) + 1 \notin DOMAIN trace
           /\ \A type : r.type # type => rowsOf(type)' = rowsOf(type)
           /\ \A type : r.type = type =>
                           rowsOf(type)' = rowsOf(type) \cup {Len(trace) + 1}
<1>1. Head(<<r>>) = r /\ <<r>> \in Seq(Rows) /\ Len(<<r>>) = 1
  BY OneRow
<1>2. trace' = trace \o <<r>>
  BY <1>1 DEF noted
<1>3. /\ Len(trace) \in Nat /\ DOMAIN trace = 1..Len(trace)
      /\ trace' \in Seq(Rows)
      /\ Len(trace') = Len(trace) + 1 /\ DOMAIN trace' = 1..Len(trace) + 1
  BY <1>1, <1>2
<1>4. /\ \A k \in 1..Len(trace) : trace'[k] = trace[k]
      /\ trace'[Len(trace) + 1] = r
  BY <1>1, <1>2, <1>3
<1>5. \A type : rowsOf(type)' = {k \in DOMAIN trace' : trace'[k].type = type}
  BY DEF rowsOf
<1>6. ASSUME NEW type, r.type # type
      PROVE  rowsOf(type)' = rowsOf(type)
  <2>1. \A k : k \in rowsOf(type)' <=> k \in rowsOf(type)
    BY <1>3, <1>4, <1>5, <1>6 DEF rowsOf
  <2> QED BY <2>1
<1>7. ASSUME NEW type, r.type = type
      PROVE  rowsOf(type)' = rowsOf(type) \cup {Len(trace) + 1}
  <2>1. \A k : k \in rowsOf(type)' <=> k \in rowsOf(type) \/ k = Len(trace) + 1
    BY <1>3, <1>4, <1>5, <1>7 DEF rowsOf
  <2> QED BY <2>1
<1>8. trace' # <<>>
  BY <1>3
<1>9. \A k \in DOMAIN trace' : \/ k \in DOMAIN trace /\ trace'[k] = trace[k]
                               \/ k = Len(trace) + 1 /\ trace'[k] = r
  <2> TAKE k \in DOMAIN trace'
  <2>1. k \in DOMAIN trace \/ k = Len(trace) + 1
    BY <1>3
  <2>2. CASE k \in DOMAIN trace
    BY <1>3, <1>4, <2>2
  <2>3. CASE k = Len(trace) + 1
    BY <1>4, <2>3
  <2> QED BY <2>1, <2>2, <2>3
<1>10. Len(trace) + 1 \notin DOMAIN trace
  BY <1>3
<1> QED BY <1>6, <1>7, <1>8, <1>9, <1>10

(* The number of answers recorded.                                         *)
LEMMA AnswersCounted ==
    ASSUME trace \in Seq(Rows), NEW type
    PROVE  /\ IsFiniteSet(rowsOf(type)) /\ Cardinality(rowsOf(type)) \in Nat
           /\ Len(trace) + 1 \notin rowsOf(type)
           /\ Cardinality(rowsOf(type)) = 0 => rowsOf(type) = {}
<1>1. rowsOf(type) \subseteq 1..Len(trace) /\ Len(trace) \in Nat
  BY DEF rowsOf
<1>2. IsFiniteSet(1..Len(trace))
  BY <1>1, FS_Interval
<1>3. IsFiniteSet(rowsOf(type))
  BY <1>1, <1>2, FS_Subset
<1> QED BY <1>1, <1>3, FS_CardinalityType, FS_EmptySet

(* What a row of the cycle leaves of Tells, whichever phase it ends.       *)
LEMMA TellsMore ==
    ASSUME trace \in Seq(Rows), Tells, cycle' = cycle,
           NEW r \in Rows, r.cycle = cycle, trace' = noted(<<r>>),
           r.type \notin {"plan_agreed", "planning_exhausted",
                          "greenlight_decision"},
           r.type \in ItemRows => r.item = selected',
           \/ selected' = selected
           \/ \A k \in DOMAIN trace : trace[k].type \notin ItemRows
    PROVE  /\ trace' # <<>>
           /\ \A k \in DOMAIN trace' : trace'[k].cycle = cycle'
           /\ \A type \in {"plan_agreed", "planning_exhausted",
                            "greenlight_decision"} : rowsOf(type)' = {}
           /\ \A k \in DOMAIN trace' :
                trace'[k].type \in ItemRows => trace'[k].item = selected'
<1>1. \A k \in DOMAIN trace : trace[k].cycle = r.cycle
  BY DEF Tells
<1>2. /\ trace' # <<>>
      /\ \A k \in DOMAIN trace' : \/ k \in DOMAIN trace /\ trace'[k] = trace[k]
                                  \/ k = Len(trace) + 1 /\ trace'[k] = r
      /\ \A type : r.type # type => rowsOf(type)' = rowsOf(type)
  BY <1>1, RowAdded
<1>3. \A k \in DOMAIN trace' : trace'[k].cycle = cycle'
  BY <1>1, <1>2
<1>4. \A type \in {"plan_agreed", "planning_exhausted",
                    "greenlight_decision"} : rowsOf(type)' = {}
  <2> TAKE type \in {"plan_agreed", "planning_exhausted", "greenlight_decision"}
  <2>1. r.type # type /\ rowsOf(type) = {}
    BY DEF Tells
  <2> QED BY <1>2, <2>1
<1>5. \A k \in DOMAIN trace' :
        trace'[k].type \in ItemRows => trace'[k].item = selected'
  <2>1. \A k \in DOMAIN trace :
          trace[k].type \in ItemRows => trace[k].item = selected'
    BY DEF Tells
  <2> QED BY <1>2, <2>1
<1> QED BY <1>2, <1>3, <1>4, <1>5

(* Before an item is selected there are no rows about one.                 *)
LEMMA NoItemRows ==
    ASSUME trace \in Seq(Rows), Tells, answers = 0,
           pc \in {"groom", "selection"}
    PROVE  \A k \in DOMAIN trace : trace[k].type \notin ItemRows
<1>1. rowsOf("answer_recorded") = {}
  BY AnswersCounted DEF Tells
<1>2. \A type \in ItemRows : rowsOf(type) = {}
  BY <1>1 DEF Tells, ItemRows
<1> QED BY <1>2 DEF rowsOf

(* The first row of a cycle stands alone: the others are of earlier ones.  *)
LEMMA FirstRow ==
    ASSUME trace \in Seq(Rows), NEW r \in Rows,
           \A k \in DOMAIN trace : trace[k].cycle # r.cycle
    PROVE  noted(<<r>>) = <<r>>
<1>1. Head(<<r>>) = r /\ <<r>> \in Seq(Rows)
  BY OneRow
<1>2. CASE trace = <<>>
  BY <1>1, <1>2 DEF noted
<1>3. CASE trace # <<>>
  <2>1. 1 \in DOMAIN trace
    BY <1>3
  <2> QED BY <1>1, <2>1 DEF noted
<1> QED BY <1>2, <1>3

(* TellsInv is inductive: a row is written wherever a phase ends.          *)
LEMMA TellsStep ==
    GateInv /\ GateInv' /\ ScoreInv /\ TraceInv /\ TellsInv /\ [Next]_vars
        => TellsInv'
<1> SUFFICES ASSUME GateInv, GateInv', ScoreInv, TraceInv, TellsInv,
                    [Next]_vars, ~lost', Prompted', pc' \in Loop
             PROVE  Tells'
  BY DEF TellsInv
<1>0. /\ cycle \in Nat /\ selected \in Ids \cup {NoItem} /\ 0 \in Nat
      /\ NoItem \in Ids \cup {NoItem} /\ trace \in Seq(Rows)
      /\ "tool_call" \in RowTypes /\ "candidate_ranked" \in RowTypes
      /\ "item_selected" \in RowTypes /\ "questions_result" \in RowTypes
      /\ "answer_recorded" \in RowTypes /\ "plan_summary_result" \in RowTypes
  BY PlanningAssumption DEF GateInv, TraceInv, RowTypes
<1>p. Prompted
  <2>1. world' = world
    BY DEF Next, Step, vars, StartSession, Tick, WaitTimesOut, CrabReturns,
       handlePlanningPrompt, handlePlanningStop, handlePlanningSignal,
       BeginCycle, GiveUp, reviewPlanningCeremonyOutcome, ActivityError,
       BacklogRejected, Groom, AutoSelect,
       ReceiveSelection, QuestionsBlocked, GenerateQuestions, AutoAnswers,
       ReceiveAnswer, SummarizePlan, AutoGreenlight, ReceiveGreenlight,
       runCeremonyMode, runCeremonyLoop, ceremonyLine
  <2> QED BY <2>1 DEF Prompted, Unattended, Shared
<1>l. /\ Loop \cap Over = {} /\ "begin" \notin Loop /\ "crab" \notin Loop
      /\ "failed" \notin Loop /\ "closing" \notin Loop
  BY DEF Loop, Over, Waits
<1>a. ASSUME NEW stage, NEW rows, Await(stage, rows)
      PROVE  pc' = stage /\ Record(rows)
  BY <1>a, <1>l DEF Await
<1>1. CASE UNCHANGED <<pc, cycle, selected, questions, answers, trace, lost>>
  <2>1. Tells
    BY <1>1, <1>p DEF TellsInv
  <2> QED BY <1>1, <2>1 DEF Tells, rowsOf
<1>2. CASE UNCHANGED vars \/ Tick \/ handlePlanningPrompt \/ runCeremonyLoop
           \/ (\E s \in Signals : \E v \in values(s) : handlePlanningSignal(s, v))
           \/ (\E line \in Lines : ceremonyLine(line))
  BY <1>1, <1>2 DEF vars, Tick, handlePlanningPrompt, runCeremonyLoop,
     handlePlanningSignal, ceremonyLine, cycleVars, traceVars
<1>3. ~ \/ StartSession \/ runCeremonyMode \/ WaitTimesOut \/ CrabReturns
        \/ handlePlanningStop \/ GiveUp \/ ActivityError \/ BacklogRejected
        \/ QuestionsBlocked \/ reviewPlanningCeremonyOutcome
  BY <1>l DEF StartSession, runCeremonyMode, WaitTimesOut, CrabReturns,
     handlePlanningStop, GiveUp, ActivityError, BacklogRejected,
     QuestionsBlocked, reviewPlanningCeremonyOutcome, Retry, Over, Loop, Waits
<1>4. ~ \/ AutoSelect \/ AutoAnswers \/ AutoGreenlight \/ ReceiveGreenlight
  BY <1>l, <1>p DEF AutoSelect, AutoAnswers, AutoGreenlight,
     ReceiveGreenlight, Decide, Retry, Prompted, Loop, Waits
<1>5. CASE BeginCycle
  <2> DEFINE r == [row("tool_call", NoItem, 0) EXCEPT !.cycle = cycle + 1]
  <2>1. /\ Record(<<r>>) /\ cycle' = cycle + 1 /\ pc = "begin"
        /\ pc' = "groom" /\ answers' = 0
    BY <1>5 DEF BeginCycle
  <2>2. r \in Rows /\ r.cycle = cycle' /\ r.type = "tool_call"
    BY <1>0, <2>1 DEF row, Rows
  <2> HIDE DEF r
  <2>3. \A k \in DOMAIN trace : trace[k].cycle # r.cycle
    <3>1. \A k \in DOMAIN trace : trace[k].cycle \in Nat
      BY <1>0, RowAt
    <3>2. \A k \in DOMAIN trace : trace[k].cycle <= cycle
      BY <2>1 DEF TraceInv, Past, Over
    <3> QED BY <1>0, <2>1, <2>2, <3>1, <3>2
  <2>4. trace' = <<r>>
    BY <1>0, <1>p, <2>1, <2>2, <2>3, FirstRow, Recorded
  <2>5. trace' # <<>> /\ DOMAIN trace' = {1} /\ trace'[1] = r
    BY <2>2, <2>4, OneRow
  <2>6. \A type : type # "tool_call" => rowsOf(type)' = {}
    BY <2>2, <2>5 DEF rowsOf
  <2>7. Cardinality(rowsOf("answer_recorded")') = 0
    BY <2>6, FS_EmptySet
  <2> QED BY <2>1, <2>2, <2>5, <2>6, <2>7 DEF Tells, ItemRows
<1>6. CASE Groom
  <2> DEFINE r == row("candidate_ranked", NoItem, 0)
  <2>1. /\ Await("selection", <<r>>)
        /\ pc = "groom" /\ UNCHANGED <<cycle, selected, questions, answers>>
    BY <1>6 DEF Groom
  <2>2. pc' = "selection" /\ ~lost /\ trace' = noted(<<r>>)
    BY <1>a, <1>p, <2>1, Recorded
  <2>3. r \in Rows /\ r.cycle = cycle /\ r.type = "candidate_ranked"
    BY <1>0 DEF row, Rows
  <2>4. Tells
    BY <1>p, <2>1, <2>2 DEF TellsInv, Loop
  <2>5. \A k \in DOMAIN trace : trace[k].cycle = r.cycle
    BY <2>3, <2>4 DEF Tells
  <2>6. r.type \notin ItemRows
    BY <2>3 DEF ItemRows
  <2> HIDE DEF r
  <2>7. /\ \A type : type # "candidate_ranked" => rowsOf(type)' = rowsOf(type)
        /\ rowsOf("candidate_ranked")' # {}
    BY <1>0, <2>2, <2>3, <2>5, RowAdded
  <2>8. /\ trace' # <<>>
        /\ \A k \in DOMAIN trace' : trace'[k].cycle = cycle'
        /\ \A type \in {"plan_agreed", "planning_exhausted",
                         "greenlight_decision"} : rowsOf(type)' = {}
        /\ \A k \in DOMAIN trace' :
             trace'[k].type \in ItemRows => trace'[k].item = selected'
    BY <1>0, <2>1, <2>2, <2>3, <2>4, <2>6, TellsMore
  <2>9. \A k \in rowsOf("questions_result")' : trace'[k].n = questions'
    BY <2>1, <2>4, <2>7 DEF Tells
  <2> QED BY <2>1, <2>2, <2>4, <2>7, <2>8, <2>9 DEF Tells
<1>7. CASE ReceiveSelection
  <2>1. PICK id : Select(id)
    BY <1>7 DEF ReceiveSelection
  <2> DEFINE r == row("item_selected", id, 0)
  <2>2. /\ pc = "selection" /\ UNCHANGED <<cycle, questions, answers>>
        /\ pc' = "questions" /\ id \in backlog /\ selected' = id
        /\ Record(<<r>>)
    BY <1>7, <1>l, <2>1 DEF ReceiveSelection, Select, Retry
  <2>3. ~lost /\ trace' = noted(<<r>>)
    BY <1>p, <2>2, Recorded
  <2>4. /\ r \in Rows /\ r.cycle = cycle /\ r.type = "item_selected"
        /\ r.item = id
    <3>1. id \in Ids \cup {NoItem}
      BY <2>2 DEF ScoreInv, Ids
    <3> QED BY <1>0, <3>1 DEF row, Rows
  <2>5. Tells /\ answers = 0
    BY <1>p, <2>2, <2>3 DEF TellsInv, Loop, Waits, GateInv
  <2>6. \A k \in DOMAIN trace : trace[k].cycle = r.cycle
    BY <2>4, <2>5 DEF Tells
  <2> HIDE DEF r
  <2>7. /\ \A type : type # "item_selected" => rowsOf(type)' = rowsOf(type)
        /\ rowsOf("item_selected")' # {}
    BY <1>0, <2>3, <2>4, <2>6, RowAdded
  <2>8. \A k \in DOMAIN trace : trace[k].type \notin ItemRows
    BY <1>0, <2>2, <2>5, NoItemRows
  <2>9. /\ trace' # <<>>
        /\ \A k \in DOMAIN trace' : trace'[k].cycle = cycle'
        /\ \A type \in {"plan_agreed", "planning_exhausted",
                         "greenlight_decision"} : rowsOf(type)' = {}
        /\ \A k \in DOMAIN trace' :
             trace'[k].type \in ItemRows => trace'[k].item = selected'
    BY <1>0, <2>2, <2>3, <2>4, <2>5, <2>8, TellsMore
  <2> QED BY <2>2, <2>5, <2>7, <2>9 DEF Tells
<1>8. CASE GenerateQuestions
  <2>1. PICK n \in 1..MaxQuestions :
          /\ questions' = n
          /\ Await("answers", <<row("questions_result", selected, n)>>)
    BY <1>8, <1>l
    DEF GenerateQuestions, GenerateQuestionsActivity, Retry
  <2> DEFINE r == row("questions_result", selected, n)
  <2>2. pc = "questions" /\ UNCHANGED <<cycle, selected, answers>>
    BY <1>8 DEF GenerateQuestions
  <2>3. pc' = "answers" /\ ~lost /\ trace' = noted(<<r>>)
    BY <1>a, <1>p, <2>1, Recorded
  <2>4. /\ r \in Rows /\ r.cycle = cycle /\ r.type = "questions_result"
        /\ r.item = selected /\ r.n = n
    <3>1. n \in Nat
      BY PlanningAssumption
    <3> QED BY <1>0, <3>1 DEF row, Rows
  <2>5. Tells
    BY <1>p, <2>2, <2>3 DEF TellsInv, Loop
  <2>6. \A k \in DOMAIN trace : trace[k].cycle = r.cycle
    BY <2>4, <2>5 DEF Tells
  <2> HIDE DEF r
  <2>7. /\ \A type : type # "questions_result" => rowsOf(type)' = rowsOf(type)
        /\ rowsOf("questions_result")'
             = rowsOf("questions_result") \cup {Len(trace) + 1}
        /\ Len(trace) + 1 \notin DOMAIN trace
        /\ \A k \in DOMAIN trace' : \/ k \in DOMAIN trace /\ trace'[k] = trace[k]
                                    \/ k = Len(trace) + 1 /\ trace'[k] = r
    BY <1>0, <2>3, <2>4, <2>6, RowAdded
  <2>8. /\ trace' # <<>>
        /\ \A k \in DOMAIN trace' : trace'[k].cycle = cycle'
        /\ \A type \in {"plan_agreed", "planning_exhausted",
                         "greenlight_decision"} : rowsOf(type)' = {}
        /\ \A k \in DOMAIN trace' :
             trace'[k].type \in ItemRows => trace'[k].item = selected'
    BY <1>0, <2>2, <2>3, <2>4, <2>5, TellsMore
  <2>9. \A k \in rowsOf("questions_result")' : trace'[k].n = questions'
    <3>1. rowsOf("questions_result") = {}
      BY <2>2, <2>5 DEF Tells
    <3>2. \A k \in rowsOf("questions_result")' : k \in DOMAIN trace'
      BY DEF rowsOf
    <3> QED BY <2>1, <2>4, <2>7, <3>1, <3>2
  <2> QED BY <2>2, <2>3, <2>5, <2>7, <2>8, <2>9 DEF Tells
<1>9. CASE ReceiveAnswer
  <2> DEFINE r == row("answer_recorded", selected, 0)
  <2>1. /\ Await("answers", <<r>>) \/ (pc' = "summary" /\ Record(<<r>>))
        /\ pc = "answers" /\ UNCHANGED <<cycle, selected, questions>>
        /\ answers' = answers + 1
    BY <1>9 DEF ReceiveAnswer
  <2>2. pc' \in {"answers", "summary"} /\ ~lost /\ trace' = noted(<<r>>)
    BY <1>a, <1>p, <2>1, Recorded
  <2>3. /\ r \in Rows /\ r.cycle = cycle /\ r.type = "answer_recorded"
        /\ r.item = selected
    BY <1>0 DEF row, Rows
  <2>4. Tells
    BY <1>p, <2>1, <2>2 DEF TellsInv, Loop, Waits
  <2>5. \A k \in DOMAIN trace : trace[k].cycle = r.cycle
    BY <2>3, <2>4 DEF Tells
  <2> HIDE DEF r
  <2>6. /\ \A type : type # "answer_recorded" => rowsOf(type)' = rowsOf(type)
        /\ rowsOf("answer_recorded")'
             = rowsOf("answer_recorded") \cup {Len(trace) + 1}
        /\ Len(trace) + 1 \notin DOMAIN trace
        /\ \A k \in DOMAIN trace' : \/ k \in DOMAIN trace /\ trace'[k] = trace[k]
                                    \/ k = Len(trace) + 1 /\ trace'[k] = r
    BY <1>0, <2>2, <2>3, <2>5, RowAdded
  <2>7. /\ trace' # <<>>
        /\ \A k \in DOMAIN trace' : trace'[k].cycle = cycle'
        /\ \A type \in {"plan_agreed", "planning_exhausted",
                         "greenlight_decision"} : rowsOf(type)' = {}
        /\ \A k \in DOMAIN trace' :
             trace'[k].type \in ItemRows => trace'[k].item = selected'
    BY <1>0, <2>1, <2>2, <2>3, <2>4, TellsMore
  <2>8. Cardinality(rowsOf("answer_recorded")') = answers'
    <3>1. /\ IsFiniteSet(rowsOf("answer_recorded"))
          /\ Len(trace) + 1 \notin rowsOf("answer_recorded")
      BY <1>0, AnswersCounted
    <3>2. Cardinality(rowsOf("answer_recorded") \cup {Len(trace) + 1})
            = Cardinality(rowsOf("answer_recorded")) + 1
      BY <3>1, FS_AddElement
    <3> QED BY <2>1, <2>4, <2>6, <3>2 DEF Tells
  <2>9. \A k \in rowsOf("questions_result")' : trace'[k].n = questions'
    <3>1. \A k \in rowsOf("questions_result") :
            k \in DOMAIN trace /\ trace[k].n = questions
      BY <2>4 DEF Tells, rowsOf
    <3>2. \A k \in rowsOf("questions_result")' : k \in DOMAIN trace'
      BY DEF rowsOf
    <3> QED BY <2>1, <2>6, <3>1, <3>2
  <2> QED BY <2>1, <2>2, <2>4, <2>6, <2>7, <2>8, <2>9 DEF Tells
<1>10. CASE SummarizePlan
  <2> DEFINE r == row("plan_summary_result", selected, 0)
  <2>1. /\ Await("greenlight", <<r>>)
        /\ pc = "summary"
        /\ UNCHANGED <<cycle, selected, questions, answers>>
    BY <1>10, <1>l DEF SummarizePlan, Retry
  <2>2. pc' = "greenlight" /\ ~lost /\ trace' = noted(<<r>>)
    BY <1>a, <1>p, <2>1, Recorded
  <2>3. /\ r \in Rows /\ r.cycle = cycle /\ r.type = "plan_summary_result"
        /\ r.item = selected
    BY <1>0 DEF row, Rows
  <2>4. Tells
    BY <1>p, <2>1, <2>2 DEF TellsInv, Loop
  <2>5. \A k \in DOMAIN trace : trace[k].cycle = r.cycle
    BY <2>3, <2>4 DEF Tells
  <2> HIDE DEF r
  <2>6. /\ \A type : type # "plan_summary_result" => rowsOf(type)' = rowsOf(type)
        /\ rowsOf("plan_summary_result")' # {}
        /\ Len(trace) + 1 \notin DOMAIN trace
        /\ \A k \in DOMAIN trace' : \/ k \in DOMAIN trace /\ trace'[k] = trace[k]
                                    \/ k = Len(trace) + 1 /\ trace'[k] = r
    BY <1>0, <2>2, <2>3, <2>5, RowAdded
  <2>7. /\ trace' # <<>>
        /\ \A k \in DOMAIN trace' : trace'[k].cycle = cycle'
        /\ \A type \in {"plan_agreed", "planning_exhausted",
                         "greenlight_decision"} : rowsOf(type)' = {}
        /\ \A k \in DOMAIN trace' :
             trace'[k].type \in ItemRows => trace'[k].item = selected'
    BY <1>0, <2>1, <2>2, <2>3, <2>4, TellsMore
  <2>8. \A k \in rowsOf("questions_result")' : trace'[k].n = questions'
    <3>1. \A k \in rowsOf("questions_result") :
            k \in DOMAIN trace /\ trace[k].n = questions
      BY <2>4 DEF Tells, rowsOf
    <3>2. \A k \in rowsOf("questions_result")' : k \in DOMAIN trace'
      BY DEF rowsOf
    <3> QED BY <2>1, <2>6, <3>1, <3>2
  <2> QED BY <2>1, <2>2, <2>4, <2>6, <2>7, <2>8 DEF Tells
<1> QED
  BY <1>2, <1>3, <1>4, <1>5, <1>6, <1>7, <1>8, <1>9, <1>10 DEF Next, Step

(* buildPlanningPromptResponse asks for what the session waits for, in the *)
(* cycle it is in and for the question that comes next, in every session   *)
(* none of whose rows were lost, whatever people sent before.              *)
THEOREM PromptsTellTheWait == Spec => []PromptTellsTheWait
<1>1. ASSUME GateInv, TraceInv, TellsInv, ~lost, Prompted, pc \in Waits
      PROVE  buildPlanningPromptResponse =
               [signal |-> awaited, cycle |-> cycle,
                number |-> IF pc = "answers" THEN answers + 1 ELSE 0]
  <2>1. Tells /\ trace \in Seq(Rows)
    BY <1>1 DEF TellsInv, Loop, TraceInv
  <2>2. \A signal, n : ask(signal, n)
                        = [signal |-> signal, cycle |-> cycle, number |-> n]
    <3>1. Len(trace) \in DOMAIN trace
      BY <2>1 DEF Tells
    <3>2. trace[Len(trace)].cycle = cycle
      BY <2>1, <3>1 DEF Tells
    <3> QED BY <3>2 DEF ask
  <2>3. \A type \in {"plan_agreed", "planning_signal_timeout",
                      "planning_exhausted"} : rowsOf(type) = {}
    <3>1. rowsOf("planning_signal_timeout") = {}
      BY <1>1 DEF TraceInv, Past, Over, Waits, rowsOf
    <3> QED BY <2>1, <3>1 DEF Tells
  <2>4. \A type \in ItemRows :
          \A k \in rowsOf(type) : k \in DOMAIN trace /\ trace[k].item = selected
    BY <2>1 DEF Tells, rowsOf
  <2>5. latestSelectedItem = IF pc = "selection" THEN NoItem ELSE selected
    <3> DEFINE S == rowsOf("item_selected")
    <3>1. CASE S = {}
      BY <1>1, <2>1, <3>1 DEF latestSelectedItem, Tells, Waits
    <3>2. CASE S # {}
      <4>1. lastOf(S) \in S
        <5>1. S \subseteq DOMAIN trace
          BY DEF rowsOf
        <5> HIDE DEF S
        <5> QED BY <2>1, <3>2, <5>1, LastOf
      <4>2. trace[lastOf(S)].item = selected
        BY <2>4, <4>1 DEF ItemRows
      <4>3. pc # "selection"
        BY <2>1, <3>2 DEF Tells
      <4> QED BY <3>2, <4>2, <4>3 DEF latestSelectedItem
    <3> QED BY <3>1, <3>2
  <2>6. \A type \in ItemRows : about(type) = rowsOf(type)
    BY <2>4, <2>5 DEF about
  <2>7. countPlanningAnswers = answers
    BY <2>1, <2>6 DEF countPlanningAnswers, Tells, ItemRows
  <2>8. latestPlanningQuestions = IF pc = "selection" THEN 0 ELSE questions
    <3> DEFINE S == rowsOf("questions_result")
    <3>1. about("questions_result") = S
      BY <2>6 DEF ItemRows
    <3>2. CASE S = {}
      BY <1>1, <2>1, <3>1, <3>2 DEF latestPlanningQuestions, Tells, Waits
    <3>3. CASE S # {}
      <4>1. lastOf(S) \in S
        <5>1. S \subseteq DOMAIN trace
          BY DEF rowsOf
        <5> HIDE DEF S
        <5> QED BY <2>1, <3>3, <5>1, LastOf
      <4>2. trace[lastOf(S)].n = questions
        BY <2>1, <4>1 DEF Tells
      <4>3. pc # "selection"
        BY <2>1, <3>3 DEF Tells
      <4> QED
        BY <3>1, <3>3, <4>2, <4>3 DEF latestPlanningQuestions
    <3> QED BY <3>2, <3>3
  <2>9. about("plan_summary_result") # {} <=> pc = "greenlight"
    BY <2>1, <2>6 DEF Tells, ItemRows
  <2>10. rowsOf("greenlight_decision") = {}
    BY <2>1 DEF Tells
  <2>11. CASE pc = "selection"
    <3>1. /\ answers = 0 /\ countPlanningAnswers = 0
          /\ latestPlanningQuestions = 0
      BY <1>1, <2>7, <2>8, <2>11 DEF GateInv
    <3>2. latestSelectedItem = NoItem /\ latestPlanningCandidates # {}
      BY <2>1, <2>5, <2>11 DEF latestPlanningCandidates, Tells
    <3>3. awaited = "item-selected"
      BY <2>11 DEF awaited
    <3>4. buildPlanningPromptResponse = ask("item-selected", 0)
      BY <2>3, <3>1, <3>2 DEF buildPlanningPromptResponse
    <3> QED BY <2>2, <2>11, <3>3, <3>4
  <2>12. CASE pc = "answers"
    <3>1. /\ countPlanningAnswers = answers
          /\ latestPlanningQuestions = questions /\ answers < questions
      BY <1>1, <2>7, <2>8, <2>12 DEF GateInv
    <3>2. awaited = "answer"
      BY <2>12 DEF awaited
    <3>3. buildPlanningPromptResponse = ask("answer", answers + 1)
      BY <2>3, <3>1 DEF buildPlanningPromptResponse
    <3> QED BY <2>2, <2>12, <3>2, <3>3
  <2>13. CASE pc = "greenlight"
    <3>1. /\ countPlanningAnswers = questions
          /\ latestPlanningQuestions = questions
          /\ questions > 0 /\ questions \in Nat
      BY <1>1, <2>7, <2>8, <2>13 DEF GateInv
    <3>2. awaited = "greenlight"
      BY <2>13 DEF awaited
    <3>3. buildPlanningPromptResponse = ask("greenlight", 0)
      BY <2>3, <2>9, <2>10, <2>13, <3>1 DEF buildPlanningPromptResponse
    <3> QED BY <2>2, <2>13, <3>2, <3>3
  <2> QED BY <1>1, <2>11, <2>12, <2>13 DEF Waits
<1>2. GateInv /\ TraceInv /\ TellsInv => PromptTellsTheWait
  BY <1>1 DEF PromptTellsTheWait
<1>3. Init => TraceInv /\ TellsInv
  BY DEF Init, TraceInv, TellsInv, Loop, Waits
<1> QED
  BY <1>2, <1>3, GateInit, GateStep, ScoreInit, ScoreStep, TraceStep,
     TellsStep, PTL DEF Spec

=============================================================================
