--------------------------- MODULE DispatcherProofs ---------------------------
(***************************************************************************)
(* Proofs about Dispatcher, for any tasks, limits and faults: a task has   *)
(* two living workflows only where the lists of the tick missed the first  *)
(* one, and what the tick counted keeps to the limits with what it starts. *)
(* A tick decides from lists that are older than its starts, so each       *)
(* invariant says what the lists still promise while the children go on.   *)
(*                                                                         *)
(* The last part is about PostMortems, with which a tick ends.             *)
(***************************************************************************)
EXTENDS Dispatcher, PostMortems, FiniteSetTheorems, WellFoundedInduction,
        TLAPS

(* What a workflow may be doing, and the domains of the variables.         *)
Stages == {"free", "planning", "stale"} \cup SharkStages

TypeInv ==
    /\ status \in [Tasks -> Statuses]
    /\ stage \in [Workflows -> Stages]
    /\ task \in [Workflows -> Tasks \cup {NoTask}]
    /\ \A w \in live : task[w] \in Tasks
    /\ tick \in {"idle", "select", "start"}
    /\ slots \in Nat
    /\ planning \in BOOLEAN
    /\ todo \subseteq Tasks

-----------------------------------------------------------------------------
(* What a step does to the workflows: it starts one for a task of the      *)
(* tick, it moves one on, or it leaves them alone.                         *)

Starts(t, w) ==
    /\ tick = "start" /\ t \in todo /\ stage[w] = "free"
    /\ todo' = todo \ {t}
    /\ stage' = [stage EXCEPT ![w] = IF t \in route /\ ~planning
                                     THEN "planning" ELSE "starting"]
    /\ task' = [task EXCEPT ![w] = t]
    /\ planning' = (planning \/ (t \in route /\ ~planning))
    /\ UNCHANGED <<status, tick, runningSet, slots, unseen, uncounted>>

(* The child w goes on to stage s, and may write its task's status if it   *)
(* ends with that.                                                         *)
GoesOn(w, s) ==
    /\ stage[w] # "free" /\ s \in Stages /\ s # "planning"
    /\ s \in SharkStages => stage[w] \in SharkStages
    /\ s = "stale" => stage[w] = "planning"
    /\ stage' = [stage EXCEPT ![w] = s]
    /\ s = "free" => /\ task' = [task EXCEPT ![w] = NoTask]
                     /\ unseen' = unseen \ {w} /\ uncounted' = uncounted \ {w}
    /\ s # "free" => UNCHANGED <<task, unseen, uncounted>>
    /\ \/ UNCHANGED status
       \/ \E v \in Statuses : s = "free" /\ status' = [status EXCEPT ![task[w]] = v]
    /\ UNCHANGED tickVars

(* A candidate whose child cannot be started.                              *)
Skips(t) ==
    /\ tick = "start" /\ t \in todo /\ todo' = todo \ {t}
    /\ UNCHANGED <<status, stage, task, tick, runningSet, slots, planning,
                   unseen, uncounted>>

(* A candidate is started or skipped.                                      *)
LEMMA StartEffect ==
    ASSUME NEW t \in Tasks, NEW w \in Workflows, StartChild(t, w)
    PROVE  Starts(t, w) \/ Skips(t)
BY DEF StartChild, Starts, Skips, taskVars, wfVars, seenVars

(* GoesOn describes every step of a child.                                 *)
LEMMA ChildEffect ==
    ASSUME TypeInv, NEW w \in Workflows,
           ChildStep(w) \/ CeremonyGoesStale(w) \/ ChildTimesOut(w)
    PROVE  \E s \in Stages : GoesOn(w, s)
<1>0. Stages = {"free", "planning", "stale", "starting", "listed",
                "completed", "escalated"}
  BY DEF Stages, SharkStages
<1>1. CASE SharkStarts(w)
  <2>1. GoesOn(w, "listed")
    BY <1>0, <1>1 DEF SharkStarts, Move, seenVars, GoesOn, taskVars, SharkStages
  <2> QED BY <1>0, <2>1
<1>2. CASE SharkPasses(w)
  <2>1. GoesOn(w, "completed")
    BY <1>0, <1>2 DEF SharkPasses, Move, seenVars, GoesOn, taskVars, SharkStages
  <2> QED BY <1>0, <2>1
<1>3. CASE SharkCloses(w)
  <2>1. GoesOn(w, "free")
    BY <1>0, <1>3 DEF SharkCloses, Move, seenVars, Write, GoesOn, SharkStages, Statuses
  <2> QED BY <1>0, <2>1
<1>4. CASE SharkPlanFails(w)
  <2>1. GoesOn(w, "free")
    BY <1>0, <1>4 DEF SharkPlanFails, Move, seenVars, Write, GoesOn, SharkStages, Statuses
  <2> QED BY <1>0, <2>1
<1>5. CASE SharkEscalates(w)
  <2>1. GoesOn(w, "escalated")
    BY <1>0, <1>5 DEF SharkEscalates, Move, seenVars, GoesOn, taskVars, SharkStages
  <2> QED BY <1>0, <2>1
<1>6. CASE SharkReopens(w)
  <2>1. GoesOn(w, "free")
    BY <1>0, <1>6 DEF SharkReopens, Move, seenVars, Write, GoesOn, SharkStages, Statuses
  <2> QED BY <1>0, <2>1
<1>7. CASE CeremonyEnds(w)
  <2>1. GoesOn(w, "free")
    BY <1>0, <1>7 DEF CeremonyEnds, Move, seenVars, Write, GoesOn, SharkStages, Statuses
  <2> QED BY <1>0, <2>1
<1>8. CASE CeremonyGoesStale(w)
  <2>1. GoesOn(w, "stale")
    BY <1>0, <1>8 DEF CeremonyGoesStale, Move, seenVars, GoesOn, taskVars, SharkStages
  <2> QED BY <1>0, <2>1
<1>9. CASE ChildTimesOut(w)
  <2>1. GoesOn(w, "free")
    BY <1>0, <1>9 DEF ChildTimesOut, Move, seenVars, GoesOn, taskVars, SharkStages
  <2> QED BY <1>0, <2>1
<1> QED BY <1>1, <1>2, <1>3, <1>4, <1>5, <1>6, <1>7, <1>8, <1>9 DEF ChildStep

(* The five kinds of steps.                                                *)
Kinds ==
    \/ ListRunning \/ SelectCandidates \/ EndTick
    \/ \E t \in Tasks, w \in Workflows : Starts(t, w)
    \/ \E t \in Tasks : Skips(t)
    \/ \E w \in Workflows, s \in Stages : GoesOn(w, s)

(* Every step is one of these.                                             *)
LEMMA StepKinds ==
    ASSUME TypeInv, Next
    PROVE  Kinds
<1>1. CASE TickStep
  BY <1>1, StartEffect DEF TickStep, Kinds
<1>2. CASE \E w \in Workflows :
             ChildStep(w) \/ CeremonyGoesStale(w) \/ ChildTimesOut(w)
  BY <1>2, ChildEffect DEF Kinds
<1> QED BY <1>1, <1>2 DEF Next

(* What the count of a project returned of its living sharks.              *)
counted(p) == {w \in sharks \ uncounted : ProjectOf[task[w]] = p}

(* What SelectCandidates leaves behind, whatever lists failed.             *)
LEMMA SelectEffect ==
    ASSUME TypeInv, SelectCandidates
    PROVE  /\ tick = "select" /\ tick' = "start"
           /\ status' \in [Tasks -> Statuses]
           /\ todo' \subseteq Tasks /\ todo' \cap runningSet = {}
           /\ \E count \in [Projects -> Nat] :
                /\ \A p \in Projects : count[p] = Cardinality(counted(p)')
                /\ \E c \in SUBSET Tasks : todo' \in Selected(c, count)
           /\ UNCHANGED <<stage, task, runningSet, slots, planning, unseen>>
<1>1. PICK failed \in SUBSET (IF "listProject" \in faults THEN Projects ELSE {}),
           unread \in SUBSET (IF "listTasks" \in faults THEN Projects ELSE {}) :
         LET count == [p \in Projects |->
                          IF p \in failed THEN 0
                                          ELSE Cardinality(projectOpenWFs(p))]
             scanned == {p \in Projects : count[p] < MaxPerProject /\ p \notin unread}
             promoted == {t \in Tasks : /\ GroomingOff
                                        /\ ProjectOf[t] \in scanned
                                        /\ status[t] = "open"
                                        /\ t \in Groomed \ Containers
                                        /\ DAG!unblocked(t)}
         IN  /\ status' = [t \in Tasks |->
                             IF t \in promoted THEN "ready" ELSE status[t]]
             /\ LET ready == {t \in Tasks : \E p \in scanned :
                                 t \in DAG!FilterUnblockedOpen(p)'}
                IN  todo' \in Selected(notDeferred(ready)
                                        \ (runningSet \cup Hibernating), count)
             /\ uncounted' = live \ {w \in openWFs : ProjectOf[task[w]] \notin failed}
  BY Zenon DEF SelectCandidates
<1> DEFINE count == [p \in Projects |->
                       IF p \in failed THEN 0 ELSE Cardinality(projectOpenWFs(p))]
           scanned == {p \in Projects : count[p] < MaxPerProject /\ p \notin unread}
           promoted == {t \in Tasks : /\ GroomingOff
                                      /\ ProjectOf[t] \in scanned
                                      /\ status[t] = "open"
                                      /\ t \in Groomed \ Containers
                                      /\ DAG!unblocked(t)}
           ready == {t \in Tasks : \E p \in scanned :
                        t \in DAG!FilterUnblockedOpen(p)'}
           cands == notDeferred(ready) \ (runningSet \cup Hibernating)
<1>2. /\ status' = [t \in Tasks |-> IF t \in promoted THEN "ready" ELSE status[t]]
      /\ todo' \in Selected(cands, count)
      /\ uncounted' = live \ {w \in openWFs : ProjectOf[task[w]] \notin failed}
  BY <1>1, Zenon
<1>3. /\ tick = "select" /\ tick' = "start"
      /\ UNCHANGED <<stage, task, runningSet, slots, planning, unseen>>
  BY Zenon DEF SelectCandidates, wfVars
<1>4. status' \in [Tasks -> Statuses]
  <2> HIDE DEF promoted
  <2> QED BY <1>2 DEF TypeInv, Statuses
<1>5. count \in [Projects -> Nat]
  <2>1. \A p \in Projects : Cardinality(projectOpenWFs(p)) \in Nat
    <3> TAKE p \in Projects
    <3>1. projectOpenWFs(p) \subseteq Workflows
      BY DEF projectOpenWFs, openWFs
    <3> QED BY <3>1, DispatcherAssumption, FS_Subset, FS_CardinalityType
  <2> QED BY <2>1
<1>6. ASSUME NEW p \in Projects
      PROVE  count[p] = Cardinality(counted(p)')
  <2>1. sharks' = sharks /\ openWFs \subseteq sharks /\ sharks \subseteq live
    BY <1>3 DEF sharks, openWFs, live, SharkStages
  <2>2. counted(p)' = {w \in sharks \ uncounted' : ProjectOf[task[w]] = p}
    BY <1>3, <2>1 DEF counted
  <2>3. CASE p \in failed
    <3>1. counted(p)' = {}
      BY <1>2, <2>1, <2>2, <2>3
    <3> QED BY <2>3, <3>1, FS_EmptySet
  <2>4. CASE p \notin failed
    <3>1. counted(p)' = projectOpenWFs(p)
      BY <1>2, <2>1, <2>2, <2>4 DEF projectOpenWFs
    <3> QED BY <2>4, <3>1
  <2> QED BY <2>3, <2>4
<1>7. ready \subseteq Tasks
  OBVIOUS
<1>8. cands \in SUBSET Tasks /\ cands \cap runningSet = {}
  <2> HIDE DEF ready
  <2> QED BY <1>7 DEF notDeferred
<1>9. todo' \subseteq cands
  <2> HIDE DEF cands, count
  <2> QED BY <1>2 DEF Selected
<1>10. todo' \subseteq Tasks /\ todo' \cap runningSet = {}
  <2> HIDE DEF cands
  <2> QED BY <1>8, <1>9
<1>11. \E n \in [Projects -> Nat] :
           /\ \A p \in Projects : n[p] = Cardinality(counted(p)')
           /\ \E c \in SUBSET Tasks : todo' \in Selected(c, n)
  <2> HIDE DEF cands, count
  <2> QED BY <1>2, <1>5, <1>6, <1>8
<1> QED BY <1>3, <1>4, <1>10, <1>11

-----------------------------------------------------------------------------
(* The slots of a tick and the sharks it has listed fit into the total.    *)
LEMMA ShareOfSlots ==
    ASSUME TypeInv, ListRunning
    PROVE  /\ slots' \in Nat
           /\ Cardinality(openWFs) \in Nat
           /\ Cardinality(openWFs) + slots' <= MaxTotal
<1>1. Cardinality(openWFs) \in Nat
  <2>1. openWFs \subseteq Workflows
    BY DEF openWFs
  <2> QED BY <2>1, DispatcherAssumption, FS_Subset, FS_CardinalityType
<1> QED BY <1>1, DispatcherAssumption DEF ListRunning

(* TypeInv is inductive.                                                   *)
LEMMA TypeInvInductive ==
    /\ Init => TypeInv
    /\ TypeInv /\ [Next]_vars => TypeInv'
<1>1. ASSUME Init
      PROVE  TypeInv
  <2>1. status \in [Tasks -> Statuses]
    BY <1>1, DispatcherAssumption DEF Init, Statuses
  <2>2. live = {}
    BY <1>1 DEF Init, live
  <2> QED BY <1>1, <2>1, <2>2 DEF Init, TypeInv, Stages, SharkStages
<1>2. ASSUME TypeInv, Next
      PROVE  TypeInv'
  <2>1. CASE ListRunning
    <3>1. planning' \in BOOLEAN
      BY <2>1 DEF ListRunning
    <3> QED
      BY <1>2, <2>1, <3>1, ShareOfSlots
      DEF ListRunning, TypeInv, live, taskVars, wfVars
  <2>2. CASE SelectCandidates
    BY <1>2, <2>2, SelectEffect DEF TypeInv, live
  <2>3. CASE EndTick
    BY <1>2, <2>3 DEF EndTick, TypeInv, live, taskVars, wfVars
  <2>4. ASSUME NEW t \in Tasks, NEW w \in Workflows, Starts(t, w)
        PROVE  TypeInv'
    BY <1>2, <2>4 DEF Starts, TypeInv, live, Stages, SharkStages
  <2>5. ASSUME NEW t \in Tasks, Skips(t)
        PROVE  TypeInv'
    BY <1>2, <2>5 DEF Skips, TypeInv, live
  <2>6. ASSUME NEW w \in Workflows, NEW s \in Stages, GoesOn(w, s)
        PROVE  TypeInv'
    <3>1. task[w] \in Tasks
      BY <1>2, <2>6 DEF GoesOn, TypeInv, live
    <3>2. status' \in [Tasks -> Statuses]
      BY <1>2, <2>6, <3>1 DEF GoesOn, TypeInv
    <3>3. stage' \in [Workflows -> Stages]
      BY <1>2, <2>6 DEF GoesOn, TypeInv
    <3>4. /\ task' \in [Workflows -> Tasks \cup {NoTask}]
          /\ \A v \in live' : task'[v] \in Tasks
      BY <1>2, <2>6 DEF GoesOn, TypeInv, live
    <3> QED BY <1>2, <2>6, <3>2, <3>3, <3>4 DEF GoesOn, TypeInv, tickVars
  <2> QED BY <1>2, <2>1, <2>2, <2>3, <2>4, <2>5, <2>6, StepKinds DEF Kinds
<1>3. TypeInv /\ UNCHANGED vars => TypeInv'
  BY DEF vars, taskVars, wfVars, tickVars, TypeInv, live
<1> QED BY <1>1, <1>2, <1>3

-----------------------------------------------------------------------------
(* One organism per task.                                                  *)

(* What a tick knows stays true while it is used: in the selection, the    *)
(* task of every living workflow that the lists did not miss is in         *)
(* runningSet; while children are started, the candidates left have no     *)
(* such workflow.                                                          *)
LiveInv ==
    /\ tick = "select" => \A w \in live \ unseen : task[w] \in runningSet
    /\ tick = "start" => \A t \in todo : \A w \in live \ unseen : task[w] # t

(* LiveInv is inductive.                                                   *)
LEMMA LiveInvInductive ==
    /\ Init => LiveInv
    /\ TypeInv /\ LiveInv /\ [Next]_vars => LiveInv'
<1>1. Init => LiveInv
  BY DEF Init, LiveInv
<1>2. ASSUME TypeInv, LiveInv, Next
      PROVE  LiveInv'
  <2>1. CASE ListRunning
    <3>1. PICK seen :
            /\ runningSet' = TasksOf(openWFs) \cup TasksOf(seen)
            /\ unseen' = live \ (openWFs \cup seen)
      BY <2>1 DEF ListRunning
    <3>2. tick' = "select" /\ live' = live /\ task' = task
      BY <2>1 DEF ListRunning, wfVars, live
    <3>3. \A w \in live' \ unseen' : task'[w] \in runningSet'
      BY <3>1, <3>2 DEF TasksOf
    <3> QED BY <3>2, <3>3 DEF LiveInv
  <2>2. CASE SelectCandidates
    <3>1. /\ tick = "select" /\ tick' = "start"
          /\ todo' \cap runningSet = {} /\ UNCHANGED <<stage, task, unseen>>
      BY <1>2, <2>2, SelectEffect
    <3>2. live' = live
      BY <3>1 DEF live
    <3> QED BY <1>2, <3>1, <3>2 DEF LiveInv
  <2>3. CASE EndTick
    BY <2>3 DEF EndTick, LiveInv
  <2>4. ASSUME NEW t \in Tasks, NEW w \in Workflows, Starts(t, w)
        PROVE  LiveInv'
    <3>1. tick = "start" /\ tick' = "start" /\ todo' = todo \ {t}
          /\ unseen' = unseen
      BY <2>4 DEF Starts
    <3>2. live' = live \cup {w} /\ w \notin live
      BY <1>2, <2>4 DEF Starts, live, TypeInv
    <3>3. task'[w] = t /\ \A v \in live : task'[v] = task[v]
      BY <1>2, <2>4, <3>2 DEF Starts, live, TypeInv
    <3> QED BY <1>2, <3>1, <3>2, <3>3 DEF LiveInv
  <2>5. ASSUME NEW t \in Tasks, Skips(t)
        PROVE  LiveInv'
    BY <1>2, <2>5 DEF Skips, LiveInv, live
  <2>6. ASSUME NEW w \in Workflows, NEW s \in Stages, GoesOn(w, s)
        PROVE  LiveInv'
    <3>1. live' \ unseen' \subseteq live \ unseen
      BY <1>2, <2>6 DEF GoesOn, live, TypeInv
    <3>2. \A v \in live' : task'[v] = task[v]
      BY <1>2, <2>6 DEF GoesOn, live, TypeInv
    <3>3. tick' = tick /\ todo' = todo /\ runningSet' = runningSet
      BY <2>6 DEF GoesOn, tickVars
    <3> QED BY <1>2, <3>1, <3>2, <3>3 DEF LiveInv
  <2> QED BY <1>2, <2>1, <2>2, <2>3, <2>4, <2>5, <2>6, StepKinds DEF Kinds
<1>3. ASSUME LiveInv, UNCHANGED vars
      PROVE  LiveInv'
  BY <1>3 DEF vars, wfVars, tickVars, seenVars, LiveInv, live
<1> QED BY <1>1, <1>2, <1>3

(* Whatever the children do between the lists, the selection and the       *)
(* starts, a child is started beside a living workflow of its task only if *)
(* the lists missed that one.                                              *)
THEOREM OneOrganism == Spec => OneOrganismPerTask
<1>1. Init => TypeInv /\ LiveInv
  BY TypeInvInductive, LiveInvInductive
<1>2. TypeInv /\ LiveInv /\ [Next]_vars => (TypeInv /\ LiveInv)'
  BY TypeInvInductive, LiveInvInductive
<1>3. TypeInv /\ LiveInv /\ [Next]_vars =>
        [\A w \in Workflows :
           (stage[w] = "free" /\ stage'[w] # "free") =>
              \A v \in live : task[v] = task'[w] => v \in unseen]_vars
  <2>1. SUFFICES ASSUME TypeInv, LiveInv, Next, NEW x \in Workflows,
                        stage[x] = "free", stage'[x] # "free",
                        NEW v \in live, task[v] = task'[x]
                 PROVE  v \in unseen
    OBVIOUS
  <2>2. CASE ListRunning
    BY <2>1, <2>2 DEF ListRunning, wfVars
  <2>3. CASE SelectCandidates
    BY <2>1, <2>3, SelectEffect
  <2>4. CASE EndTick
    BY <2>1, <2>4 DEF EndTick, wfVars
  <2>5. ASSUME NEW t \in Tasks, NEW w \in Workflows, Starts(t, w)
        PROVE  v \in unseen
    <3>1. x = w
      BY <2>1, <2>5 DEF Starts, TypeInv
    <3>2. task'[x] = t
      BY <2>1, <2>5, <3>1 DEF Starts, TypeInv
    <3>3. tick = "start" /\ t \in todo
      BY <2>5 DEF Starts
    <3> QED BY <2>1, <3>2, <3>3 DEF LiveInv
  <2>6. ASSUME NEW t \in Tasks, Skips(t)
        PROVE  FALSE
    BY <2>1, <2>6 DEF Skips
  <2>7. ASSUME NEW w \in Workflows, NEW s \in Stages, GoesOn(w, s)
        PROVE  FALSE
    BY <2>1, <2>7 DEF GoesOn, TypeInv
  <2> QED BY <2>1, <2>2, <2>3, <2>4, <2>5, <2>6, <2>7, StepKinds DEF Kinds
<1> QED BY <1>1, <1>2, <1>3, PTL DEF Spec, OneOrganismPerTask

-----------------------------------------------------------------------------
(* The limits.                                                             *)

(* If every one of some tasks has fewer than n of them before it in the    *)
(* order, there are at most n: the last one has all the others before it.  *)
(* It is found as the one that leaves the fewest not before it.            *)
LEMMA AtMost ==
    ASSUME NEW R \in SUBSET Tasks, NEW n \in Nat,
           \A t \in R : Cardinality({s \in R : Rank[s] < Rank[t]}) < n
    PROVE  Cardinality(R) <= n
<1> DEFINE better(t) == {s \in R : Rank[s] < Rank[t]}
           rest(t) == R \ better(t)
<1>1. IsFiniteSet(R)
  BY DispatcherAssumption, FS_Subset
<1>2. CASE R = {}
  BY <1>2, FS_EmptySet
<1>3. CASE R # {}
  <2> DEFINE U == {rest(t) : t \in R}
             Order == StrictSubsetOrdering(R)
  <2>1. IsWellFoundedOn(Order, SUBSET R)
    BY <1>1, FS_StrictSubsetOrderingWellFounded, FS_FiniteSubsetsOfFinite
  <2>2. U \subseteq SUBSET R /\ U # {}
    BY <1>3
  <2>3. PICK x \in U : \A y \in U : <<y, x>> \notin Order
    <3> HIDE DEF U, Order
    <3> QED BY <2>1, <2>2, WFMin, Zenon
  <2>4. PICK t \in R : x = rest(t)
    BY <2>3
  <2>5. ASSUME NEW u \in R, Rank[t] < Rank[u]
        PROVE  FALSE
    <3>1. Rank[u] \in Nat /\ Rank[t] \in Nat /\ \A s \in R : Rank[s] \in Nat
      BY DispatcherAssumption
    <3>2. rest(u) \subseteq rest(t)
      BY <2>5, <3>1
    <3>3. t \in rest(t) /\ t \notin rest(u)
      BY <2>5, <3>1
    <3>4. rest(u) \in U /\ rest(u) \in SUBSET R /\ x \in SUBSET R
      BY <2>4
    <3>5. <<rest(u), x>> \in Order
      <4> HIDE DEF rest, U
      <4> QED BY <2>4, <3>2, <3>3, <3>4 DEF StrictSubsetOrdering
    <3> QED
      <4> HIDE DEF rest, U, Order
      <4> QED BY <2>3, <3>4, <3>5
  <2>6. R = better(t) \cup {t} /\ t \notin better(t)
    <3>1. \A s \in R : Rank[s] \in Nat /\ (Rank[s] = Rank[t] => s = t)
      BY DispatcherAssumption
    <3> QED BY <2>5, <3>1
  <2>7. IsFiniteSet(better(t))
    BY <1>1, FS_Subset
  <2>8. Cardinality(R) = Cardinality(better(t)) + 1
    <3> HIDE DEF better
    <3> QED BY <2>6, <2>7, FS_AddElement
  <2>9. Cardinality(better(t)) \in Nat
    BY <2>7, FS_CardinalityType
  <2> QED BY <2>8, <2>9
<1> QED BY <1>2, <1>3

todoOf(p) == {t \in todo : ProjectOf[t] = p}

known == sharks \ unseen

sessions == {w \in Workflows : stage[w] \in {"planning", "stale"}}

(* The sharks the tick knows of leave room for what it may still start:    *)
(* for its slots in the selection, for the candidates left while it starts *)
(* them.                                                                   *)
TotalInv ==
    /\ tick = "select" => Cardinality(known) + slots <= MaxTotal
    /\ tick = "start" => Cardinality(known) + Cardinality(todo) <= MaxTotal

(* The same for every project that has candidates.                         *)
ProjectInv ==
    tick = "start" => \A p \in Projects : todoOf(p) # {} =>
        Cardinality(counted(p)) + Cardinality(todoOf(p)) <= MaxPerProject

(* A tick that was told of no session, and has started none, is right but  *)
(* for the sessions it was not told of.                                    *)
PlanningInv ==
    tick \in {"select", "start"} /\ ~planning => sessions \subseteq unseen

LimitInv == TotalInv /\ ProjectInv /\ PlanningInv

(* What the limits count is finite.                                        *)
LEMMA Counts ==
    ASSUME TypeInv
    PROVE  /\ Cardinality(known) \in Nat /\ IsFiniteSet(known)
           /\ Cardinality(todo) \in Nat /\ IsFiniteSet(todo)
           /\ \A p : /\ Cardinality(counted(p)) \in Nat
                     /\ IsFiniteSet(counted(p))
                     /\ Cardinality(todoOf(p)) \in Nat
                     /\ IsFiniteSet(todoOf(p))
<1>1. known \subseteq Workflows /\ \A p : counted(p) \subseteq Workflows
  BY DEF sharks, counted, known
<1>2. todo \subseteq Tasks /\ \A p : todoOf(p) \subseteq Tasks
  BY DEF TypeInv, todoOf
<1> QED BY <1>1, <1>2, DispatcherAssumption, FS_Subset, FS_CardinalityType

(* Fewer sharks and fewer candidates need no more room.                    *)
LEMMA FewerSharks ==
    ASSUME TypeInv, TypeInv', LimitInv, known' \subseteq known,
           \A p \in Projects : counted(p)' \subseteq counted(p),
           todo' \subseteq todo, tick' = tick, slots' = slots
    PROVE  TotalInv' /\ ProjectInv'
<1>1. /\ Cardinality(known)' <= Cardinality(known)
      /\ Cardinality(todo)' <= Cardinality(todo)
  BY Counts, FS_Subset
<1>2. /\ Cardinality(known) \in Nat /\ Cardinality(known)' \in Nat
      /\ Cardinality(todo) \in Nat /\ Cardinality(todo)' \in Nat
      /\ MaxTotal \in Nat /\ MaxPerProject \in Nat /\ slots \in Nat
  <2>1. Cardinality(known)' \in Nat /\ Cardinality(todo)' \in Nat
    BY Counts, <1>1, FS_Subset, FS_CardinalityType
  <2> QED BY <2>1, Counts, DispatcherAssumption DEF TypeInv
<1>3. TotalInv'
  BY <1>1, <1>2 DEF LimitInv, TotalInv
<1>4. ASSUME tick' = "start", NEW p \in Projects, todoOf(p)' # {}
      PROVE  Cardinality(counted(p))' + Cardinality(todoOf(p))' <= MaxPerProject
  <2>1. counted(p)' \subseteq counted(p) /\ todoOf(p)' \subseteq todoOf(p)
    BY DEF todoOf
  <2>2. /\ Cardinality(counted(p))' <= Cardinality(counted(p))
        /\ Cardinality(todoOf(p))' <= Cardinality(todoOf(p))
        /\ Cardinality(counted(p))' \in Nat /\ Cardinality(todoOf(p))' \in Nat
    BY <2>1, Counts, FS_Subset, FS_CardinalityType
  <2>3. todoOf(p) # {}
    BY <1>4, <2>1
  <2> QED BY <1>2, <1>4, <2>2, <2>3, Counts DEF LimitInv, ProjectInv
<1> QED BY <1>3, <1>4 DEF ProjectInv, Projects

(* The candidates selected fit beside the sharks the tick knows of.        *)
LEMMA SelectionFits ==
    ASSUME TypeInv, TypeInv', LimitInv, SelectCandidates
    PROVE  TotalInv' /\ ProjectInv'
<1>1. /\ tick = "select" /\ tick' = "start" /\ stage' = stage
      /\ slots' = slots /\ unseen' = unseen /\ todo' \subseteq Tasks
  BY SelectEffect
<1>2. PICK count \in [Projects -> Nat] :
        /\ \A p \in Projects : count[p] = Cardinality(counted(p)')
        /\ \E c \in SUBSET Tasks : todo' \in Selected(c, count)
  BY SelectEffect
<1>3. \A t \in todo' :
        /\ Cardinality({s \in todo' : Rank[s] < Rank[t]}) < slots
        /\ count[ProjectOf[t]]
             + Cardinality({s \in {r \in todo' : Rank[r] < Rank[t]} :
                               ProjectOf[s] = ProjectOf[t]}) < MaxPerProject
  <2>1. PICK c \in SUBSET Tasks : todo' \in Selected(c, count)
    BY <1>2
  <2> QED BY <2>1 DEF Selected
<1>4. known' = known
  BY <1>1 DEF known, sharks
<1>5. TotalInv'
  <2>1. Cardinality(todo') <= slots
    BY <1>1, <1>3, AtMost DEF TypeInv
  <2>2. Cardinality(todo') \in Nat
    BY <1>1, DispatcherAssumption, FS_Subset, FS_CardinalityType
  <2> QED
    BY <1>1, <1>4, <2>1, <2>2, Counts, DispatcherAssumption
    DEF LimitInv, TotalInv, TypeInv
<1>6. ASSUME NEW p \in Projects, todoOf(p)' # {}
      PROVE  Cardinality(counted(p))' + Cardinality(todoOf(p))' <= MaxPerProject
  <2> DEFINE R == {t \in todo' : ProjectOf[t] = p}
             n == MaxPerProject - count[p]
  <2>1. R \in SUBSET Tasks /\ todoOf(p)' = R /\ count[p] \in Nat
    BY <1>1 DEF todoOf
  <2>2. ASSUME NEW t \in R
        PROVE  /\ count[p] + Cardinality({s \in R : Rank[s] < Rank[t]})
                     < MaxPerProject
               /\ Cardinality({s \in R : Rank[s] < Rank[t]}) \in Nat
    <3>1. {s \in R : Rank[s] < Rank[t]}
            = {s \in {r \in todo' : Rank[r] < Rank[t]} :
                  ProjectOf[s] = ProjectOf[t]}
      OBVIOUS
    <3>2. IsFiniteSet({s \in R : Rank[s] < Rank[t]})
      BY <2>1, DispatcherAssumption, FS_Subset
    <3>3. Cardinality({s \in R : Rank[s] < Rank[t]}) \in Nat
      BY <3>2, FS_CardinalityType
    <3> QED BY <1>3, <3>1, <3>3
  <2>3. n \in Nat
    <3>1. PICK t \in R : TRUE
      BY <1>6, <2>1
    <3>2. PICK k \in Nat : count[p] + k < MaxPerProject
      <4> HIDE DEF R
      <4> QED BY <2>2, <3>1
    <3> QED BY <2>1, <3>2, DispatcherAssumption
  <2>4. Cardinality(R) <= n
    <3>1. \A t \in R : Cardinality({s \in R : Rank[s] < Rank[t]}) < n
      <4> HIDE DEF R
      <4> QED BY <2>1, <2>2, DispatcherAssumption
    <3> HIDE DEF R, n
    <3> QED BY <2>1, <2>3, <3>1, AtMost
  <2>5. Cardinality(R) \in Nat
    BY <2>1, DispatcherAssumption, FS_Subset, FS_CardinalityType
  <2>6. Cardinality(counted(p)') = count[p]
    BY <1>2
  <2> HIDE DEF R
  <2> QED BY <2>1, <2>4, <2>5, <2>6, DispatcherAssumption
<1> QED BY <1>1, <1>5, <1>6 DEF ProjectInv, Projects

(* A candidate that is started needs the room it had before.               *)
LEMMA StartFits ==
    ASSUME TypeInv, TypeInv', LimitInv, NEW t \in Tasks, NEW w \in Workflows,
           Starts(t, w)
    PROVE  /\ TotalInv' /\ ProjectInv'
           /\ Cardinality(known') <= MaxTotal
           /\ Cardinality(counted(ProjectOf[t])') <= MaxPerProject
<1>1. /\ tick = "start" /\ tick' = "start" /\ t \in todo
      /\ todo' = todo \ {t} /\ unseen' = unseen /\ uncounted' = uncounted
  BY DEF Starts
<1>2. sharks' \subseteq sharks \cup {w} /\ task'[w] = t
      /\ \A v \in sharks : v # w /\ task'[v] = task[v]
  BY DEF Starts, sharks, TypeInv, SharkStages
<1>3. ASSUME NEW S, NEW V, NEW T, NEW Q, IsFiniteSet(S), IsFiniteSet(T),
             V \subseteq S \cup {w}, t \in T, Q = T \ {t}
      PROVE  /\ Cardinality(V) + Cardinality(Q) <= Cardinality(S) + Cardinality(T)
             /\ Cardinality(V) \in Nat /\ Cardinality(Q) \in Nat
  <2>1. IsFiniteSet(S \cup {w}) /\ Cardinality(S \cup {w}) <= Cardinality(S) + 1
    <3>1. Cardinality(S) \in Nat
      BY <1>3, FS_CardinalityType
    <3>2. /\ IsFiniteSet(S \cup {w})
          /\ Cardinality(S \cup {w}) = IF w \in S THEN Cardinality(S)
                                                 ELSE Cardinality(S) + 1
      BY <1>3, FS_AddElement
    <3>3. CASE w \in S
      BY <3>1, <3>2, <3>3
    <3>4. CASE w \notin S
      BY <3>1, <3>2, <3>4
    <3> QED BY <3>3, <3>4
  <2>2. IsFiniteSet(V) /\ Cardinality(V) <= Cardinality(S \cup {w})
    BY <1>3, <2>1, FS_Subset
  <2>3. IsFiniteSet(Q) /\ Cardinality(Q) = Cardinality(T) - 1
    BY <1>3, FS_RemoveElement
  <2> QED BY <1>3, <2>1, <2>2, <2>3, FS_CardinalityType
<1>4. TotalInv' /\ Cardinality(known') <= MaxTotal
  <2>1. known' \subseteq known \cup {w}
    BY <1>1, <1>2 DEF known
  <2>2. /\ Cardinality(known') + Cardinality(todo')
             <= Cardinality(known) + Cardinality(todo)
        /\ Cardinality(known') \in Nat /\ Cardinality(todo') \in Nat
    BY <1>1, <1>3, <2>1, Counts
  <2> QED
    BY <1>1, <2>2, Counts, DispatcherAssumption DEF LimitInv, TotalInv
<1>5. ASSUME NEW p \in Projects, todoOf(p) # {}
      PROVE  /\ Cardinality(counted(p)') + Cardinality(todoOf(p)') <= MaxPerProject
             /\ Cardinality(counted(p)') <= MaxPerProject
  <2>1. Cardinality(counted(p)) + Cardinality(todoOf(p)) <= MaxPerProject
    BY <1>1, <1>5 DEF LimitInv, ProjectInv
  <2>2. CASE ProjectOf[t] = p
    <3>1. counted(p)' \subseteq counted(p) \cup {w}
      BY <1>1, <1>2 DEF counted
    <3>2. t \in todoOf(p) /\ todoOf(p)' = todoOf(p) \ {t}
      BY <1>1, <2>2 DEF todoOf
    <3>3. /\ Cardinality(counted(p)') + Cardinality(todoOf(p)')
               <= Cardinality(counted(p)) + Cardinality(todoOf(p))
          /\ Cardinality(counted(p)') \in Nat /\ Cardinality(todoOf(p)') \in Nat
      BY <1>3, <3>1, <3>2, Counts
    <3> QED BY <2>1, <3>3, Counts, DispatcherAssumption
  <2>3. CASE ProjectOf[t] # p
    <3>1. counted(p)' \subseteq counted(p)
      BY <1>1, <1>2, <2>3 DEF counted
    <3>2. todoOf(p)' = todoOf(p)
      BY <1>1, <2>3 DEF todoOf
    <3>3. Cardinality(counted(p)') <= Cardinality(counted(p))
          /\ Cardinality(counted(p)') \in Nat
      BY <3>1, Counts, FS_Subset, FS_CardinalityType
    <3> QED BY <2>1, <3>2, <3>3, Counts, DispatcherAssumption
  <2> QED BY <2>2, <2>3
<1>6. ProjectInv'
  <2>1. \A p : todoOf(p)' \subseteq todoOf(p)
    BY <1>1 DEF todoOf
  <2> QED BY <1>5, <2>1 DEF ProjectInv, Projects
<1>7. Cardinality(counted(ProjectOf[t])') <= MaxPerProject
  <2>1. ProjectOf[t] \in Projects /\ todoOf(ProjectOf[t]) # {}
    BY <1>1 DEF Projects, todoOf
  <2> QED BY <1>5, <2>1
<1> QED BY <1>4, <1>6, <1>7

(* LimitInv is inductive.                                                  *)
LEMMA LimitInvInductive ==
    /\ Init => LimitInv
    /\ TypeInv /\ TypeInv' /\ LimitInv /\ [Next]_vars => LimitInv'
<1>1. Init => LimitInv
  BY DEF Init, LimitInv, TotalInv, ProjectInv, PlanningInv
<1>2. ASSUME TypeInv, TypeInv', LimitInv, Next
      PROVE  LimitInv'
  <2>1. CASE ListRunning
    <3>1. PICK seen : /\ seen \subseteq planningWFs
                      /\ planning' = (seen # {})
                      /\ unseen' = live \ (openWFs \cup seen)
      BY <2>1 DEF ListRunning
    <3>2. tick' = "select" /\ stage' = stage /\ task' = task
      BY <2>1 DEF ListRunning, wfVars
    <3>3. known' = openWFs
      BY <3>1, <3>2 DEF known, sharks, openWFs, planningWFs, live, SharkStages
    <3>4. TotalInv'
      BY <1>2, <2>1, <3>2, <3>3, ShareOfSlots DEF TotalInv
    <3>5. ProjectInv'
      BY <3>2 DEF ProjectInv
    <3>6. PlanningInv'
      <4> SUFFICES ASSUME ~planning' PROVE sessions' \subseteq unseen'
        BY DEF PlanningInv
      <4>1. seen = {}
        BY <3>1
      <4> QED BY <3>1, <3>2, <4>1 DEF sessions, live, openWFs
    <3> QED BY <3>4, <3>5, <3>6 DEF LimitInv
  <2>2. CASE SelectCandidates
    <3>1. /\ tick = "select" /\ stage' = stage /\ unseen' = unseen
          /\ planning' = planning
      BY <1>2, <2>2, SelectEffect
    <3>2. PlanningInv'
      BY <1>2, <3>1 DEF LimitInv, PlanningInv, sessions
    <3> QED BY <1>2, <2>2, <3>2, SelectionFits DEF LimitInv
  <2>3. CASE EndTick
    BY <2>3 DEF EndTick, LimitInv, TotalInv, ProjectInv, PlanningInv
  <2>4. ASSUME NEW t \in Tasks, NEW w \in Workflows, Starts(t, w)
        PROVE  LimitInv'
    <3>1. PlanningInv'
      <4>1. CASE t \in route /\ ~planning
        BY <2>4, <4>1 DEF Starts, PlanningInv
      <4>2. CASE ~(t \in route /\ ~planning)
        <5>1. planning' = planning
          BY <1>2, <2>4, <4>2 DEF Starts, TypeInv
        <5>2. tick' = tick /\ unseen' = unseen
          BY <2>4 DEF Starts
        <5>3. sessions' \subseteq sessions
          BY <1>2, <2>4, <4>2 DEF Starts, TypeInv, sessions
        <5> QED BY <1>2, <5>1, <5>2, <5>3 DEF LimitInv, PlanningInv
      <4> QED BY <4>1, <4>2
    <3> QED BY <1>2, <2>4, <3>1, StartFits DEF LimitInv
  <2>5. ASSUME NEW t \in Tasks, Skips(t)
        PROVE  LimitInv'
    <3>1. /\ UNCHANGED <<stage, task, tick, slots, planning, unseen, uncounted>>
          /\ todo' \subseteq todo
      BY <2>5 DEF Skips
    <3>2. known' = known /\ sessions' = sessions /\ \A p : counted(p)' = counted(p)
      BY <3>1 DEF known, sharks, sessions, counted
    <3>3. TotalInv' /\ ProjectInv'
      BY <1>2, <3>1, <3>2, FewerSharks
    <3> QED BY <1>2, <3>1, <3>2, <3>3 DEF LimitInv, PlanningInv
  <2>6. ASSUME NEW w \in Workflows, NEW s \in Stages, GoesOn(w, s)
        PROVE  LimitInv'
    <3>1. tick' = tick /\ slots' = slots /\ planning' = planning /\ todo' = todo
      BY <2>6 DEF GoesOn, tickVars
    <3>2. sharks' \subseteq sharks /\ (s = "free" => w \notin sharks')
      BY <1>2, <2>6 DEF GoesOn, sharks, TypeInv, SharkStages
    <3>3. \A v \in sharks' : task'[v] = task[v]
      BY <1>2, <2>6 DEF GoesOn, sharks, TypeInv, SharkStages
    <3>4. known' \subseteq known
      BY <2>6, <3>2 DEF GoesOn, known
    <3>5. \A p \in Projects : counted(p)' \subseteq counted(p)
      BY <2>6, <3>2, <3>3 DEF GoesOn, counted
    <3>6. sessions' \subseteq sessions /\ (s = "free" => w \notin sessions')
      BY <1>2, <2>6 DEF GoesOn, sessions, TypeInv
    <3>7. TotalInv' /\ ProjectInv'
      BY <1>2, <3>1, <3>4, <3>5, FewerSharks
    <3>8. PlanningInv'
      BY <1>2, <2>6, <3>1, <3>6 DEF LimitInv, PlanningInv, GoesOn
    <3> QED BY <3>7, <3>8 DEF LimitInv
  <2> QED BY <1>2, <2>1, <2>2, <2>3, <2>4, <2>5, <2>6, StepKinds DEF Kinds
<1>3. ASSUME TypeInv, TypeInv', LimitInv, UNCHANGED vars
      PROVE  LimitInv'
  <2>1. UNCHANGED <<stage, task, tick, slots, planning, todo, unseen, uncounted>>
    BY <1>3 DEF vars, wfVars, tickVars, seenVars
  <2>2. known' = known /\ sessions' = sessions /\ \A p : counted(p)' = counted(p)
    BY <2>1 DEF known, sharks, sessions, counted
  <2>3. TotalInv' /\ ProjectInv'
    BY <1>3, <2>1, <2>2, FewerSharks
  <2> QED BY <1>3, <2>1, <2>2, <2>3 DEF LimitInv, PlanningInv
<1> QED BY <1>1, <1>2, <1>3

(* With every child that a tick starts, what its lists returned and what   *)
(* it has started keep to the limits, in all and in the project, for every *)
(* failing list and whatever the children do meanwhile; and a ceremony is  *)
(* started only beside sessions it was not told of.                        *)
THEOREM WithinLimits == Spec => LimitsRespected
<1>1. Init => TypeInv /\ LimitInv
  BY TypeInvInductive, LimitInvInductive
<1>2. TypeInv /\ LimitInv /\ [Next]_vars => (TypeInv /\ LimitInv)'
  BY TypeInvInductive, LimitInvInductive
<1>3. TypeInv /\ TypeInv' /\ LimitInv /\ [Next]_vars =>
        [\A w \in Workflows :
           /\ (stage[w] = "free" /\ stage'[w] = "starting") =>
                /\ Cardinality(sharks' \ unseen) <= MaxTotal
                /\ Cardinality({v \in sharks' \ uncounted :
                                  ProjectOf[task'[v]] = ProjectOf[task'[w]]})
                     <= MaxPerProject
           /\ (stage[w] = "free" /\ stage'[w] = "planning") =>
                {v \in live : stage[v] \in {"planning", "stale"}}
                  \subseteq unseen]_vars
  <2> DEFINE Within(x) ==
        /\ Cardinality(sharks' \ unseen) <= MaxTotal
        /\ Cardinality({v \in sharks' \ uncounted :
                          ProjectOf[task'[v]] = ProjectOf[task'[x]]})
             <= MaxPerProject
        /\ stage'[x] = "planning" =>
             {v \in live : stage[v] \in {"planning", "stale"}} \subseteq unseen
  <2>1. SUFFICES ASSUME TypeInv, TypeInv', LimitInv, Next, NEW x \in Workflows,
                        stage[x] = "free", stage'[x] \in {"starting", "planning"}
                 PROVE  Within(x)
    OBVIOUS
  <2>2. CASE ListRunning
    BY <2>1, <2>2 DEF ListRunning, wfVars
  <2>3. CASE SelectCandidates
    BY <2>1, <2>3, SelectEffect
  <2>4. CASE EndTick
    BY <2>1, <2>4 DEF EndTick, wfVars
  <2>5. ASSUME NEW t \in Tasks, NEW w \in Workflows, Starts(t, w)
        PROVE  Within(x)
    <3>1. x = w
      BY <2>1, <2>5 DEF Starts, TypeInv
    <3>2. task'[x] = t /\ unseen' = unseen /\ uncounted' = uncounted
      BY <2>1, <2>5, <3>1 DEF Starts, TypeInv
    <3>3. /\ Cardinality(known') <= MaxTotal
          /\ Cardinality(counted(ProjectOf[t])') <= MaxPerProject
      BY <2>1, <2>5, StartFits
    <3>4. /\ known' = sharks' \ unseen
          /\ counted(ProjectOf[t])'
               = {v \in sharks' \ uncounted : ProjectOf[task'[v]] = ProjectOf[t]}
      BY <3>2 DEF known, counted
    <3>5. stage'[x] = "planning" =>
            {v \in live : stage[v] \in {"planning", "stale"}} \subseteq unseen
      <4>1. stage'[x] = "planning" => ~planning /\ tick = "start"
        BY <2>1, <2>5, <3>1 DEF Starts, TypeInv
      <4> QED BY <2>1, <4>1 DEF LimitInv, PlanningInv, sessions, live
    <3> QED BY <3>2, <3>3, <3>4, <3>5
  <2>6. ASSUME NEW t \in Tasks, Skips(t)
        PROVE  FALSE
    BY <2>1, <2>6 DEF Skips
  <2>7. ASSUME NEW w \in Workflows, NEW s \in Stages, GoesOn(w, s)
        PROVE  FALSE
    BY <2>1, <2>7 DEF GoesOn, TypeInv
  <2> HIDE DEF Within
  <2> QED BY <2>1, <2>2, <2>3, <2>4, <2>5, <2>6, <2>7, StepKinds DEF Kinds
<1> QED BY <1>1, <1>2, <1>3, PTL DEF Spec, LimitsRespected

-----------------------------------------------------------------------------
(***************************************************************************)
(* The end of a tick: checkAndSpawnPostMortems, module PostMortems.  A     *)
(* failed execution is investigated again only after a marker could not be *)
(* written or found, for every number of executions and children, every    *)
(* cap and every pair of time windows of which the marker's is the longer  *)
(* one; and what a tick leaves to the next ones is taken by them.          *)
(***************************************************************************)

(* Type correctness of the clock, the markers and the children.            *)
THEOREM PMTypeCorrect == PMSpec => []PMTypeOK
<1> USE PostMortemAssumption DEF PMTypeOK, Never
<1>1. PMInit => PMTypeOK
  <2>1. (CHOOSE e \in Execs : TRUE) \in Execs
    BY Zenon
  <2>2. (CHOOSE k \in Causes : TRUE) \in Causes
    BY Zenon
  <2>3. PMInit => /\ about \in [Children -> Execs]
                /\ cause \in [Children -> Causes]
                /\ ticked \in BOOLEAN /\ inTick \in BOOLEAN
    BY <2>1, <2>2, Zenon DEF PMInit
  <2>4. PMInit => /\ failedAt \in [Execs -> Nat \cup {-1}]
                /\ markedAt \in [WfIDs -> Nat \cup {-1}]
                /\ filedAt \in [Causes -> Nat \cup {-1}]
                /\ now \in 0..MaxTime
    BY SMT DEF PMInit
  <2>5. PMInit => /\ list \subseteq Execs
                /\ started \in [Execs -> Nat] /\ slips \in [Execs -> Nat]
    BY DEF PMInit
  <2>6. PMInit => child \in [Children -> {"unborn", "record", "investigate",
                                        "check", "create", "file", "done"}]
    BY Zenon DEF PMInit
  <2>7. PMInit => world \in Worlds
    BY DEF PMInit
  <2> QED BY <2>3, <2>4, <2>5, <2>6, <2>7
<1>2. PMTypeOK /\ [PMNext]_pmVars => PMTypeOK'
  <2> SUFFICES ASSUME PMTypeOK, [PMNext]_pmVars PROVE PMTypeOK'
    OBVIOUS
  <2> USE DEF checkVars, childVars, Goto, Mark
  <2>1. CASE UNCHANGED pmVars
    BY <2>1 DEF pmVars
  <2>2. CASE Advance
    <3>1. now' \in 0..MaxTime
      BY <2>2 DEF Advance
    <3>2. ticked' \in BOOLEAN
      BY <2>2 DEF Advance
    <3> QED BY <2>2, <3>1, <3>2 DEF Advance
  <2>8. CASE ThrottledTick \/ EndCheck
    BY <2>8 DEF ThrottledTick, EndCheck
  <2>3. CASE CheckFailedWorkflows
    <3>1. list' \subseteq Execs
      BY <2>3 DEF CheckFailedWorkflows, upTo, recentFailures, recent
    <3>2. slips' \in [Execs -> Nat]
      BY <2>3 DEF CheckFailedWorkflows, Slip
    <3> QED BY <2>3, <3>1, <3>2 DEF CheckFailedWorkflows
  <2>4. ASSUME NEW e \in Execs, Fail(e) \/ SkipFailure(e) PROVE PMTypeOK'
    BY <2>4 DEF Fail, SkipFailure
  <2>5. ASSUME NEW e \in Execs, NEW c \in Children, SpawnPostMortem(e, c)
        PROVE  PMTypeOK'
    BY <2>5 DEF SpawnPostMortem, Slip
  <2>6. ASSUME NEW c \in Children,
               RecordHealthEvent(c) \/ InvestigateFailure(c) \/ FileAntibody(c)
        PROVE  PMTypeOK'
    BY <2>6 DEF RecordHealthEvent, InvestigateFailure, FileAntibody
  <2>7. ASSUME NEW c \in Children, CreateAntibodyTask(c) \/ MarkAntibody(c)
        PROVE  PMTypeOK'
    BY <2>7 DEF CreateAntibodyTask, MarkAntibody
  <2> QED BY <2>1, <2>2, <2>3, <2>4, <2>5, <2>6, <2>7, <2>8 DEF PMNext
<1> QED BY <1>1, <1>2, PTL DEF PMSpec

----------------------------------------------------------------------------
(* Unless there was a slip, the marker of an investigated execution is     *)
(* younger than its failure, so the failure leaves the search window       *)
(* before the marker expires.                                              *)
OnceInv ==
    /\ \A e \in Execs : started[e] <= 1 + slips[e]
    /\ \A e \in list : started[e] <= slips[e] /\ failedAt[e] # Never
    /\ \A e \in Execs : failedAt[e] <= now
    /\ \A w \in WfIDs : markedAt[w] <= now
    /\ \A e \in Execs :
         started[e] > slips[e] => /\ failedAt[e] # Never
                                  /\ failedAt[e] <= markedAt[WfOf[e]]

(* Every step keeps OnceInv.                                               *)
LEMMA OnceInvInductive ==
    ASSUME PMTypeOK, OnceInv, [PMNext]_pmVars
    PROVE  OnceInv'
<1> USE PostMortemAssumption DEF PMTypeOK, OnceInv, Never, checkVars, childVars, Goto, Mark
<1>1. CASE UNCHANGED pmVars
  BY <1>1 DEF pmVars
<1>2. CASE Advance \/ ThrottledTick \/ EndCheck
  BY <1>2 DEF Advance, ThrottledTick, EndCheck
<1>3. CASE CheckFailedWorkflows
  <2>1. PICK unread : /\ list' \subseteq recentFailures(unread)
                      /\ Slip(list' \cap unread)
    BY <1>3 DEF CheckFailedWorkflows, upTo
  <2>2. ASSUME NEW e \in recentFailures(unread)
        PROVE  /\ e \in Execs /\ failedAt[e] # Never
               /\ e \notin unread => started[e] <= slips[e]
    <3>1. /\ e \in Execs /\ failedAt[e] # Never /\ now - failedAt[e] < RecentFor
          /\ WfOf[e] \in WfIDs
      BY <2>2 DEF recentFailures, recent, within
    <3>2. e \notin unread =>
            ~(markedAt[WfOf[e]] # Never /\ now - markedAt[WfOf[e]] < MarkerFor)
      BY <2>2, <3>1 DEF recentFailures, investigated, within
    <3> QED BY <3>1, <3>2
  <2>3. /\ \A e \in Execs : slips'[e] >= slips[e] /\ slips'[e] \in Nat
        /\ \A e \in list' : e \in unread => slips'[e] = slips[e] + 1
    BY <2>1, <2>2 DEF Slip
  <2>4. UNCHANGED <<now, started, failedAt, markedAt>>
    BY <1>3 DEF CheckFailedWorkflows
  <2>5. \A e \in list' : started'[e] <= slips'[e] /\ failedAt'[e] # Never
    BY <2>1, <2>2, <2>3, <2>4
  <2> QED BY <2>3, <2>4, <2>5
<1>4. ASSUME NEW e \in Execs, Fail(e) \/ SkipFailure(e) PROVE OnceInv'
  BY <1>4 DEF Fail, SkipFailure
<1>5. ASSUME NEW e \in Execs, NEW c \in Children, SpawnPostMortem(e, c)
      PROVE  OnceInv'
  <2>1. /\ WfOf[e] \in WfIDs
        /\ started' = [started EXCEPT ![e] = @ + 1]
        /\ list' = list \ {e} /\ e \in list
        /\ UNCHANGED <<now, failedAt>>
    BY <1>5 DEF SpawnPostMortem
  <2>2. CASE markedAt' = [markedAt EXCEPT ![WfOf[e]] = now] /\ slips' = slips
    BY <2>1, <2>2
  <2>3. CASE markedAt' = markedAt /\ Slip({e})
    BY <2>1, <2>3 DEF Slip
  <2> QED BY <1>5, <2>2, <2>3 DEF SpawnPostMortem
<1>6. ASSUME NEW c \in Children, RecordHealthEvent(c) PROVE OnceInv'
  BY <1>6 DEF RecordHealthEvent
<1>7. ASSUME NEW c \in Children,
             InvestigateFailure(c) \/ FileAntibody(c)
               \/ CreateAntibodyTask(c) \/ MarkAntibody(c)
      PROVE  OnceInv'
  BY <1>7 DEF InvestigateFailure, FileAntibody, CreateAntibodyTask, MarkAntibody
<1> QED BY <1>1, <1>2, <1>3, <1>4, <1>5, <1>6, <1>7 DEF PMNext

(* Circumstances do not change.                                            *)
LEMMA WorldIsFixed == [PMNext]_pmVars => UNCHANGED world
  BY DEF pmVars, PMNext, Advance, CheckFailedWorkflows, ThrottledTick, EndCheck,
         Fail, SkipFailure, SpawnPostMortem, RecordHealthEvent,
         InvestigateFailure, FileAntibody, CreateAntibodyTask, MarkAntibody

(* Every further post-mortem of a failure takes a marker that could not be *)
(* written or a look-up that failed; so there is one at most where both    *)
(* work.                                                                   *)
THEOREM NoSecondInvestigation == PMSpec => []InvestigatedOnce
<1>1. PMInit => OnceInv
  BY DEF PMInit, OnceInv, Never
<1>2. PMTypeOK /\ OnceInv /\ [PMNext]_pmVars => OnceInv'
  BY OnceInvInductive
<1>3. OnceInv => InvestigatedOnce
  BY DEF OnceInv, InvestigatedOnce
<1> QED BY <1>1, <1>2, <1>3, PMTypeCorrect, PTL DEF PMSpec

----------------------------------------------------------------------------
(* The circumstances under which FailuresInvestigated promises something.  *)
Favourable == ~Throttling /\ Faults \subseteq {"create"}

Unmistakable ==
    \A e, f \in Execs : WfOf[f] \in Containing[WfOf[e]] => e = f

Handled == {e \in Execs : started[e] > 0 \/ e \in list}

(* Only an execution that was handed to a post-mortem has a marker, and no *)
(* marker was lost.                                                        *)
MarkInv ==
    /\ \A e \in Execs : slips[e] = 0
    /\ ~inTick => list = {}
    /\ \A c \in Children : child[c] # "unborn" => started[about[c]] > 0
    /\ \A w \in WfIDs : markedAt[w] # Never =>
         \E f \in Execs : WfOf[f] = w /\ started[f] > 0

(* The ticks that must have begun since e failed: one in each period after *)
(* that of the failure.                                                    *)
ticksSince(e) ==
    IF now = failedAt[e] THEN 0
    ELSE IF ticked THEN now - failedAt[e] ELSE now - failedAt[e] - 1

(* A failure that no tick has taken was passed over by every one of these  *)
(* ticks in favour of as many others as a tick takes.                      *)
CountInv ==
    \A e \in Execs \ Handled : failedAt[e] # Never =>
        MaxPostMortems * ticksSince(e) <= Cardinality(Handled)

(* Markers are left where a post-mortem starts, and by its own event.      *)
LEMMA MarkStep ==
    ASSUME Favourable, PMTypeOK, MarkInv, [PMNext]_pmVars
    PROVE  MarkInv'
<1> USE PostMortemAssumption DEF PMTypeOK, MarkInv, Never, checkVars, childVars, Goto, Mark
<1>1. CASE UNCHANGED pmVars
  BY <1>1 DEF pmVars
<1>2. CASE Advance \/ ThrottledTick \/ EndCheck
  BY <1>2 DEF Advance, ThrottledTick, EndCheck
<1>8. CASE CheckFailedWorkflows
  <2>1. unreadable = {{}}
    BY DEF unreadable, Favourable
  <2>2. \A e \in Execs : slips'[e] = 0
    BY <1>8, <2>1 DEF CheckFailedWorkflows, Slip
  <2> QED BY <1>8, <2>2 DEF CheckFailedWorkflows
<1>3. ASSUME NEW e \in Execs, Fail(e) PROVE MarkInv'
  BY <1>3 DEF Fail
<1>4. ASSUME NEW e \in Execs, SkipFailure(e) PROVE FALSE
  BY <1>4 DEF SkipFailure, Favourable
<1>5. ASSUME NEW e \in Execs, NEW c \in Children, SpawnPostMortem(e, c)
      PROVE  MarkInv'
  <2>1. /\ WfOf[e] \in WfIDs /\ inTick' = inTick /\ inTick
        /\ markedAt' = [markedAt EXCEPT ![WfOf[e]] = now]
        /\ started' = [started EXCEPT ![e] = @ + 1]
        /\ child' = [child EXCEPT ![c] = "record"]
        /\ about' = [about EXCEPT ![c] = e] /\ slips' = slips
    BY <1>5 DEF SpawnPostMortem, Favourable
  <2>2. started'[e] > 0 /\ \A f \in Execs : started[f] > 0 => started'[f] > 0
    BY <2>1
  <2>3. \A d \in Children : child'[d] # "unborn" => started'[about'[d]] > 0
    BY <2>1, <2>2
  <2>4. \A w \in WfIDs : markedAt'[w] # Never =>
          \E f \in Execs : WfOf[f] = w /\ started'[f] > 0
    BY <2>1, <2>2
  <2> QED BY <2>1, <2>3, <2>4
<1>6. ASSUME NEW c \in Children, RecordHealthEvent(c) PROVE MarkInv'
  <2>1. /\ about[c] \in Execs /\ started[about[c]] > 0
        /\ WfOf[about[c]] \in WfIDs
        /\ markedAt' = [markedAt EXCEPT ![WfOf[about[c]]] = now]
        /\ child' = [child EXCEPT ![c] = "investigate"]
        /\ UNCHANGED <<inTick, list, started, slips, about>>
    BY <1>6 DEF RecordHealthEvent, Favourable
  <2> QED BY <2>1
<1>7. ASSUME NEW c \in Children,
             InvestigateFailure(c) \/ FileAntibody(c)
               \/ CreateAntibodyTask(c) \/ MarkAntibody(c)
      PROVE  MarkInv'
  BY <1>7 DEF InvestigateFailure, FileAntibody, CreateAntibodyTask, MarkAntibody
<1> QED BY <1>1, <1>2, <1>3, <1>4, <1>5, <1>6, <1>7, <1>8 DEF PMNext

(* Multiplication as far as it is needed.                                  *)
LEMMA Times ==
    ASSUME NEW a \in Nat, NEW k \in Nat, NEW d \in Nat
    PROVE  a * k \in Nat /\ a * (k + d) >= a * k /\ a * (k + 1) = a * k + a
<1>1. a * k \in Nat /\ a * d \in Nat
  OBVIOUS
<1>2. a * (k + d) = a * k + a * d
  OBVIOUS
<1>3. a * (k + 1) = a * k + a
  OBVIOUS
<1> QED BY <1>1, <1>2, <1>3

(* The ticks since a failure are counted by numbers.                       *)
LEMMA TicksType ==
    ASSUME PMTypeOK, OnceInv, NEW e \in Execs, failedAt[e] # Never
    PROVE  /\ ticksSince(e) \in Nat /\ failedAt[e] \in Nat
           /\ failedAt[e] <= now /\ now \in Nat
BY PostMortemAssumption DEF PMTypeOK, OnceInv, ticksSince

(* The window of a failure that no tick has taken is still open: otherwise *)
(* its ticks would have taken all the executions there are.                *)
LEMMA WindowOpen ==
    ASSUME PMTypeOK, OnceInv, CountInv,
           Cardinality(Execs) <= MaxPostMortems * (RecentFor - 1),
           NEW e \in Execs \ Handled, failedAt[e] # Never
    PROVE  now - failedAt[e] < RecentFor
<1> SUFFICES ASSUME now - failedAt[e] >= RecentFor PROVE FALSE
  BY TicksType, PostMortemAssumption
<1>0. RecentFor \in Nat /\ MaxPostMortems \in Nat
  BY PostMortemAssumption
<1>1. /\ ticksSince(e) \in Nat /\ failedAt[e] \in Nat /\ failedAt[e] <= now
      /\ now \in Nat
  BY TicksType
<1>2. IsFiniteSet(Handled) /\ Cardinality(Handled) < Cardinality(Execs)
      /\ Cardinality(Handled) \in Nat /\ Cardinality(Execs) \in Nat
  <2>1. Handled \subseteq Execs /\ Handled # Execs
    BY DEF Handled
  <2> QED BY <2>1, FS_Subset, FS_CardinalityType, CapAssumption
<1>3. MaxPostMortems * ticksSince(e) <= Cardinality(Handled)
  BY DEF CountInv
<1>4. CASE RecentFor = 0
  <2>1. MaxPostMortems * (RecentFor - 1) = -MaxPostMortems
    BY <1>0, <1>4
  <2> QED BY <1>0, <1>2, <2>1
<1>5. CASE RecentFor > 0
  <2> DEFINE d == ticksSince(e) - (RecentFor - 1)
  <2>1. d \in Nat /\ ticksSince(e) = (RecentFor - 1) + d
    BY <1>0, <1>1, <1>5 DEF ticksSince
  <2> HIDE DEF d
  <2>2. RecentFor - 1 \in Nat
    BY <1>0, <1>5
  <2>3. MaxPostMortems * ((RecentFor - 1) + d) >= MaxPostMortems * (RecentFor - 1)
        /\ MaxPostMortems * (RecentFor - 1) \in Nat
        /\ MaxPostMortems * ticksSince(e) \in Nat
    BY <1>0, <1>1, <2>1, <2>2, Times
  <2> QED BY <1>2, <1>3, <2>1, <2>3
<1> QED BY <1>0, <1>4, <1>5

(* A tick that passes over a recent failure takes as many as it may.       *)
LEMMA FullTick ==
    ASSUME NEW found \in upTo(QueryCap, recentFailures({})),
           NEW taken \in upTo(MaxPostMortems, found),
           NEW e \in recentFailures({}) \ taken
    PROVE  IsFiniteSet(taken) /\ Cardinality(taken) = MaxPostMortems
<1>0. QueryCap \in Nat /\ MaxPostMortems \in Nat /\ MaxPostMortems <= QueryCap
  BY PostMortemAssumption, CapAssumption
<1>1. /\ recentFailures({}) \subseteq Execs /\ found \subseteq recentFailures({})
      /\ taken \subseteq found
  BY DEF recentFailures, recent, upTo
<1>2. IsFiniteSet(recentFailures({})) /\ IsFiniteSet(found) /\ IsFiniteSet(taken)
  BY <1>1, FS_Subset, CapAssumption
<1> DEFINE n == Cardinality(recentFailures({}))
           m == Cardinality(found)
           k == Cardinality(taken)
<1>3. n \in Nat /\ m \in Nat /\ k \in Nat
  BY <1>2, FS_CardinalityType
<1>4. m = IF n < QueryCap THEN n ELSE QueryCap
  BY DEF upTo
<1>5. k = IF m < MaxPostMortems THEN m ELSE MaxPostMortems
  BY DEF upTo
<1>6. CASE e \in found
  <2>1. k < m
    <3>1. taken # found
      BY <1>6
    <3>2. k <= m /\ k # m
      BY <1>1, <1>2, <3>1, FS_Subset
    <3> HIDE DEF k, m
    <3> QED BY <1>3, <3>2
  <2> HIDE DEF k, m, n
  <2>2. k = MaxPostMortems
    BY <1>0, <1>3, <1>5, <2>1
  <2> QED BY <1>2, <2>2 DEF k
<1>7. CASE e \notin found
  <2>1. m < n
    <3>1. found # recentFailures({})
      BY <1>7
    <3>2. m <= n /\ m # n
      BY <1>1, <1>2, <3>1, FS_Subset
    <3> HIDE DEF m, n
    <3> QED BY <1>3, <3>2
  <2> HIDE DEF k, m, n
  <2>2. k = MaxPostMortems
    BY <1>0, <1>3, <1>4, <1>5, <2>1
  <2> QED BY <1>2, <2>2 DEF k
<1> QED BY <1>6, <1>7

(* Steps that take no failure and begin no period leave the count alone.   *)
LEMMA CountKept ==
    ASSUME CountInv, Handled' = Handled, UNCHANGED <<now, ticked, failedAt>>
    PROVE  CountInv'
<1>1. \A e \in Execs : ticksSince(e)' = ticksSince(e)
  BY DEF ticksSince
<1> QED BY <1>1 DEF CountInv

(* Every step keeps CountInv: a period passes only after its tick began.   *)
LEMMA CountStep ==
    ASSUME Favourable, Unmistakable, PMTypeOK, PMTypeOK', OnceInv, OnceInv',
           MarkInv, CountInv, [PMNext]_pmVars,
           Cardinality(Execs) <= MaxPostMortems * (RecentFor - 1)
    PROVE  CountInv'
<1>0. /\ RecentFor \in Nat /\ MaxPostMortems \in Nat /\ RecentFor <= MarkerFor
      /\ IsFiniteSet(Handled) /\ Cardinality(Handled) \in Nat
  <2>1. Handled \subseteq Execs
    BY DEF Handled
  <2> QED
    BY <2>1, FS_Subset, FS_CardinalityType, CapAssumption, PostMortemAssumption
<1>1. CASE UNCHANGED <<list, started, now, ticked, failedAt>>
  <2>1. Handled' = Handled
    BY <1>1 DEF Handled
  <2> QED BY <1>1, <2>1, CountKept
<1>2. CASE UNCHANGED pmVars \/ EndCheck
  BY <1>1, <1>2 DEF pmVars, EndCheck, checkVars
<1>3. CASE ThrottledTick
  BY <1>3 DEF ThrottledTick, Favourable
<1>4. CASE \E c \in Children :
             \/ RecordHealthEvent(c) \/ InvestigateFailure(c) \/ FileAntibody(c)
             \/ CreateAntibodyTask(c) \/ MarkAntibody(c)
  BY <1>1, <1>4 DEF RecordHealthEvent, InvestigateFailure, FileAntibody,
     CreateAntibodyTask, MarkAntibody, checkVars
<1>5. CASE \E e \in Execs : SkipFailure(e)
  BY <1>5 DEF SkipFailure, Favourable
<1>6. ASSUME NEW e \in Execs, NEW c \in Children, SpawnPostMortem(e, c)
      PROVE  CountInv'
  <2>1. /\ started' = [started EXCEPT ![e] = @ + 1] /\ e \in list
        /\ list' = list \ {e} /\ UNCHANGED <<now, ticked, failedAt>>
    BY <1>6 DEF SpawnPostMortem
  <2>2. Handled' = Handled
    BY <2>1 DEF Handled, PMTypeOK
  <2> QED BY <2>1, <2>2, CountKept
<1>7. ASSUME NEW e \in Execs, Fail(e) PROVE CountInv'
  <2>1. /\ failedAt' = [failedAt EXCEPT ![e] = now]
        /\ UNCHANGED <<now, ticked, list, started>>
    BY <1>7 DEF Fail, checkVars
  <2>2. Handled' = Handled
    BY <2>1 DEF Handled
  <2>3. ASSUME NEW f \in Execs \ Handled, failedAt'[f] # Never
        PROVE  MaxPostMortems * ticksSince(f)' <= Cardinality(Handled)
    <3>1. CASE f = e
      <4>1. ticksSince(f)' = 0
        BY <2>1, <3>1 DEF ticksSince, PMTypeOK
      <4> QED BY <1>0, <4>1
    <3>2. CASE f # e
      <4>1. ticksSince(f)' = ticksSince(f) /\ failedAt[f] # Never
        BY <2>1, <2>3, <3>2 DEF ticksSince, PMTypeOK
      <4> QED BY <4>1 DEF CountInv
    <3> QED BY <3>1, <3>2
  <2> QED BY <2>2, <2>3 DEF CountInv
<1>8. CASE Advance
  <2>1. /\ now' = now + 1 /\ ticked /\ ticked' = FALSE
        /\ UNCHANGED <<failedAt, list, started>>
    BY <1>8 DEF Advance
  <2>2. Handled' = Handled
    BY <2>1 DEF Handled
  <2>3. ASSUME NEW f \in Execs, failedAt'[f] # Never
        PROVE  ticksSince(f)' = ticksSince(f)
    <3>1. failedAt[f] \in Nat /\ failedAt[f] <= now /\ now \in Nat
      BY <2>1, <2>3, TicksType
    <3> QED BY <2>1, <3>1 DEF ticksSince
  <2> QED BY <2>1, <2>2, <2>3 DEF CountInv
<1>9. CASE CheckFailedWorkflows
  <2>1. /\ ~inTick /\ list = {} /\ ticked' = TRUE
        /\ UNCHANGED <<now, started, failedAt>>
    BY <1>9 DEF CheckFailedWorkflows, MarkInv
  <2>2. PICK found \in upTo(QueryCap, recentFailures({})) :
          list' \in upTo(MaxPostMortems, found)
    <3>1. unreadable = {{}}
      BY DEF unreadable, Favourable
    <3> QED BY <1>9, <3>1 DEF CheckFailedWorkflows
  <2>3. /\ list' \subseteq Execs /\ list' \cap Handled = {}
        /\ Handled' = Handled \cup list'
    <3>1. MarkInv'
      BY MarkStep
    <3>2. \A e \in list' : started[e] = 0
      BY <2>1, <3>1 DEF PMTypeOK, OnceInv, MarkInv
    <3> QED BY <2>1, <3>2 DEF Handled, PMTypeOK
  <2>4. ASSUME NEW f \in Execs \ Handled', failedAt'[f] # Never
        PROVE  MaxPostMortems * ticksSince(f)' <= Cardinality(Handled')
    <3>1. f \in Execs \ Handled /\ f \notin list' /\ failedAt[f] # Never
      BY <2>1, <2>3, <2>4
    <3>2. /\ ticksSince(f) \in Nat /\ failedAt[f] \in Nat
          /\ failedAt[f] <= now /\ now \in Nat
      BY <3>1, TicksType
    <3>3. f \in recentFailures({})
      <4>1. now - failedAt[f] < RecentFor
        BY <3>1, WindowOpen
      <4>2. ~investigated(WfOf[f])
        <5> SUFFICES ASSUME NEW v \in Containing[WfOf[f]],
                            markedAt[v] # Never
                     PROVE  FALSE
          BY DEF investigated, within
        <5>1. v \in WfIDs
          BY <3>1, PostMortemAssumption
        <5>2. PICK g \in Execs : WfOf[g] = v /\ started[g] > 0
          BY <5>1 DEF MarkInv
        <5>3. g = f
          BY <3>1, <5>2 DEF Unmistakable
        <5> QED BY <3>1, <5>2, <5>3 DEF Handled
      <4> QED BY <3>1, <4>1, <4>2 DEF recentFailures, recent, within
    <3>4. IsFiniteSet(list') /\ Cardinality(list') = MaxPostMortems
      BY <2>2, <3>1, <3>3, FullTick
    <3>5. Cardinality(Handled') = Cardinality(Handled) + MaxPostMortems
      <4>1. Cardinality(Handled \cup list')
              = Cardinality(Handled) + Cardinality(list')
                - Cardinality(Handled \cap list')
        BY <1>0, <3>4, FS_Union
      <4>2. Cardinality(Handled \cap list') = 0
        BY <2>3, FS_EmptySet
      <4> QED BY <1>0, <2>3, <3>4, <4>1, <4>2
    <3>6. ticksSince(f)' \in Nat /\ ticksSince(f)' <= ticksSince(f) + 1
          /\ ticksSince(f) <= ticksSince(f)'
      BY <2>1, <3>2 DEF ticksSince, PMTypeOK
    <3>7. /\ MaxPostMortems * ticksSince(f) <= Cardinality(Handled)
          /\ MaxPostMortems * ticksSince(f) \in Nat
          /\ MaxPostMortems * (ticksSince(f) + 1)
               = MaxPostMortems * ticksSince(f) + MaxPostMortems
      BY <1>0, <3>1, <3>2, Times DEF CountInv
    <3>8. CASE ticksSince(f)' = ticksSince(f)
      BY <1>0, <3>5, <3>7, <3>8
    <3>9. CASE ticksSince(f)' = ticksSince(f) + 1
      BY <1>0, <3>5, <3>7, <3>9
    <3> QED BY <3>2, <3>6, <3>8, <3>9
  <2> QED BY <2>4 DEF CountInv
<1> QED BY <1>2, <1>3, <1>4, <1>5, <1>6, <1>7, <1>8, <1>9 DEF PMNext

(* checkAndSpawnPostMortems leaves what exceeds its cap to later ticks and *)
(* still gets to every failure before its hour is over, for every number   *)
(* of executions that the ticks of a window can take, every cap and both   *)
(* windows, in the circumstances that FailuresInvestigated names.          *)
THEOREM EveryFailureIsTaken == PMSpec => []FailuresInvestigated
<1> DEFINE Cond == /\ Favourable /\ Unmistakable
                   /\ Cardinality(Execs) <= MaxPostMortems * (RecentFor - 1)
           IInv == Cond => OnceInv /\ MarkInv /\ CountInv
<1>1. PMInit => IInv
  <2>1. PMInit => OnceInv
    BY DEF PMInit, OnceInv, Never
  <2>2. PMInit => MarkInv
    BY DEF PMInit, MarkInv
  <2>3. PMInit => CountInv
    BY DEF PMInit, CountInv
  <2> QED BY <2>1, <2>2, <2>3
<1>2. PMTypeOK /\ PMTypeOK' /\ IInv /\ [PMNext]_pmVars => IInv'
  <2> SUFFICES ASSUME PMTypeOK, PMTypeOK', IInv, [PMNext]_pmVars, Cond'
               PROVE  OnceInv' /\ MarkInv' /\ CountInv'
    OBVIOUS
  <2>1. Cond
    BY WorldIsFixed DEF Favourable, Unmistakable, Faults, Throttling
  <2>3. OnceInv'
    BY <2>1, OnceInvInductive
  <2>4. MarkInv'
    BY <2>1, MarkStep
  <2>5. CountInv'
    BY <2>1, <2>3, CountStep
  <2> QED BY <2>3, <2>4, <2>5
<1>3. PMTypeOK /\ IInv => FailuresInvestigated
  <2> SUFFICES ASSUME PMTypeOK, IInv, Cond,
                      NEW e \in Execs, failedAt[e] # Never,
                      now - failedAt[e] >= RecentFor, e \notin Handled
               PROVE  FALSE
    BY DEF FailuresInvestigated, AllInvestigated, Favourable, Unmistakable,
           Handled
  <2>1. now - failedAt[e] < RecentFor
    BY WindowOpen
  <2> QED BY <2>1, TicksType, PostMortemAssumption
<1> QED BY <1>1, <1>2, <1>3, PMTypeCorrect, PTL DEF PMSpec

=============================================================================
