---------------------------- MODULE TaskDAGProofs ----------------------------
(***************************************************************************)
(* Theorems about TaskDAG, for every set of tasks, clients and statuses.   *)
(***************************************************************************)
EXTENDS TaskDAG, TLAPS

(* The operations that may be in progress are well typed.                  *)
LEMMA OpTyping ==
    /\ Idle \in OpTypes
    /\ \A f, t \in Tasks :
         \A k \in {"fromProject", "toProject", "cycleCheck", "insert", "hung"} :
           EdgeOp(k, f, t) \in OpTypes
    /\ \A k \in {"readyCheck", "write"}, t \in Tasks, s \in Statuses,
          u \in BOOLEAN, todo \in SUBSET Tasks :
             WriteOp(k, t, s, u, todo) \in OpTypes
    /\ \A todo \in SUBSET Tasks : UnblockOp(todo) \in OpTypes
    /\ \A t \in Tasks, need, todo \in SUBSET Tasks :
         NeedOp(t, need, todo) \in OpTypes
    BY DEF OpTypes, Idle, EdgeOp, WriteOp, UnblockOp, NeedOp

(* What an operation in progress carries, by the place it has reached.     *)
LEMMA OpFields ==
    ASSUME NEW o \in OpTypes
    PROVE  /\ o.pc \in {"fromProject", "toProject", "cycleCheck", "insert", "hung"}
                => o.from \in Tasks /\ o.to \in Tasks
           /\ o.pc \in {"readyCheck", "write"}
                => /\ o.task \in Tasks /\ o.val \in Statuses
                   /\ o.unblock \in BOOLEAN /\ o.todo \in SUBSET Tasks
           /\ o.pc = "unblock" => o.todo \in SUBSET Tasks
           /\ o.pc = "checkDeps"
                => /\ o.task \in Tasks /\ o.need \in SUBSET Tasks
                   /\ o.todo \in SUBSET Tasks
    BY DEF OpTypes

(* TypeOK is inductive: whatever calls interleave, the tables and the      *)
(* calls in progress keep their types.                                     *)
THEOREM TypeCorrect == Spec => []TypeOK
<1>1. Init => TypeOK
  BY OpTyping DEF Init, TypeOK
<1>2. TypeOK /\ [Next]_vars => TypeOK'
  <2> SUFFICES ASSUME TypeOK, [Next]_vars PROVE TypeOK'
    OBVIOUS
  <2> USE DEF TypeOK, Step, Goto
  <2>1. CASE UNCHANGED vars
    BY <2>1 DEF vars
  <2>2. ASSUME NEW c \in Clients, Call(c) PROVE TypeOK'
    <3>1. ASSUME NEW t \in Tasks, NEW s \in Statuses, CreateTask(c, t, s)
          PROVE TypeOK'
      BY <3>1 DEF CreateTask
    <3>2. ASSUME NEW f \in Tasks, NEW t \in Tasks, AddEdge(c, f, t)
          PROVE TypeOK'
      BY <3>2, OpTyping DEF AddEdge
    <3>3. ASSUME NEW f \in Tasks, NEW t \in Tasks, RemoveEdge(c, f, t)
          PROVE TypeOK'
      BY <3>3 DEF RemoveEdge
    <3>4. ASSUME NEW t \in Tasks, NEW s \in Statuses, UpdateTask(c, t, s)
          PROVE TypeOK'
      BY <3>4, OpTyping DEF UpdateTask
    <3>5. ASSUME NEW t \in Tasks, AutoUnblockDependents(c, t) PROVE TypeOK'
      <4>1. Dependents(t) \in SUBSET Tasks
        BY DEF Dependents
      <4> QED BY <3>5, <4>1, OpTyping DEF AutoUnblockDependents
    <3> QED BY <2>2, <3>1, <3>2, <3>3, <3>4, <3>5 DEF Call
  <2>3. ASSUME NEW c \in Clients, Continue(c) \/ CancelQuery(c) PROVE TypeOK'
    <3> op[c] \in OpTypes
      OBVIOUS
    <3>1. CASE FromProject(c) \/ ToProject(c) \/ CycleCheck(c)
               \/ CancelQuery(c) \/ InsertEdge(c)
      BY <3>1, OpTyping, OpFields
        DEF FromProject, ToProject, CycleCheck, CancelQuery, InsertEdge
    <3>2. AfterWrite(op[c]) \in OpTypes \/ op[c].pc \notin {"readyCheck", "write"}
      BY OpTyping, OpFields DEF AfterWrite
    <3>3. CASE ReadyCheck(c)
      BY <3>3, <3>2, OpTyping, OpFields DEF ReadyCheck
    <3>4. CASE WriteStatus(c)
      BY <3>4, <3>2, OpTyping, OpFields DEF WriteStatus
    <3>5. ASSUME NEW t \in Tasks, UnblockGetTask(c, t) PROVE TypeOK'
      BY <3>5, OpTyping, OpFields DEF UnblockGetTask, DependsOn
    <3>6. ASSUME NEW d \in Tasks, UnblockCheckDep(c, d) PROVE TypeOK'
      BY <3>6, OpTyping, OpFields DEF UnblockCheckDep
    <3>7. CASE UnblockPromote(c) \/ UnblockReturn(c)
      <4>1. "ready" \in Statuses
        BY ConstantsAssumption
      <4>2. CASE UnblockPromote(c)
        <5>1. /\ op[c].task \in Tasks /\ op[c].todo \in SUBSET Tasks
          BY <4>2, OpFields DEF UnblockPromote
        <5>2. WriteOp("readyCheck", op[c].task, "ready", TRUE, op[c].todo) \in OpTypes
          BY <5>1, <4>1, OpTyping
        <5> QED BY <4>2, <5>2 DEF UnblockPromote
      <4>3. CASE UnblockReturn(c)
        BY <4>3, OpTyping DEF UnblockReturn
      <4> QED BY <3>7, <4>2, <4>3
    <3> QED BY <2>3, <3>1, <3>3, <3>4, <3>5, <3>6, <3>7 DEF Continue
  <2> QED BY <2>1, <2>2, <2>3 DEF Next
<1> QED BY <1>1, <1>2, PTL DEF Spec

----------------------------------------------------------------------------
(* The relation of AddEdge's checks to what they protect.                  *)

(* A path of one or more edges: it contains the first step, is closed      *)
(* under the edges, and is contained in every such set.                    *)
LEMMA ReachableProps ==
    ASSUME NEW E \in SUBSET (Tasks \X Tasks), NEW x \in Tasks
    PROVE  /\ reachable(E, x) \subseteq Tasks
           /\ \A d \in Tasks : <<x, d>> \in E => d \in reachable(E, x)
           /\ \A e \in E : e[1] \in reachable(E, x) => e[2] \in reachable(E, x)
           /\ \A S \in SUBSET Tasks :
                ((\A d \in Tasks : <<x, d>> \in E => d \in S) /\ ClosedUnder(E, S))
                    => reachable(E, x) \subseteq S
<1>1. \A e \in E : e[2] \in Tasks
  OBVIOUS
<1> QED BY <1>1 DEF reachable, ClosedUnder

(* Fewer edges lead to fewer tasks.                                        *)
LEMMA ReachableMonotonic ==
    ASSUME NEW E \in SUBSET (Tasks \X Tasks), NEW F \in SUBSET E, NEW x \in Tasks
    PROVE  reachable(F, x) \subseteq reachable(E, x)
<1>1. reachable(E, x) \in SUBSET Tasks
  BY ReachableProps
<1>2. ClosedUnder(F, reachable(E, x))
  BY ReachableProps DEF ClosedUnder
<1>3. \A d \in Tasks : <<x, d>> \in F => d \in reachable(E, x)
  BY ReachableProps
<1>4. F \in SUBSET (Tasks \X Tasks)
  OBVIOUS
<1> QED BY <1>1, <1>2, <1>3, <1>4, ReachableProps

(* Well-foundedness of an edge relation, as Acyclic states it of edges.    *)
WF(E) == \A S \in SUBSET Tasks :
            S # {} => \E x \in S : \A y \in S : <<x, y>> \notin E

(* The check ensureNoCycle makes is the right one: an edge from f to t     *)
(* where f cannot be reached from t keeps the relation well founded.  In a *)
(* set that holds both, the part t leads to has a minimal member, which is *)
(* not f.                                                                  *)
LEMMA InsertKeepsWF ==
    ASSUME NEW E \in SUBSET (Tasks \X Tasks), WF(E),
           NEW f \in Tasks, NEW t \in Tasks, f # t, f \notin reachable(E, t)
    PROVE  WF(E \cup {<<f, t>>})
<1> SUFFICES ASSUME NEW S \in SUBSET Tasks, S # {}
             PROVE  \E x \in S : \A y \in S : <<x, y>> \notin E \cup {<<f, t>>}
  BY DEF WF
<1>1. CASE f \notin S \/ t \notin S
  <2>1. PICK x \in S : \A y \in S : <<x, y>> \notin E
    BY DEF WF
  <2> QED BY <1>1, <2>1
<1>2. CASE f \in S /\ t \in S
  <2> DEFINE R == {t} \cup reachable(E, t)
             U == S \cap R
  <2>1. U \in SUBSET Tasks /\ t \in U /\ f \notin U
    BY <1>2
  <2>2. PICK x \in U : \A y \in U : <<x, y>> \notin E
    BY <2>1 DEF WF
  <2>3. \A y \in S : <<x, y>> \in E => y \in R
    <3> SUFFICES ASSUME NEW y \in S, <<x, y>> \in E PROVE y \in reachable(E, t)
      OBVIOUS
    <3>1. CASE x = t
      BY <3>1, ReachableProps
    <3>2. CASE x \in reachable(E, t)
      <4>1. <<x, y>>[1] = x /\ <<x, y>>[2] = y
        OBVIOUS
      <4> QED BY <3>2, <4>1, ReachableProps
    <3> QED BY <3>1, <3>2
  <2>4. \A y \in S : <<x, y>> \notin E
    BY <2>2, <2>3
  <2>5. x # f
    BY <2>1
  <2> QED BY <2>4, <2>5
<1> QED BY <1>1, <1>2

(* In a well-founded relation no task leads back to itself, so the         *)
(* recursive query of ensureNoCycle produces finitely many rows: a task    *)
(* leading to itself would put the tasks on its cycles in a set without a  *)
(* minimal member.                                                         *)
LEMMA WFHasNoCycle ==
    ASSUME NEW E \in SUBSET (Tasks \X Tasks), WF(E), NEW x \in Tasks
    PROVE  x \notin reachable(E, x)
<1> SUFFICES ASSUME x \in reachable(E, x) PROVE FALSE
  OBVIOUS
<1> DEFINE S == {y \in reachable(E, x) : x \in reachable(E, y)}
<1>1. S \in SUBSET Tasks /\ x \in S
  BY ReachableProps
<1>2. PICK m \in S : \A y \in S : <<m, y>> \notin E
  BY <1>1 DEF WF
<1>3. m \in Tasks
  BY <1>1, <1>2
<1> DEFINE U == {z \in Tasks : <<m, z>> \in E
                   \/ \E y \in Tasks : <<m, y>> \in E /\ z \in reachable(E, y)}
<1>4. reachable(E, m) \subseteq U
  <2>1. ClosedUnder(E, U)
    <3> SUFFICES ASSUME NEW e \in E, e[1] \in U PROVE e[2] \in U
      BY DEF ClosedUnder
    <3>1. e[1] \in Tasks /\ e[2] \in Tasks /\ e = <<e[1], e[2]>>
      OBVIOUS
    <3>2. CASE <<m, e[1]>> \in E
      BY <3>1, <3>2, ReachableProps
    <3>3. ASSUME NEW y \in Tasks, <<m, y>> \in E, e[1] \in reachable(E, y)
          PROVE  e[2] \in U
      BY <3>1, <3>3, ReachableProps
    <3> QED BY <3>2, <3>3
  <2>2. \A d \in Tasks : <<m, d>> \in E => d \in U
    OBVIOUS
  <2>3. U \in SUBSET Tasks
    OBVIOUS
  <2> HIDE DEF U
  <2> QED BY <1>3, <2>1, <2>2, <2>3, ReachableProps
<1>5. PICK y \in Tasks : <<m, y>> \in E /\ (y = x \/ x \in reachable(E, y))
  BY <1>2, <1>4
<1>6. y \in reachable(E, x)
  <2>1. <<m, y>>[1] = m /\ <<m, y>>[2] = y
    OBVIOUS
  <2> QED BY <1>2, <1>5, <2>1, ReachableProps
<1>7. y \in S
  BY <1>1, <1>5, <1>6
<1> QED BY <1>2, <1>5, <1>7

----------------------------------------------------------------------------
(* Edges join existing tasks of one project, and so does the edge of every *)
(* AddEdge that has passed its lookups: a task, once created, never goes   *)
(* away, so what the lookups found still holds at the insert.              *)
LinkInv ==
    /\ \A f, t \in Tasks : <<f, t>> \in edges =>
         Exists(f) /\ Exists(t) /\ ProjectOf[f] = ProjectOf[t]
    /\ \A c \in Clients : op[c].pc \in {"toProject", "cycleCheck", "insert"} =>
         Exists(op[c].from)
    /\ \A c \in Clients : op[c].pc \in {"cycleCheck", "insert"} =>
         Exists(op[c].to) /\ ProjectOf[op[c].from] = ProjectOf[op[c].to]

(* No statement removes a task.                                            *)
LEMMA TasksStay ==
    ASSUME TypeOK, Next, NEW t \in Tasks, Exists(t)
    PROVE  Exists(t)'
<1> USE DEF TypeOK, Exists
<1>1. PICK c \in Clients : Call(c) \/ Continue(c) \/ CancelQuery(c)
  BY DEF Next
<1>2. op[c] \in OpTypes
  BY <1>1
<1>3. CASE Call(c)
  BY <1>1, <1>3, ConstantsAssumption
    DEF Call, CreateTask, AddEdge, RemoveEdge, UpdateTask, AutoUnblockDependents
<1>4. CASE WriteStatus(c)
  BY <1>1, <1>2, <1>4, OpFields, ConstantsAssumption DEF WriteStatus, Step
<1>5. CASE (Continue(c) \/ CancelQuery(c)) /\ ~WriteStatus(c)
  <2>1. UNCHANGED status
    BY <1>5 DEF Continue, FromProject, ToProject, CycleCheck, CancelQuery,
                InsertEdge, ReadyCheck, UnblockGetTask, UnblockCheckDep,
                UnblockPromote, UnblockReturn
  <2> QED BY <2>1
<1> QED BY <1>1, <1>3, <1>4, <1>5

(* How a step may change edges and the AddEdge calls in progress: it keeps *)
(* or leaves every call, moves one call one place further, or begins one.  *)
EdgeStep(c) ==
    /\ \A b \in Clients \ {c} : op'[b] = op[b]
    /\ \/ /\ edges' \subseteq edges
          /\ op'[c].pc \in {"idle", "readyCheck", "write", "unblock", "checkDeps"}
       \/ /\ edges' = edges /\ op[c].pc = "idle"
          /\ c \in EdgeWriters
          /\ op'[c].pc = "fromProject"
          /\ op'[c].from # op'[c].to
       \/ /\ edges' = edges /\ status' = status
          /\ op'[c].from = op[c].from /\ op'[c].to = op[c].to
          /\ \/ /\ op[c].pc = "fromProject" /\ op'[c].pc = "toProject"
                /\ Exists(op[c].from)
             \/ /\ op[c].pc = "toProject" /\ op'[c].pc = "cycleCheck"
                /\ Exists(op[c].to)
                /\ ProjectOf[op[c].from] = ProjectOf[op[c].to]
             \/ /\ op[c].pc = "cycleCheck" /\ op'[c].pc = "insert"
                /\ op[c].from \notin reachable(edges, op[c].to)
             \/ /\ op[c].pc = "cycleCheck" /\ op'[c].pc = "hung"
                /\ \E x \in {op[c].to} \cup reachable(edges, op[c].to) :
                     x \in reachable(edges, x)
       \/ /\ op[c].pc = "insert" /\ op'[c].pc = "idle"
          /\ status' = status
          /\ edges' = edges \cup {<<op[c].from, op[c].to>>}

(* Every statement of every operation is an EdgeStep of its client.        *)
LEMMA EdgeSteps == ASSUME TypeOK, Next PROVE \E c \in Clients : EdgeStep(c)
<1> USE DEF TypeOK, Step, Goto, Idle, EdgeOp, WriteOp, UnblockOp, NeedOp,
            EdgeStep
<1>1. PICK c \in Clients : Call(c) \/ Continue(c) \/ CancelQuery(c)
  BY DEF Next
<1>2. op[c] \in OpTypes
  BY <1>1
<1>3. CASE Call(c)
  <2>1. CASE \E f, t \in Tasks : AddEdge(c, f, t)
    BY <1>1, <2>1 DEF AddEdge
  <2>2. CASE ~\E f, t \in Tasks : AddEdge(c, f, t)
    BY <1>1, <1>3, <2>2
      DEF Call, CreateTask, RemoveEdge, UpdateTask, AutoUnblockDependents
  <2> QED BY <2>1, <2>2
<1>4. CASE FromProject(c)
  BY <1>1, <1>4 DEF FromProject
<1>5. CASE ToProject(c)
  BY <1>1, <1>5 DEF ToProject
<1>6. CASE CycleCheck(c)
  BY <1>1, <1>6 DEF CycleCheck
<1>7. CASE CancelQuery(c) \/ InsertEdge(c)
  BY <1>1, <1>7 DEF CancelQuery, InsertEdge
<1>8. CASE ReadyCheck(c) \/ WriteStatus(c)
  BY <1>1, <1>8 DEF ReadyCheck, WriteStatus, AfterWrite
<1>9. CASE (\E t \in Tasks : UnblockGetTask(c, t) \/ UnblockCheckDep(c, t))
           \/ UnblockPromote(c) \/ UnblockReturn(c)
  BY <1>1, <1>9
    DEF UnblockGetTask, UnblockCheckDep, UnblockPromote, UnblockReturn
<1> QED BY <1>1, <1>3, <1>4, <1>5, <1>6, <1>7, <1>8, <1>9 DEF Continue

(* LinkInv is kept: AddEdge compares the projects before it inserts, and   *)
(* no task is ever removed in between.                                     *)
LEMMA LinkInvInductive ==
    ASSUME TypeOK, TypeOK', LinkInv, [Next]_vars
    PROVE  LinkInv'
<1>1. CASE UNCHANGED vars
  BY <1>1 DEF vars, LinkInv, Exists
<1>2. CASE Next
  <2>1. \A t \in Tasks : Exists(t) => Exists(t)'
    BY <1>2, TasksStay
  <2>2. PICK c \in Clients : EdgeStep(c)
    BY <1>2, EdgeSteps
  <2>3. \A b \in Clients : op[b] \in OpTypes /\ op'[b] \in OpTypes
    BY DEF TypeOK
  <2>4. \A f, t \in Tasks : <<f, t>> \in edges' =>
          <<f, t>> \in edges
          \/ (op[c].pc = "insert" /\ f = op[c].from /\ t = op[c].to)
    BY <2>2 DEF EdgeStep
  <2>5. (\A f, t \in Tasks : <<f, t>> \in edges =>
          Exists(f) /\ Exists(t) /\ ProjectOf[f] = ProjectOf[t])'
    BY <2>1, <2>4 DEF LinkInv
  <2>6. ASSUME NEW b \in Clients
        PROVE  (/\ op[b].pc \in {"toProject", "cycleCheck", "insert"} =>
                     Exists(op[b].from)
                /\ op[b].pc \in {"cycleCheck", "insert"} =>
                     Exists(op[b].to) /\ ProjectOf[op[b].from] = ProjectOf[op[b].to])'
    <3>1. CASE b # c
      BY <2>1, <2>2, <2>3, <3>1, OpFields DEF LinkInv, EdgeStep, Exists
    <3>2. CASE b = c
      BY <2>1, <2>2, <2>3, <3>2, OpFields DEF LinkInv, EdgeStep, Exists
    <3> QED BY <3>1, <3>2
  <2> QED BY <2>5, <2>6 DEF LinkInv
<1> QED BY <1>1, <1>2

(* ReadyDefinitionsAgree for every number of concurrent callers, by the    *)
(* inductive invariant LinkInv.                                            *)
THEOREM ReadyAgreement == Spec => []ReadyDefinitionsAgree
<1>1. Init => LinkInv
  BY DEF Init, LinkInv, Idle
<1>2. TypeOK /\ TypeOK' /\ LinkInv /\ [Next]_vars => LinkInv'
  BY LinkInvInductive
<1>3. TypeOK /\ LinkInv => ReadyDefinitionsAgree
  BY ConstantsAssumption
    DEF TypeOK, LinkInv, ReadyDefinitionsAgree, GetReadyNodes,
        FilterUnblockedOpen, DependsOn, Exists, Absent
<1> QED BY <1>1, <1>2, <1>3, TypeCorrect, PTL DEF Spec

----------------------------------------------------------------------------
(* At most one client adds edges.                                          *)
SingleWriter == \A c, d \in EdgeWriters : c = d

(* With one writer, what ensureNoCycle found still holds at the insert:    *)
(* other clients can only remove edges in between.                         *)
AcyclicInv ==
    /\ WF(edges)
    /\ \A c \in Clients :
         op[c].pc \in {"fromProject", "toProject", "cycleCheck", "insert"} =>
            c \in EdgeWriters /\ op[c].from # op[c].to
    /\ \A c \in Clients :
         op[c].pc = "insert" => op[c].from \notin reachable(edges, op[c].to)
    /\ \A c \in Clients : op[c].pc # "hung"

(* Removing edges (RemoveEdge) keeps the relation well founded.            *)
LEMMA RemoveKeepsWF ==
    ASSUME NEW E, WF(E), NEW F \in SUBSET E
    PROVE  WF(F)
BY DEF WF

(* With a single edge writer every statement keeps AcyclicInv.             *)
LEMMA AcyclicInvInductive ==
    ASSUME TypeOK, TypeOK', SingleWriter, AcyclicInv, [Next]_vars
    PROVE  AcyclicInv'
<1>1. CASE UNCHANGED vars
  BY <1>1 DEF vars, AcyclicInv, WF
<1>2. CASE Next
  <2>1. PICK c \in Clients : EdgeStep(c)
    BY <1>2, EdgeSteps
  <2>2. \A b \in Clients : op[b] \in OpTypes /\ op'[b] \in OpTypes
    BY DEF TypeOK
  <2>3. edges \in SUBSET (Tasks \X Tasks)
    BY DEF TypeOK
  <2>4. WF(edges')
    <3>1. CASE edges' \subseteq edges
      BY <3>1, RemoveKeepsWF DEF AcyclicInv
    <3>2. CASE op[c].pc = "insert" /\ edges' = edges \cup {<<op[c].from, op[c].to>>}
      <4>1. /\ op[c].from \in Tasks /\ op[c].to \in Tasks
            /\ op[c].from # op[c].to
            /\ op[c].from \notin reachable(edges, op[c].to)
        BY <2>2, <3>2, OpFields DEF AcyclicInv
      <4> QED BY <2>3, <3>2, <4>1, InsertKeepsWF DEF AcyclicInv
    <3> QED BY <2>1, <3>1, <3>2 DEF EdgeStep
  <2>5. op'[c].pc # "hung"
    <3>1. ASSUME op[c].pc = "cycleCheck",
                 NEW x \in {op[c].to} \cup reachable(edges, op[c].to),
                 x \in reachable(edges, x)
          PROVE  FALSE
      <4>1. op[c].to \in Tasks
        BY <2>2, <3>1, OpFields
      <4>2. x \in Tasks
        BY <2>3, <4>1, ReachableProps
      <4> QED BY <2>3, <3>1, <4>2, WFHasNoCycle DEF AcyclicInv
    <3> QED BY <2>1, <3>1 DEF EdgeStep
  <2>6. \A b \in Clients :
          op'[b].pc \in {"fromProject", "toProject", "cycleCheck", "insert"} =>
             b \in EdgeWriters /\ op'[b].from # op'[b].to
    BY <2>1 DEF EdgeStep, AcyclicInv
  <2>7. ASSUME NEW b \in Clients, op'[b].pc = "insert"
        PROVE  op'[b].from \notin reachable(edges', op'[b].to)
    <3>1. CASE b = c
      BY <2>1, <2>7, <3>1 DEF EdgeStep
    <3>2. CASE b # c
      <4>1. /\ op'[b] = op[b] /\ op[b].pc = "insert" /\ b \in EdgeWriters
            /\ op[b].to \in Tasks
        BY <2>1, <2>2, <2>7, <3>2, OpFields DEF EdgeStep, AcyclicInv
      <4>2. edges' \subseteq edges
        <5>1. CASE op[c].pc = "insert"
          BY <3>2, <4>1, <5>1 DEF AcyclicInv, SingleWriter
        <5>2. CASE op[c].pc # "insert"
          BY <2>1, <5>2 DEF EdgeStep
        <5> QED BY <5>1, <5>2
      <4>3. reachable(edges', op[b].to) \subseteq reachable(edges, op[b].to)
        BY <2>3, <4>1, <4>2, ReachableMonotonic
      <4> QED BY <4>1, <4>3 DEF AcyclicInv
    <3> QED BY <3>1, <3>2
  <2>8. \A b \in Clients : op'[b].pc # "hung"
    BY <2>1, <2>5 DEF EdgeStep, AcyclicInv
  <2>9. WF(edges)'
    BY <2>4 DEF WF
  <2> QED BY <2>6, <2>7, <2>8, <2>9 DEF AcyclicInv
<1> QED BY <1>1, <1>2

(* With one client adding edges, whatever the others do, the dependency    *)
(* relation stays well founded and no cycle check runs forever.            *)
THEOREM SingleWriterAcyclic ==
    ASSUME SingleWriter
    PROVE  Spec => [](Acyclic /\ CycleCheckTerminates)
<1>1. Init => AcyclicInv
  BY DEF Init, AcyclicInv, WF, Idle
<1>2. TypeOK /\ TypeOK' /\ AcyclicInv /\ [Next]_vars => AcyclicInv'
  BY AcyclicInvInductive
<1>3. AcyclicInv => Acyclic /\ CycleCheckTerminates
  BY DEF AcyclicInv, WF, Acyclic, CycleCheckTerminates, connectionFree
<1> QED BY <1>1, <1>2, <1>3, TypeCorrect, PTL DEF Spec

----------------------------------------------------------------------------
(* One call at a time.                                                     *)
Serial == \A c, d \in Clients : c = d

(* Callers that take turns are in particular a single edge writer.         *)
LEMMA SerialSingleWriter == ASSUME Serial PROVE SingleWriter
BY ConstantsAssumption DEF Serial, SingleWriter

(* A caller that runs alone still finds what it read.                      *)
SerialInv ==
    /\ \A c \in Clients :
         op[c].pc = "write" /\ op[c].val = "ready" => unblocked(op[c].task)
    /\ \A c \in Clients :
         \/ op[c].pc = "checkDeps"
         \/ op[c].pc \in {"readyCheck", "write"} /\ op[c].unblock
         => status[op[c].task] = "open"
    /\ \A c \in Clients : op[c].pc = "readyCheck" => op[c].val = "ready"

(* Calls made one at a time keep SerialInv.                                *)
LEMMA SerialInvInductive ==
    ASSUME TypeOK, TypeOK', Serial, SerialInv, [Next]_vars
    PROVE  SerialInv'
<1> USE DEF SerialInv
<1>1. CASE UNCHANGED vars
  BY <1>1 DEF vars, unblocked, DependsOn
<1>2. CASE Next
  <2>1. PICK c \in Clients : Call(c) \/ Continue(c) \/ CancelQuery(c)
    BY <1>2 DEF Next
  <2>2. \A b \in Clients : b = c
    BY DEF Serial
  <2>3. op[c] \in OpTypes /\ op \in [Clients -> OpTypes]
    BY DEF TypeOK
  <2>4. SUFFICES
          /\ op'[c].pc = "write" /\ op'[c].val = "ready" => unblocked(op[c].task)'
          /\ \/ op'[c].pc = "checkDeps"
             \/ op'[c].pc \in {"readyCheck", "write"} /\ op'[c].unblock
             => status'[op'[c].task] = "open"
          /\ op'[c].pc = "readyCheck" => op'[c].val = "ready"
    BY <2>2
  <2> USE DEF Step, Goto, Idle, EdgeOp, WriteOp, UnblockOp, NeedOp
  <2>5. CASE Call(c)
    BY <2>3, <2>5
      DEF Call, CreateTask, AddEdge, RemoveEdge, UpdateTask, AutoUnblockDependents
  <2>6. CASE ReadyCheck(c)
    BY <2>3, <2>6 DEF ReadyCheck, AfterWrite, unblocked, DependsOn
  <2>7. CASE WriteStatus(c)
    BY <2>3, <2>7 DEF WriteStatus, AfterWrite
  <2>8. CASE FromProject(c) \/ ToProject(c) \/ CycleCheck(c) \/ CancelQuery(c)
             \/ InsertEdge(c)
    BY <2>3, <2>8
      DEF FromProject, ToProject, CycleCheck, CancelQuery, InsertEdge
  <2>9. CASE (\E t \in Tasks : UnblockGetTask(c, t) \/ UnblockCheckDep(c, t))
             \/ UnblockPromote(c) \/ UnblockReturn(c)
    BY <2>3, <2>9
      DEF UnblockGetTask, UnblockCheckDep, UnblockPromote, UnblockReturn
  <2> QED BY <2>1, <2>5, <2>6, <2>7, <2>8, <2>9 DEF Continue
<1> QED BY <1>1, <1>2

(* Every step of a caller that runs alone is a step of the atomic store or *)
(* leaves the tables alone.                                                *)
LEMMA SerialStep ==
    ASSUME TypeOK, Serial, SerialInv, LinkInv, AcyclicInv, AcyclicInv', [Next]_vars
    PROVE  [Atomic!Next]_<<status, edges>>
<1>1. CASE UNCHANGED vars
  BY <1>1 DEF vars
<1>2. CASE Next
  <2>1. PICK c \in Clients : Call(c) \/ Continue(c) \/ CancelQuery(c)
    BY <1>2 DEF Next
  <2>2. op[c] \in OpTypes
    BY DEF TypeOK
  <2>3. ASSUME NEW t \in Tasks, NEW s \in Statuses, CreateTask(c, t, s)
        PROVE  Atomic!Next
    BY <2>3 DEF CreateTask, Exists, Atomic!Next, Atomic!Create
  <2>4. ASSUME NEW f \in Tasks, NEW t \in Tasks, RemoveEdge(c, f, t)
        PROVE  Atomic!Next
    BY <2>4 DEF RemoveEdge, Atomic!Next, Atomic!Unlink
  <2>5. CASE InsertEdge(c)
    <3>1. /\ op[c].from \in Tasks /\ op[c].to \in Tasks
          /\ Exists(op[c].from) /\ Exists(op[c].to)
          /\ ProjectOf[op[c].from] = ProjectOf[op[c].to]
      BY <2>2, <2>5, OpFields DEF InsertEdge, Step, LinkInv
    <3>2. Atomic!WellFounded(edges')
      BY DEF AcyclicInv, WF, Atomic!WellFounded
    <3>3. Atomic!Link(op[c].from, op[c].to)
      BY <2>5, <3>1, <3>2 DEF InsertEdge, Exists, Atomic!Link
    <3> QED BY <3>1, <3>3 DEF Atomic!Next
  <2>6. CASE WriteStatus(c)
    <3>1. op[c].task \in Tasks /\ op[c].val \in Statuses
      BY <2>2, <2>6, OpFields DEF WriteStatus, Step
    <3>2. CASE ~Exists(op[c].task)
      BY <2>6, <3>2 DEF WriteStatus
    <3>3. CASE Exists(op[c].task)
      <4>1. Atomic!SetStatus(op[c].task, op[c].val)
        BY <2>6, <3>1, <3>3
          DEF WriteStatus, Step, Exists, SerialInv, unblocked, DependsOn,
              isTerminalStatus, Atomic!SetStatus
      <4> QED BY <3>1, <4>1 DEF Atomic!Next
    <3> QED BY <3>2, <3>3
  <2>7. CASE ~InsertEdge(c) /\ ~WriteStatus(c)
             /\ (\A t \in Tasks, s \in Statuses : ~CreateTask(c, t, s))
             /\ (\A f, t \in Tasks : ~RemoveEdge(c, f, t))
    BY <2>1, <2>7
      DEF Call, Continue, AddEdge, UpdateTask, AutoUnblockDependents,
          FromProject, ToProject, CycleCheck, CancelQuery, ReadyCheck,
          UnblockGetTask, UnblockCheckDep, UnblockPromote, UnblockReturn
  <2> QED BY <2>3, <2>4, <2>5, <2>6, <2>7
<1> QED BY <1>1, <1>2

(* A store whose calls are made one at a time implements AtomicDAG.        *)
THEOREM SerialImplementsAtomicDAG ==
    ASSUME Serial
    PROVE  Spec => ImplementsAtomicDAG
<1>1. Init => LinkInv /\ AcyclicInv /\ SerialInv
  BY DEF Init, LinkInv, AcyclicInv, SerialInv, WF, Idle
<1>2. TypeOK /\ TypeOK' /\ AcyclicInv /\ [Next]_vars => AcyclicInv'
  BY AcyclicInvInductive, SerialSingleWriter
<1>3. TypeOK /\ TypeOK' /\ LinkInv /\ [Next]_vars => LinkInv'
  BY LinkInvInductive
<1>4. TypeOK /\ TypeOK' /\ SerialInv /\ [Next]_vars => SerialInv'
  BY SerialInvInductive
<1>5. Init => Atomic!Init
  BY DEF Init, Atomic!Init
<1>6. TypeOK /\ SerialInv /\ LinkInv /\ AcyclicInv /\ AcyclicInv' /\ [Next]_vars
        => [Atomic!Next]_<<status, edges>>
  BY SerialStep
<1> QED BY <1>1, <1>2, <1>3, <1>4, <1>5, <1>6, TypeCorrect, PTL
        DEF Spec, ImplementsAtomicDAG, Atomic!Spec

(* ... and then AutoUnblockDependents overwrites nothing but "open", and   *)
(* an update makes a task ready only when it is unblocked.                 *)
THEOREM SerialGuards ==
    ASSUME Serial
    PROVE  Spec => UnblockPromotesOpenOnly /\ ReadyOnlyWhenUnblocked
<1>1. Init => SerialInv
  BY DEF Init, SerialInv, Idle
<1>2. TypeOK /\ TypeOK' /\ SerialInv /\ [Next]_vars => SerialInv'
  BY SerialInvInductive
<1>3. SerialInv => \A c \in Clients, t \in Tasks :
          (/\ op[c].pc = "write" /\ op[c].unblock /\ op[c].task = t
           /\ op'[c].pc = "unblock") => status[t] = "open"
  BY DEF SerialInv
<1>4. TypeOK /\ SerialInv /\ [Next]_vars => \A t \in Tasks :
          (Exists(t) /\ status[t] # "ready" /\ status'[t] = "ready")
            => unblocked(t)
  <2> SUFFICES ASSUME TypeOK, SerialInv, [Next]_vars, NEW t \in Tasks,
                      Exists(t), status[t] # "ready", status'[t] = "ready"
               PROVE  unblocked(t)
    OBVIOUS
  <2>1. PICK c \in Clients : Call(c) \/ Continue(c) \/ CancelQuery(c)
    BY DEF Next, vars
  <2>2. WriteStatus(c)
    <3>1. CASE \E u \in Tasks, s \in Statuses : CreateTask(c, u, s)
      BY <3>1 DEF CreateTask, TypeOK, Exists
    <3>2. CASE ~WriteStatus(c) /\ \A u \in Tasks, s \in Statuses : ~CreateTask(c, u, s)
      BY <2>1, <3>2
        DEF Call, Continue, AddEdge, RemoveEdge, UpdateTask,
            AutoUnblockDependents, FromProject, ToProject, CycleCheck,
            CancelQuery, InsertEdge, ReadyCheck, UnblockGetTask,
            UnblockCheckDep, UnblockPromote, UnblockReturn
    <3> QED BY <3>1, <3>2
  <2>3. op[c].pc = "write" /\ op[c].task = t /\ op[c].val = "ready"
    BY <2>1, <2>2, OpFields DEF WriteStatus, Step, TypeOK
  <2> QED BY <2>1, <2>3 DEF SerialInv
<1> QED BY <1>1, <1>2, <1>3, <1>4, TypeCorrect, PTL
        DEF Spec, UnblockPromotesOpenOnly, ReadyOnlyWhenUnblocked

=============================================================================
