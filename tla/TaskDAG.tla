------------------------------- MODULE TaskDAG -------------------------------
(***************************************************************************)
(* The task dependency store of internal/graph/dag.go, as the concurrent   *)
(* callers of one chum process use it.                                     *)
(*                                                                         *)
(* The DAG object keeps no state of its own: everything is in the SQLite   *)
(* tables tasks and task_edges.  The database handle is limited to one     *)
(* connection, so single SQL statements are atomic, but no DAG operation   *)
(* opens a transaction: AddEdge, UpdateTask and AutoUnblockDependents are  *)
(* sequences of statements between which other callers run.  One action    *)
(* below is one statement (GetTask, a row and its edge list, counts as     *)
(* one), and op[c] is the call that client c has in progress.              *)
(*                                                                         *)
(* An edge <<f, t>> says that f depends on t.                              *)
(***************************************************************************)
EXTENDS Naturals

CONSTANTS
    Tasks,        \* task identifiers
    Clients,      \* API handlers and Temporal activities holding the DAG
    EdgeWriters,  \* the clients that call AddEdge
    Deadlines,    \* the clients whose context ends by itself: activities
                  \* have a timeout, requests of the API have none
    Statuses,     \* the status strings in use (normalised: lower case)
    ProjectOf,    \* an identifier is "<project>-<hex>", so it fixes the project
    Containers    \* the identifiers given to epics and whales

VARIABLES
    status,       \* column tasks.status, Absent for an identifier not in use
    edges,        \* table task_edges
    op            \* the operation each client has in progress

vars == <<status, edges, op>>

Absent == "absent"

TerminalStatuses ==
    {"closed", "completed", "escalated", "plan_failed", "canceled", "done"}

ASSUME ConstantsAssumption ==
    /\ {"open", "ready", "closed"} \subseteq Statuses
    /\ Absent \notin Statuses
    /\ EdgeWriters \subseteq Clients /\ Deadlines \subseteq Clients
    /\ Containers \subseteq Tasks

----------------------------------------------------------------------------
(* Reading the tables.                                                     *)

Exists(t) == status[t] # Absent

DependsOn(t) == {d \in Tasks : <<t, d>> \in edges}

Dependents(t) == {f \in Tasks : <<f, t>> \in edges}

isTerminalStatus(s) == s \in TerminalStatuses

ClosedUnder(E, S) == \A e \in E : e[1] \in S => e[2] \in S

(* The rows of the recursive query: what a path of one or more edges of E  *)
(* that starts in x leads to.                                              *)
reachable(E, x) ==
    {y \in Tasks : \A S \in SUBSET Tasks :
        ((\A d \in Tasks : <<x, d>> \in E => d \in S) /\ ClosedUnder(E, S))
            => y \in S}

(* ensureReadyTransitionUnblocked: no dependency is missing or unresolved. *)
unblocked(t) == \A d \in DependsOn(t) : isTerminalStatus(status[d])

(* GetReadyNodes: one SQL query, joining the dependencies that exist.      *)
GetReadyNodes(p) ==
    {t \in Tasks : /\ ProjectOf[t] = p
                   /\ status[t] = "ready"
                   /\ t \notin Containers
                   /\ \A d \in DependsOn(t) :
                        Exists(d) => isTerminalStatus(status[d])}

(* FilterUnblockedOpen on the in-memory graph built from one project's     *)
(* tasks: a dependency outside that list blocks its dependents.            *)
FilterUnblockedOpen(p) ==
    LET nodes == {t \in Tasks : Exists(t) /\ ProjectOf[t] = p}
    IN  {t \in nodes : /\ status[t] = "ready"
                       /\ t \notin Containers
                       /\ \A d \in DependsOn(t) :
                            d \in nodes /\ isTerminalStatus(status[d])}

----------------------------------------------------------------------------
(* Operations in progress.                                                 *)

Idle == [pc |-> "idle"]

EdgeOp(k, f, t) == [pc |-> k, from |-> f, to |-> t]

(* unblock is TRUE inside AutoUnblockDependents, whose remaining           *)
(* dependents are todo.                                                    *)
WriteOp(k, t, s, u, todo) ==
    [pc |-> k, task |-> t, val |-> s, unblock |-> u, todo |-> todo]

UnblockOp(todo) == [pc |-> "unblock", todo |-> todo]

NeedOp(t, need, todo) ==
    [pc |-> "checkDeps", task |-> t, need |-> need, todo |-> todo]

(* What a client does once the update of a task has ended, well or badly.  *)
AfterWrite(o) == IF o.unblock THEN UnblockOp(o.todo) ELSE Idle

(* A cycle check that never ends keeps the only database connection.       *)
connectionFree == \A c \in Clients : op[c].pc # "hung"

Step(c, k) == op[c].pc = k /\ connectionFree

Goto(c, o) == op' = [op EXCEPT ![c] = o]

----------------------------------------------------------------------------
Init ==
    /\ status = [t \in Tasks |-> Absent]
    /\ edges = {}
    /\ op = [c \in Clients |-> Idle]

(* CreateTask: one INSERT under a fresh identifier (a collision draws      *)
(* another one); the dependencies of the new task are not looked at.       *)
CreateTask(c, t, s) ==
    /\ Step(c, "idle")
    /\ ~Exists(t)
    /\ status' = [status EXCEPT ![t] = s]
    /\ UNCHANGED <<edges, op>>

(* AddEdge, before its first statement.                                    *)
AddEdge(c, f, t) ==
    /\ Step(c, "idle")
    /\ c \in EdgeWriters
    /\ f # t
    /\ Goto(c, EdgeOp("fromProject", f, t))
    /\ UNCHANGED <<status, edges>>

(* taskProject(from): an unknown task ends the call with an error.         *)
FromProject(c) ==
    /\ Step(c, "fromProject")
    /\ Goto(c, IF Exists(op[c].from)
                 THEN EdgeOp("toProject", op[c].from, op[c].to) ELSE Idle)
    /\ UNCHANGED <<status, edges>>

(* Mutant of ToProject: the projects are not compared.                     *)
ToProjectUnchecked(c) ==
    /\ Step(c, "toProject")
    /\ Goto(c, IF Exists(op[c].to)
                 THEN EdgeOp("cycleCheck", op[c].from, op[c].to) ELSE Idle)
    /\ UNCHANGED <<status, edges>>

(* taskProject(to) and the comparison of the two projects.                 *)
ToProject(c) ==
    /\ Step(c, "toProject")
    /\ Goto(c, IF Exists(op[c].to) /\ ProjectOf[op[c].from] = ProjectOf[op[c].to]
                 THEN EdgeOp("cycleCheck", op[c].from, op[c].to) ELSE Idle)
    /\ UNCHANGED <<status, edges>>

(* Mutant of CycleCheck: only the direct dependencies of to are searched.  *)
CycleCheckDirect(c) ==
    /\ Step(c, "cycleCheck")
    /\ Goto(c, IF op[c].from \in DependsOn(op[c].to) THEN Idle
               ELSE IF \E x \in {op[c].to} \cup reachable(edges, op[c].to) :
                          x \in reachable(edges, x)
                 THEN EdgeOp("hung", op[c].from, op[c].to)
                 ELSE EdgeOp("insert", op[c].from, op[c].to))
    /\ UNCHANGED <<status, edges>>

(* ensureNoCycle: the recursive query starts at to and looks for from.  It *)
(* joins with UNION ALL, so when it meets a cycle that does not contain    *)
(* from it produces rows forever.                                          *)
CycleCheck(c) ==
    /\ Step(c, "cycleCheck")
    /\ LET rows == reachable(edges, op[c].to)
           start == {op[c].to} \cup rows
       IN  Goto(c, IF op[c].from \in rows THEN Idle
                   ELSE IF \E x \in start : x \in reachable(edges, x)
                     THEN EdgeOp("hung", op[c].from, op[c].to)
                     ELSE EdgeOp("insert", op[c].from, op[c].to))
    /\ UNCHANGED <<status, edges>>

(* Mutant of CancelQuery: the query runs without a deadline.               *)
CancelQueryNever(c) == FALSE

(* The end of the caller's context interrupts the endless query: the       *)
(* deadline of an activity, or a requester that hangs up, who need not.    *)
CancelQuery(c) ==
    /\ op[c].pc = "hung"
    /\ Goto(c, Idle)
    /\ UNCHANGED <<status, edges>>

(* INSERT OR IGNORE INTO task_edges.                                       *)
InsertEdge(c) ==
    /\ Step(c, "insert")
    /\ edges' = edges \cup {<<op[c].from, op[c].to>>}
    /\ Goto(c, Idle)
    /\ UNCHANGED status

(* RemoveEdge: one DELETE.                                                 *)
RemoveEdge(c, f, t) ==
    /\ Step(c, "idle")
    /\ edges' = edges \ {<<f, t>>}
    /\ UNCHANGED <<status, op>>

(* Mutant of UpdateTask: a transition to ready is written unchecked.       *)
UpdateTaskUnchecked(c, t, s) ==
    /\ Step(c, "idle")
    /\ Goto(c, WriteOp("write", t, s, FALSE, {}))
    /\ UNCHANGED <<status, edges>>

(* UpdateTask with a status (CloseTask is UpdateTask to "closed"): only a  *)
(* transition to ready looks at the dependencies first.                    *)
UpdateTask(c, t, s) ==
    /\ Step(c, "idle")
    /\ Goto(c, WriteOp(IF s = "ready" THEN "readyCheck" ELSE "write",
                       t, s, FALSE, {}))
    /\ UNCHANGED <<status, edges>>

ReadyCheck(c) ==
    /\ Step(c, "readyCheck")
    /\ LET o == op[c]
       IN  Goto(c, IF unblocked(o.task)
                     THEN WriteOp("write", o.task, o.val, o.unblock, o.todo)
                     ELSE AfterWrite(o))
    /\ UNCHANGED <<status, edges>>

(* UPDATE tasks SET status = ? WHERE id = ?: no row matches an unknown     *)
(* task, and the status that is overwritten is not compared with anything. *)
WriteStatus(c) ==
    /\ Step(c, "write")
    /\ status' = IF Exists(op[c].task)
                   THEN [status EXCEPT ![op[c].task] = op[c].val] ELSE status
    /\ Goto(c, AfterWrite(op[c]))
    /\ UNCHANGED edges

(* AutoUnblockDependents: the dependents are listed once.                  *)
AutoUnblockDependents(c, t) ==
    /\ Step(c, "idle")
    /\ Goto(c, UnblockOp(Dependents(t)))
    /\ UNCHANGED <<status, edges>>

(* GetTask of the next dependent; one that is not open is passed over.     *)
UnblockGetTask(c, t) ==
    /\ Step(c, "unblock")
    /\ t \in op[c].todo
    /\ Goto(c, IF status[t] = "open"
                 THEN NeedOp(t, DependsOn(t), op[c].todo \ {t})
                 ELSE UnblockOp(op[c].todo \ {t}))
    /\ UNCHANGED <<status, edges>>

(* GetTask of one of its dependencies.                                     *)
UnblockCheckDep(c, d) ==
    /\ Step(c, "checkDeps")
    /\ d \in op[c].need
    /\ Goto(c, IF isTerminalStatus(status[d])
                 THEN NeedOp(op[c].task, op[c].need \ {d}, op[c].todo)
                 ELSE UnblockOp(op[c].todo))
    /\ UNCHANGED <<status, edges>>

(* All of them were terminal: the dependent goes through UpdateTask.       *)
UnblockPromote(c) ==
    /\ Step(c, "checkDeps")
    /\ op[c].need = {}
    /\ Goto(c, WriteOp("readyCheck", op[c].task, "ready", TRUE, op[c].todo))
    /\ UNCHANGED <<status, edges>>

UnblockReturn(c) ==
    /\ Step(c, "unblock")
    /\ op[c].todo = {}
    /\ Goto(c, Idle)
    /\ UNCHANGED <<status, edges>>

----------------------------------------------------------------------------
(* No caller writes the status "open": tasks are only created with it.     *)
Call(c) ==
    \/ \E t \in Tasks, s \in Statuses : CreateTask(c, t, s)
    \/ \E f, t \in Tasks : AddEdge(c, f, t)
    \/ \E f, t \in Tasks : RemoveEdge(c, f, t)
    \/ \E t \in Tasks, s \in Statuses \ {"open"} : UpdateTask(c, t, s)
    \/ \E t \in Tasks : AutoUnblockDependents(c, t)

Continue(c) ==
    \/ FromProject(c)
    \/ ToProject(c)
    \/ CycleCheck(c)
    \/ InsertEdge(c)
    \/ ReadyCheck(c)
    \/ WriteStatus(c)
    \/ \E t \in Tasks : UnblockGetTask(c, t)
    \/ \E d \in Tasks : UnblockCheckDep(c, d)
    \/ UnblockPromote(c)
    \/ UnblockReturn(c)

Next == \E c \in Clients : Call(c) \/ Continue(c) \/ CancelQuery(c)

Spec == Init /\ [][Next]_vars

(* A call that has been made goes on: statements queue for the connection  *)
(* and are served in turn.  Deadlines come, requesters may wait for ever.  *)
Fairness ==
    /\ \A c \in Clients : SF_vars(Continue(c))
    /\ \A c \in Deadlines : WF_vars(CancelQuery(c))

FairSpec == Spec /\ Fairness

----------------------------------------------------------------------------
(* Properties.                                                             *)

OpTypes ==
    [pc : {"idle"}]
    \cup [pc : {"fromProject", "toProject", "cycleCheck", "insert", "hung"},
          from : Tasks, to : Tasks]
    \cup [pc : {"readyCheck", "write"}, task : Tasks, val : Statuses,
          unblock : BOOLEAN, todo : SUBSET Tasks]
    \cup [pc : {"unblock"}, todo : SUBSET Tasks]
    \cup [pc : {"checkDeps"}, task : Tasks, need : SUBSET Tasks,
          todo : SUBSET Tasks]

(* Type invariant of the two tables and of the calls in progress.          *)
TypeOK ==
    /\ status \in [Tasks -> Statuses \cup {Absent}]
    /\ edges \subseteq Tasks \X Tasks
    /\ op \in [Clients -> OpTypes]

(* The two definitions of "can be worked on", GetReadyNodes (SQL) and      *)
(* FilterUnblockedOpen (in memory, on one project's tasks), agree: they    *)
(* treat a missing and a foreign dependency differently, so this rests on  *)
(* AddEdge admitting neither, whatever happens between its lookups and its *)
(* insert.                                                                 *)
ReadyDefinitionsAgree ==
    \A t \in Tasks :
        GetReadyNodes(ProjectOf[t]) = FilterUnblockedOpen(ProjectOf[t])

(* "adding this edge would create a cycle" (dag.go:698): AddEdge keeps the *)
(* dependency relation well founded, so that some task can always be       *)
(* worked on first.                                                        *)
Acyclic ==
    \A S \in SUBSET Tasks :
        S # {} => \E x \in S : \A y \in S : <<x, y>> \notin edges

(* The recursive query of ensureNoCycle ends: no call sits on the only     *)
(* database connection until its deadline.                                 *)
CycleCheckTerminates == connectionFree

(* "only promote open -> ready" (dag.go:654): AutoUnblockDependents never  *)
(* overwrites a status other than open, in particular never reopens a task *)
(* that was closed meanwhile.                                              *)
UnblockPromotesOpenOnly ==
    [][\A c \in Clients, t \in Tasks :
          (/\ op[c].pc = "write" /\ op[c].unblock /\ op[c].task = t
           /\ op'[c].pc = "unblock")
            => status[t] = "open"]_vars

(* "cannot set task to ready: unresolved dependency" (dag.go:486): when an *)
(* update makes a task ready, all its dependencies are terminal then, not  *)
(* merely when they were checked.                                          *)
ReadyOnlyWhenUnblocked ==
    [][\A t \in Tasks :
          (Exists(t) /\ status[t] # "ready" /\ status'[t] = "ready")
            => unblocked(t)]_vars

(* Every call returns, unless the endless cycle check of a request without *)
(* a deadline has taken the connection: the endless check of a caller with *)
(* one delays the others and stops nobody, and nothing else ever waits.    *)
CallsReturn ==
    \A c \in Clients :
        op[c].pc # "idle" ~>
            \/ op[c].pc = "idle"
            \/ \E d \in Clients \ Deadlines : op[d].pc = "hung"

(* The store as its callers are meant to see it.                           *)
Atomic == INSTANCE AtomicDAG

(* Every operation takes effect in one step, as AtomicDAG describes.       *)
ImplementsAtomicDAG == Atomic!Spec

=============================================================================
