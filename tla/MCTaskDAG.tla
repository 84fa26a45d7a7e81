------------------------------ MODULE MCTaskDAG ------------------------------
(* Instances of TaskDAG for TLC.                                           *)
EXTENDS TaskDAG, TLC

CONSTANTS t1, t2, t3, t4, c1, c2, p1, p2

OneProject == [t \in Tasks |-> p1]

(* t4 belongs to another project.                                          *)
TwoProjects == [t \in Tasks |-> IF t = t4 THEN p2 ELSE p1]

(* Identifiers of one project are interchangeable.                         *)
TaskSymmetry == Permutations(Tasks)

(* It was closed before anybody could depend on it.                        *)
FirstStatus(t) == IF t = t4 THEN "closed" ELSE "ready"

(* Callers that only create tasks and add edges, two of them at once: with *)
(* three tasks of one project, the smallest system in which a cycle check  *)
(* can fail to end by itself.                                              *)
LinkNext ==
    \E c \in Clients :
        \/ \E t \in Tasks : CreateTask(c, t, FirstStatus(t))
        \/ \E f, t \in Tasks : AddEdge(c, f, t)
        \/ FromProject(c) \/ ToProject(c) \/ CycleCheck(c)
        \/ CancelQuery(c) \/ InsertEdge(c)

LinkSpec == Init /\ [][LinkNext]_vars /\ Fairness

=============================================================================
