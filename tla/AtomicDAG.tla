------------------------------ MODULE AtomicDAG ------------------------------
(***************************************************************************)
(* What the task dependency store promises its callers: every operation    *)
(* takes effect at once, the dependency relation never has a cycle, and a  *)
(* task becomes ready only when nothing it depends on is unresolved.       *)
(***************************************************************************)
CONSTANTS Tasks, Statuses, TerminalStatuses, ProjectOf, Absent

VARIABLES status, edges

(* Every set of tasks has a member that depends on no member of the set:   *)
(* there is always a task that can be worked on first.                     *)
WellFounded(E) ==
    \A S \in SUBSET Tasks :
        S # {} => \E x \in S : \A y \in S : <<x, y>> \notin E

Init ==
    /\ status = [t \in Tasks |-> Absent]
    /\ edges = {}

Create(t, s) ==
    /\ status[t] = Absent
    /\ status' = [status EXCEPT ![t] = s]
    /\ UNCHANGED edges

Link(f, t) ==
    /\ status[f] # Absent /\ status[t] # Absent
    /\ ProjectOf[f] = ProjectOf[t]
    /\ edges' = edges \cup {<<f, t>>}
    /\ WellFounded(edges')
    /\ UNCHANGED status

Unlink(f, t) ==
    /\ edges' = edges \ {<<f, t>>}
    /\ UNCHANGED status

SetStatus(t, s) ==
    /\ status[t] # Absent
    /\ s = "ready" =>
         \A d \in Tasks : <<t, d>> \in edges => status[d] \in TerminalStatuses
    /\ status' = [status EXCEPT ![t] = s]
    /\ UNCHANGED edges

Next ==
    \/ \E t \in Tasks, s \in Statuses : Create(t, s) \/ SetStatus(t, s)
    \/ \E f, t \in Tasks : Link(f, t) \/ Unlink(f, t)

Spec == Init /\ [][Next]_<<status, edges>>

=============================================================================
