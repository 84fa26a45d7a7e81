----------------------------- MODULE MCDispatcher -----------------------------
(* Instances of Dispatcher: tasks of two projects, of which t2 depends on  *)
(* t1; and of PostMortems: two executions that fail and the ticks that     *)
(* find them.                                                              *)
EXTENDS Dispatcher, PostMortems, TLC

CONSTANTS t1, t2, t3, t4, w1, w2, w3, p1, p2, e1, e2, i1, i2, k1, m1, m2

Project == [t \in Tasks |-> IF t = t4 THEN p2 ELSE p1]

Chain == {<<t2, t1>>}

Order ==
    [t \in Tasks |-> CASE t = t1 -> 2 [] t = t2 -> 1 [] t = t3 -> 3 [] t = t4 -> 4]

(* Children are not started, time out or fail; or they succeed, and the    *)
(* lists of the tick fail.                                                 *)
Circumstances ==
    {{"start", "agree"}, {"timeout"}, {"plan", "listTasks"}, {"escalate"},
     {"stale", "listPlanning", "listProject"}}

TwoIDs == (e1 :> i1) @@ (e2 :> i2)

(* No ID is a part of another one.                                         *)
Distinct == [w \in WfIDs |-> {w}]

(* Throttled ticks and failing steps; ticks that are never throttled; and  *)
(* markers that may be lost or not found.                                  *)
AllWorlds ==
    {[throttling |-> TRUE, faults |-> {"fetch", "start"}],
     [throttling |-> FALSE, faults |-> {"create"}],
     [throttling |-> FALSE, faults |-> {"marker"}],
     [throttling |-> FALSE, faults |-> {"lookup"}]}

(* The post-mortems share nothing with the rest of the tick, so a          *)
(* behaviour is about the one or the other.  Where children do not succeed *)
(* all tasks are open at first, so that t4, which hibernates and is not    *)
(* groomed, stays out of the way.                                          *)
VARIABLE part

TicksInit ==
    /\ PMInit /\ Init
    /\ \/ /\ part = "dispatch" /\ world = CHOOSE v \in Worlds : TRUE
          /\ "stale" \notin faults => \A t \in Tasks : status[t] = "open"
       \/ /\ part = "postmortems"
          /\ faults = {"timeout"}
          /\ \A t \in Tasks : status[t] = "ready"

TicksNext ==
    \/ part = "dispatch" /\ Next /\ UNCHANGED <<pmVars, part>>
    \/ part = "postmortems" /\ PMNext /\ UNCHANGED <<vars, part>>

Ticks ==
    /\ TicksInit /\ [][TicksNext]_<<vars, pmVars, part>>
    /\ WF_vars(part = "dispatch" /\ TickStep)
    /\ \A w \in Workflows : WF_vars(part = "dispatch" /\ ChildStep(w))

=============================================================================
