------------------------------- MODULE MCUpkeep -------------------------------
(* Instances of Upkeep.                                                    *)
EXTENDS Upkeep, TLC

CONSTANTS t1, t2

(* Two projects, a task in each.                                           *)
Projects == {"a", "b"}
TaskWorkspace == (t1 :> "a") @@ (t2 :> "b")

World(parts, faults, done, says) ==
    [parts |-> parts, faults |-> faults, tasks |-> done, lessons |-> says]

Worlds ==
    {World({"reviews"}, {}, {}, {}),
     World({"learners"}, {"crash", "slow"}, {t1}, Summaries),
     World({"learners"}, {"overlap", "slow"}, {t1}, Summaries),
     World({"learners"}, {"lookup", "insert", "fail", "llm"}, Tasks, Summaries),
     World({"learners", "janitor"}, {"overlap"}, Tasks, {}),
     World({"learners", "janitor"}, {"git", "stop", "crash"}, Tasks, {})}

=============================================================================
