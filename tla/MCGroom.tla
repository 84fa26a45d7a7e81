------------------------------- MODULE MCGroom -------------------------------
(* Instances of Groom.                                                     *)
EXTENDS Groom

CONSTANT s1

sized(w, D, estimate, accepted) ==
    [whale |-> w, deps |-> D, estimate |-> estimate, accepted |-> accepted]

morsel(w, D) == sized(w, D, 60, TRUE)

(* A chain that the cap cuts, a cycle, a morsel of a whale that is missing,*)
(* a large morsel that waits for one that nobody has estimated.            *)
Answers == {<<morsel(0, {}), morsel(0, {0, 2}), morsel(0, {})>>,
            <<morsel(0, {1}), morsel(0, {0})>>,
            <<morsel(1, {})>>,
            <<sized(0, {1}, 120, TRUE), sized(0, {}, 0, TRUE)>>}

World(by, crabEnabled, seeds, faults, mutations) ==
    [by |-> by, crabEnabled |-> crabEnabled, seeds |-> seeds,
     faults |-> faults, mutations |-> mutations]

(* Ceremonies and the API without a chief; the groomer with one.           *)
Circumstances ==
    {World("ceremony", FALSE, "ready", {"llm", "close"}, {}),
     World("ceremony", TRUE, "open", {"create"}, {}),
     World("api", FALSE, "open", {"llm", "create", "link"}, {"close"}),
     World("api", FALSE, "open", {"shark"}, {}),
     World("api", FALSE, "open", {"timeout"}, {}),
     World("groom", FALSE, "ready", {"close", "label", "stop"}, {}),
     World("groom", FALSE, "open", {"create", "timeout"}, {}),
     World("groom", FALSE, "open", {"llm"}, {"close", "depend", "create"})}

=============================================================================
