------------------------------- MODULE MCChat -------------------------------
(* Instances of Chat.                                                      *)
EXTENDS Chat

Says(r, E) == [room : {r}, event : E]
Says1(r, from, bodies) ==
    Says(r, {Event(from, b, {}, NoSession) : b \in bodies})

Old == Event("member", "talk", {"claude"}, NoSession)
Silence == [r \in Rooms |-> <<>>]

(* A page of joins, and a message.                                         *)
History ==
    [Silence EXCEPT !["turtle"] =
        Append([k \in 1..PageSize |-> Event("member", "event", {}, NoSession)],
               Old)]

World(poller, faults, history, senders, says, n) ==
    [poller |-> poller, turtle |-> TRUE, botUser |-> TRUE, faults |-> faults,
     history |-> history, senders |-> senders, says |-> says, posts |-> n]

(* People steer planning sessions, by name and without.                    *)
Planning(faults, bodies, n) ==
    World("turtle", faults, Silence, {},
          Says1("turtle", "member", bodies)
          \cup Says("turtle", {Event("member", "stop", {}, 1)}), n)

(* A roundtable in a room with a history longer than a page.               *)
Roundtable(faults) ==
    World("turtle", faults, History, {},
          Says("turtle", {Event("member", "talk", {}, NoSession),
                          Event("member", "prompt", {}, NoSession)}), 2)

(* The poller of two rooms, and people who may not give commands.          *)
Scrum(faults, n) ==
    World("scrum", faults, Silence, {"member"},
          Says1("project", "member", {"create", "talk"})
          \cup Says1("project", "guest", {"status"})
          \cup Says("turtle", {Old}), n)

(* ... one that has no turtle handler and does not know its own account.   *)
Plain(w) == [w EXCEPT !.turtle = FALSE, !.botUser = FALSE]

(* A message of more than 64 KiB.                                          *)
Large ==
    World("turtle", {"restart"}, Silence, {},
          Says("turtle", {Old, [Old EXCEPT !.large = TRUE],
                          Event("member", "malformed", {}, NoSession)}), 2)

Circumstances ==
    {Planning({}, {"start", "decide", "stop"}, 4),
     Planning({"api"}, {"start", "signal", "prompt"}, 3),
     Roundtable({"sync", "restart"}),
     Roundtable({"agent"}), Scrum({"read", "send"}, 3),
     Plain(Scrum({"api", "restart"}, 2)), Large}

=============================================================================
