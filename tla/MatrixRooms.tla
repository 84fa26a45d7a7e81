---------------------------- MODULE MatrixRooms ----------------------------
(***************************************************************************)
(* The Matrix rooms that CHUM takes part in, as its readers and senders    *)
(* see them (internal/matrix: http_sender.go, openclaw_client.go,          *)
(* openclaw_sender.go and readRoomMessages in turtle_chat.go).             *)
(*                                                                         *)
(* A room is the sequence of its events, and a token or message identifier *)
(* is a position in it.  The homeserver gives the events after a token,    *)
(* oldest first, at most PageSize of them, and the first events of the     *)
(* room when there is no token.  It leaves `end' out when it has no event  *)
(* to give.                                                                *)
(***************************************************************************)
EXTENDS Integers, Sequences, FiniteSetsExt

CONSTANTS
    People,         \* senders that are no accounts of CHUM
    Agents,         \* CLI agents that have a bot account in the room
    PageSize,       \* events of one read (20, or defaultReadLimit)
    MaxSessions,    \* bound: planning sessions
    MaxRestarts,    \* bound: restarts of chum
    Worlds          \* the circumstances a behaviour may have, with a
                    \* bound on the messages of people

VARIABLES
    world,          \* its circumstances, which never change
    room,           \* events of each room
    posts,          \* number of messages people have posted
    token,          \* sinceToken, or Poller.cursors
    pc,             \* of the poller
    turn,           \* room polled next
    batch,          \* messages read and not handled, oldest first
    reply           \* text that the handler is about to send

Rooms == {"turtle", "project"}
NoSession == 0
Sessions == 1..MaxSessions
FaultNames == {"sync", "read", "api", "send", "agent", "restart"}

(* An event: its sender, what its body is for the parsers, the agents it   *)
(* mentions, the session token in it, and whether it is longer than the    *)
(* reader takes.                                                           *)
Event(from, body, mentions, session) ==
    [from |-> from, body |-> body, mentions |-> mentions,
     session |-> session, large |-> FALSE]

Bots == Agents \cup {"spritzbot"}

Commands == {"start", "prompt", "signal", "decide", "stop", "malformed"}
ScrumCommands == {"status", "priority", "cancel", "create", "tiebreak",
                  "usage"}

Events ==
    [from : People \cup Bots,
     body : Commands \cup ScrumCommands \cup {"talk", "event"},
     mentions : SUBSET Agents, session : Nat, large : BOOLEAN]

ASSUME RoomAssumption ==
    /\ IsFiniteSet(Agents) /\ "spritzbot" \notin Agents
    /\ PageSize \in Nat \ {0} /\ MaxSessions \in Nat
    /\ MaxRestarts \in Nat
    /\ \A w \in Worlds : /\ w.poller \in {"turtle", "scrum"}
                         /\ w.turtle \in BOOLEAN /\ w.botUser \in BOOLEAN
                         /\ w.poller = "turtle" => w.turtle
                         /\ w.faults \subseteq FaultNames
                         /\ w.posts \in Nat
                         /\ w.history \in [Rooms -> Seq(Events)]
                         /\ w.says \subseteq [room : Rooms, event : Events]

Faulty(f) == f \in world.faults

(* The token of the next read: `end', next_cursor, or the last message.    *)
(* An empty page has none of them and leaves the token as it was.          *)
nextToken(r) ==
    IF token[r] + PageSize < Len(room[r]) THEN token[r] + PageSize
    ELSE Len(room[r])

(* The page that a read after the token returns, as positions in the room. *)
page(r) == token[r] + 1 .. nextToken(r)

(* readRoomMessages decodes at most 64 KiB of the response, and a cut-off  *)
(* response does not parse.  ReadMessages has no such limit.               *)
decodes(r) == world.poller = "turtle" => \A i \in page(r) : ~room[r][i].large

(* The text messages of the page.                                          *)
messages(r) == {i \in page(r) : room[r][i].body # "event"}

(* SendMessage: the homeserver appends the message.  A failing send may    *)
(* have been delivered, and OpenClawSender sends what failed once more     *)
(* through the command line.                                               *)
sends == {1} \cup (IF Faulty("send") THEN {0} ELSE {})
             \cup (IF Faulty("send") /\ world.poller = "scrum" THEN {2}
                   ELSE {})

SendMessage(r, e) ==
    \E n \in sends : room' = [room EXCEPT ![r] = @ \o [k \in 1..n |-> e]]

=============================================================================
