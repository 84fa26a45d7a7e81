-------------------------------- MODULE Chat --------------------------------
(***************************************************************************)
(* People talk to CHUM in Matrix rooms: the turtle room with its agents    *)
(* and its planning commands (turtle_chat.go, planning_control.go, and the *)
(* HTTP client of cmd/chum/planning_api_client.go), and the project rooms  *)
(* with their scrum commands (poller.go).                                  *)
(*                                                                         *)
(* `world.poller' is "turtle" for RunPoller, which chum starts, and        *)
(* "scrum" for Poller, which polls the project rooms as well and which the *)
(* package offers to other programs.  A poller handles the messages of a   *)
(* page one after the other; agents answer in goroutines of their own.     *)
(***************************************************************************)
EXTENDS MatrixRooms

VARIABLES
    active,         \* activeByRoom of the turtle room
    session,        \* planning workflows
    thinking,       \* agents that are running, and what they answer
    restarts,
    \* History, since chum was started:
    since,          \* length of each room when the poller was ready
    handled,        \* positions handed to a handler, in order
    startedAt, stoppedAt,   \* commands the API confirmed, by session
    signalled       \* signals delivered without a session in the command

roomVars == <<room, posts>>
pollVars == <<token, pc, turn, batch, reply>>
sessionVars == <<active, session, startedAt, stoppedAt, signalled>>
vars == <<world, roomVars, pollVars, sessionVars, thinking, restarts, since,
          handled>>

Init ==
    /\ world \in Worlds
    /\ room = world.history /\ posts = 0
    /\ token = [r \in Rooms |-> 0]
    /\ pc = "down" /\ turn = "turtle" /\ batch = {} /\ reply = "none"
    /\ active = NoSession /\ session = [s \in Sessions |-> "absent"]
    /\ thinking = {} /\ restarts = 0
    /\ since = [r \in Rooms |-> 0] /\ handled = [r \in Rooms |-> <<>>]
    /\ startedAt = [s \in Sessions |-> 0]
    /\ stoppedAt = [s \in Sessions |-> 0]
    /\ signalled = {}

-----------------------------------------------------------------------------
(* People                                                                  *)

Post ==
    /\ posts < world.posts
    /\ \E p \in world.says :
         room' = [room EXCEPT ![p.room] = Append(@, p.event)]
    /\ posts' = posts + 1
    /\ UNCHANGED <<world, pollVars, sessionVars, thinking, restarts, since,
                   handled>>

-----------------------------------------------------------------------------
(* The process                                                             *)

(* chum starts: RunPoller goes to its initial sync, Run to its first poll. *)
Boot ==
    /\ pc = "down"
    /\ pc' = IF world.poller = "turtle" THEN "sync" ELSE "poll"
    /\ turn' = IF world.poller = "turtle" THEN "turtle" ELSE "project"
    /\ since' = [r \in Rooms |-> Len(room[r])]
    /\ UNCHANGED <<world, roomVars, token, batch, reply, sessionVars,
                   thinking, restarts, handled>>

(* chum ends: cursors, active session and agents are in its memory.        *)
Restart ==
    /\ Faulty("restart") /\ pc # "down" /\ restarts < MaxRestarts
    /\ restarts' = restarts + 1
    /\ pc' = "down" /\ token' = [r \in Rooms |-> 0]
    /\ batch' = {} /\ reply' = "none"
    /\ active' = NoSession /\ thinking' = {}
    /\ handled' = [r \in Rooms |-> <<>>]
    /\ startedAt' = [s \in Sessions |-> 0]
    /\ stoppedAt' = [s \in Sessions |-> 0]
    /\ signalled' = {}
    /\ UNCHANGED <<world, roomVars, turn, session, since>>

(* The initial sync of RunPoller: the messages of one page are dropped.    *)
InitialSync ==
    /\ pc = "sync"
    /\ \/ decodes("turtle") /\ token' = [token EXCEPT !["turtle"] =
                                            nextToken("turtle")]
       \/ (Faulty("sync") \/ ~decodes("turtle")) /\ UNCHANGED token
    /\ pc' = "poll" /\ since' = [r \in Rooms |-> Len(room[r])]
    /\ UNCHANGED <<world, roomVars, turn, batch, reply, sessionVars,
                   thinking, restarts, handled>>

-----------------------------------------------------------------------------
(* Polling                                                                 *)

IsTurtleBot(e) == e.from \in Agents

(* Senders whose messages are skipped: by RunPoller the accounts of CHUM,  *)
(* by Poller the agents if it has a turtle handler, and the one account    *)
(* that it was told.                                                       *)
isOwnMessage(e) ==
    \/ world.turtle /\ IsTurtleBot(e)
    \/ (world.poller = "turtle" \/ world.botUser) /\ e.from = "spritzbot"

(* The rooms of PollOnce, in order; RunPoller has one.                     *)
nextRoom ==
    IF world.poller = "scrum" /\ turn = "project" THEN "turtle"
    ELSE IF world.poller = "scrum" THEN "project"
    ELSE "turtle"

(* Mutant of advanced: the token stays.                                    *)
notAdvanced(r) == token

(* Mutant of advanced: the token goes to the end of the room.              *)
advancedToEnd(r) == [token EXCEPT ![r] = Len(room[r])]

(* The token moves before the messages of the page are handled.            *)
advanced(r) == [token EXCEPT ![r] = nextToken(r)]

Poll ==
    /\ pc = "poll" /\ decodes(turn)
    /\ token' = advanced(turn)
    /\ batch' = {i \in messages(turn) : ~isOwnMessage(room[turn][i])}
    /\ IF batch' = {} THEN turn' = nextRoom /\ UNCHANGED pc
       ELSE pc' = "handle" /\ UNCHANGED turn
    /\ UNCHANGED <<world, roomVars, reply, sessionVars, thinking, restarts,
                   since, handled>>

(* A read fails: the poller goes on to the next room, and RunPoller tries  *)
(* the same page again.                                                    *)
PollFails ==
    /\ pc = "poll"
    /\ Faulty("read") \/ ~decodes(turn)
    /\ turn' = nextRoom
    /\ UNCHANGED <<world, roomVars, token, pc, batch, reply, sessionVars,
                   thinking, restarts, since, handled>>

(* The message at hand, and what taking it does: Poller moves its cursor   *)
(* back to it.                                                             *)
at == Min(batch)
msg == room[turn][at]

Take ==
    /\ pc = "handle" /\ batch # {}
    /\ handled' = [handled EXCEPT ![turn] = Append(@, at)]
    /\ batch' = batch \ {at}
    /\ token' = IF world.poller = "scrum"
                THEN [token EXCEPT ![turn] = at] ELSE token
    /\ UNCHANGED <<world, posts, turn, restarts, since>>

(* Does the message go to the turtle handler?                              *)
IsTurtleRoom == turn = "turtle" /\ world.turtle

PageDone ==
    /\ pc = "handle" /\ batch = {}
    /\ pc' = "poll" /\ turn' = nextRoom
    /\ UNCHANGED <<world, roomVars, token, batch, reply, sessionVars,
                   thinking, restarts, since, handled>>

(* The handler ends with a text for the room, or without one.              *)
Answers(text) == pc' = "reply" /\ reply' = text
Silent == UNCHANGED <<pc, reply>>

(* sendControlMessage and sendScrumResponse.  Texts about a failure or the *)
(* usage start with the word that makes a planning command.                *)
Reply ==
    /\ pc = "reply"
    /\ SendMessage(turn, Event("spritzbot",
           IF reply = "failed" THEN "malformed" ELSE "talk", {}, NoSession))
    /\ pc' = "handle" /\ reply' = "none"
    /\ UNCHANGED <<world, posts, token, turn, batch, sessionVars, thinking,
                   restarts, since, handled>>

-----------------------------------------------------------------------------
(* Planning commands of the turtle room.  (The updates that the bridge     *)
(* sends to another room have no effect on this one.)                      *)

running(s) == s \in Sessions /\ session[s] = "running"

resolvePlanningSession(e) ==
    IF e.session # NoSession THEN e.session ELSE active

(* How a call of the planning API may end.  It times out with its effect   *)
(* done, or fails before it has one.                                       *)
calls == {"ok"} \cup (IF Faulty("api") THEN {"late", "failed"} ELSE {})

fresh == {s \in Sessions : session[s] = "absent"}

(* Mutant of setActivePlanningSession: a room keeps the session it has.    *)
setFirstPlanningSession(s) == IF active = NoSession THEN s ELSE active

setActivePlanningSession(s) == s

clearActivePlanningSession(s) == IF active = s THEN NoSession ELSE active

startCommand ==
    /\ msg.body = "start"
    /\ LET s == Min(fresh) IN
       \E c \in IF fresh = {} THEN {"failed"} ELSE calls :
         /\ session' = IF c = "failed" THEN session
                       ELSE [session EXCEPT ![s] = "running"]
         /\ IF c = "ok"
            THEN /\ active' = setActivePlanningSession(s)
                 /\ startedAt' = [startedAt EXCEPT ![s] = at]
                 /\ Answers("ok")
            ELSE Answers("failed") /\ UNCHANGED <<active, startedAt>>
    /\ UNCHANGED <<stoppedAt, signalled>>

(* select and answer, and go and realign.                                  *)
signalCommand ==
    /\ msg.body \in {"signal", "decide"}
    /\ LET s == resolvePlanningSession(msg) IN
       \E c \in IF running(s) THEN calls ELSE {"failed"} :
         /\ signalled' = IF c # "failed" /\ msg.session = NoSession
                         THEN signalled \cup {<<at, s>>}
                         ELSE signalled
         /\ Answers(IF c = "ok" THEN "ok" ELSE "failed")
    /\ UNCHANGED <<active, session, startedAt, stoppedAt>>

stopCommand ==
    /\ msg.body = "stop"
    /\ LET s == resolvePlanningSession(msg) IN
       \E c \in IF running(s) THEN calls ELSE {"failed"} :
         /\ session' = IF c = "failed" THEN session
                       ELSE [session EXCEPT ![s] = "stopped"]
         /\ IF c = "ok"
            THEN /\ active' = clearActivePlanningSession(s)
                 /\ stoppedAt' = [stoppedAt EXCEPT ![s] = at]
                 /\ Answers("ok")
            ELSE Answers("failed") /\ UNCHANGED <<active, stoppedAt>>
    /\ UNCHANGED <<startedAt, signalled>>

(* help, prompt, status and what does not parse only have an answer.       *)
readCommand ==
    /\ msg.body \in {"prompt", "malformed"}
    /\ \/ /\ msg.body = "prompt" /\ resolvePlanningSession(msg) # NoSession
          /\ Answers("ok")
       \/ Answers("failed")
    /\ UNCHANGED sessionVars

handlePlanningCommand ==
    /\ IsTurtleRoom /\ Take
    /\ startCommand \/ signalCommand \/ stopCommand \/ readCommand
    /\ UNCHANGED <<room, thinking>>

(* A planning workflow ends by itself.                                     *)
SessionEnds(s) ==
    /\ running(s)
    /\ session' = [session EXCEPT ![s] = "over"]
    /\ UNCHANGED <<world, roomVars, pollVars, active, startedAt,
                   stoppedAt, signalled, thinking, restarts, since, handled>>

-----------------------------------------------------------------------------
(* The roundtable                                                          *)

detectMentions(e) == IF e.mentions = {} THEN Agents ELSE e.mentions

(* Handle: what is no planning command goes to the agents.                 *)
Handle ==
    /\ IsTurtleRoom /\ Take
    /\ msg.body \notin Commands
    /\ thinking' = thinking
           \cup {<<a, at>> : a \in detectMentions(msg)}
    /\ Silent
    /\ UNCHANGED <<room, sessionVars>>

(* The agent is done, has failed or has run for three minutes.             *)
runAndRespond(a, i) ==
    /\ <<a, i>> \in thinking
    /\ thinking' = thinking \ {<<a, i>>}
    /\ \/ SendMessage("turtle", Event(a, "talk", {}, NoSession))
       \/ Faulty("agent") /\ UNCHANGED room
    /\ UNCHANGED <<world, posts, pollVars, sessionVars, restarts, since,
                   handled>>

-----------------------------------------------------------------------------
(* Project rooms                                                           *)

isAllowedCommandSender(e) ==
    world.senders = {} \/ e.from \in world.senders

(* Scrum commands.  Their effects on tasks, dispatches and workflows are   *)
(* not seen in the room.                                                   *)
handleScrumCommand ==
    /\ ~IsTurtleRoom /\ Take
    /\ msg.body \in ScrumCommands
    /\ \/ /\ isAllowedCommandSender(msg) /\ msg.body # "usage"
          /\ Answers("ok")
       \/ /\ ~isAllowedCommandSender(msg) \/ msg.body = "usage" \/ Faulty("api")
          /\ Answers("failed")
    /\ UNCHANGED <<room, sessionVars, thinking>>

(* routeMessage: the project's scrum agent is sent for, or else the main   *)
(* agent; neither answers here.                                            *)
routeMessage ==
    /\ ~IsTurtleRoom /\ Take
    /\ msg.body \notin ScrumCommands
    /\ Silent
    /\ UNCHANGED <<room, sessionVars, thinking>>

-----------------------------------------------------------------------------
Handler ==
    \/ handlePlanningCommand \/ Handle \/ handleScrumCommand \/ routeMessage

Next ==
    \/ Post \/ Boot \/ Restart \/ PollFails
    \/ InitialSync \/ Poll \/ PageDone \/ Reply
    \/ handlePlanningCommand \/ Handle
    \/ handleScrumCommand \/ routeMessage
    \/ \E s \in Sessions : SessionEnds(s)
    \/ \E t \in thinking : runAndRespond(t[1], t[2])

Spec == Init /\ [][Next]_vars

(* chum is started again, its poller goes on, and the reads of a room do   *)
(* not fail for ever.                                                      *)
FairSpec ==
    /\ Spec
    /\ WF_vars(Boot \/ InitialSync \/ PageDone \/ Reply \/ Handler)
    /\ \A r \in Rooms : SF_vars(Poll /\ turn = r)

-----------------------------------------------------------------------------
(* Every message is handed to a handler once, in the order of the room:    *)
(* the poller moves its token before and its cursor while it handles the   *)
(* messages of a page, and other messages arrive meanwhile.                *)
HandledOnceInOrder ==
    \A r \in Rooms : \A k \in 2..Len(handled[r]) :
        handled[r][k - 1] < handled[r][k]

(* An answer without a session goes to the session that the room started   *)
(* last before it and has not stopped, whatever was typed ahead, stopped by*)
(* name, or lost by the API (activeByRoom, resolvePlanningSession).        *)
SignalsFollowTheRoom ==
    \A d \in signalled :
        LET before(s) == startedAt[s] # 0 /\ startedAt[s] < d[1] IN
        /\ before(d[2])
        /\ stoppedAt[d[2]] = 0 \/ d[1] < stoppedAt[d[2]]
        /\ \A s \in Sessions : before(s) => startedAt[s] =< startedAt[d[2]]

(* What people post once the poller is ready reaches a handler, however    *)
(* many pages, failed reads and answers of agents there are, unless chum   *)
(* ends first or a message is longer than the reader takes.                *)
Waiting(r, i) ==
    /\ pc \notin {"down", "sync"} /\ i \in since[r] + 1..Len(room[r])
    /\ room[r][i].from \notin Bots /\ room[r][i].body # "event"
    /\ r = "turtle" \/ world.poller = "scrum"
    /\ \A k \in 1..Len(room[r]) : ~room[r][k].large
    /\ \A k \in 1..Len(handled[r]) : handled[r][k] # i

EveryMessageIsHandled ==
    <>[](\A r \in Rooms : \A i \in 1..Len(room[r]) : ~Waiting(r, i))

=============================================================================
