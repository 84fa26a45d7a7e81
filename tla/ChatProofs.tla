----------------------------- MODULE ChatProofs -----------------------------
(***************************************************************************)
(* Theorems about the pollers and the planning commands of a room, for     *)
(* every page size, number of agents, sessions, restarts and messages, and *)
(* for both pollers.                                                       *)
(***************************************************************************)
EXTENDS Chat, SequenceTheorems, WellFoundedInduction, TLAPS

(* Positions have a least one.                                             *)
LEMMA LeastPosition ==
    ASSUME NEW S \in SUBSET Nat, S # {}
    PROVE  Min(S) \in S /\ \A i \in S : Min(S) <= i
<1> DEFINE R == {ss \in Nat \X Nat : ss[1] < ss[2]}
<1>1. IsWellFoundedOn(R, Nat)
  BY NatLessThanWellFounded DEF OpToRel
<1>2. \A i, j \in Nat : <<i, j>> \in R <=> i < j
  OBVIOUS
<1> HIDE DEF R
<1>3. PICK x \in S : \A y \in S : <<y, x>> \notin R
  BY <1>1, WFMin, Zenon
<1>4. ASSUME NEW y \in S
      PROVE  x =< y
  <2>1. x \in Nat /\ y \in Nat
    OBVIOUS
  <2>2. ~(y < x)
    BY <1>2, <1>3, <2>1
  <2> QED BY <2>1, <2>2
<1>5. \E z \in S : \A y \in S : z =< y
  BY <1>4
<1> QED BY <1>5, Zenon DEF Min

(* What is appended to a room.                                             *)
LEMMA Appended ==
    ASSUME NEW s \in Seq(Events), NEW n \in Nat, NEW e \in Events
    PROVE  /\ s \o [k \in 1..n |-> e] \in Seq(Events)
           /\ Len(s) <= Len(s \o [k \in 1..n |-> e])
           /\ \A i \in 1..Len(s) : (s \o [k \in 1..n |-> e])[i] = s[i]
<1>1. [k \in 1..n |-> e] \in Seq(Events) /\ Len([k \in 1..n |-> e]) = n
  OBVIOUS
<1> DEFINE t == [k \in 1..n |-> e]
<1> HIDE DEF t
<1>2. /\ s \o t \in Seq(Events) /\ Len(s \o t) = Len(s) + Len(t)
      /\ \A i \in 1..Len(s) + Len(t) : (s \o t)[i] =
            IF i <= Len(s) THEN s[i] ELSE t[i - Len(s)]
  BY <1>1, ConcatProperties DEF t
<1>3. Len(s) \in Nat /\ Len(t) = n
  BY <1>1 DEF t
<1> QED BY <1>2, <1>3 DEF t

-----------------------------------------------------------------------------
(* The rooms and the poller: a token is a position, and what is read and   *)
(* not handled is in the room, before the token in RunPoller.              *)
PollInv ==
    /\ world \in Worlds
    /\ room \in [Rooms -> Seq(Events)]
    /\ token \in [Rooms -> Nat]
    /\ \A r \in Rooms : token[r] <= Len(room[r])
    /\ turn \in Rooms
    /\ thinking \subseteq Agents \X Nat
    /\ batch \subseteq 1..Len(room[turn])
    /\ world.poller # "scrum" => \A i \in batch : i <= token[turn]
    /\ batch # {} => pc \in {"handle", "reply"}

(* A position of room r that the poller has left behind.                   *)
past(r, i) == i \in 1..token[r] /\ (turn = r => \A j \in batch : i < j)

(* Messages arrive, and the poller does not notice.                        *)
Grown ==
    /\ room' \in [Rooms -> Seq(Events)]
    /\ \A r \in Rooms : /\ Len(room[r]) <= Len(room'[r])
                        /\ \A i \in 1..Len(room[r]) : room'[r][i] = room[r][i]
    /\ thinking' \subseteq thinking
    /\ pc' \in {pc, "handle"}
    /\ UNCHANGED <<world, token, turn, batch, handled>>

(* The poller reads or goes on to the next room, with nothing to handle.   *)
Turned ==
    /\ batch = {} /\ turn' \in Rooms
    /\ token' \in [Rooms -> Nat]
    /\ \A r \in Rooms : token[r] <= token'[r] /\ token'[r] <= Len(room[r])
    /\ \A i \in batch' : i \in token[turn'] + 1 .. token'[turn']
    /\ batch' # {} => pc' = "handle"
    /\ UNCHANGED <<world, room, thinking, handled>>

(* A message is taken.                                                     *)
Taken ==
    /\ Take
    /\ UNCHANGED room
    /\ thinking' \subseteq Agents \X Nat
    /\ pc' \in {"handle", "reply"}

(* chum has ended.                                                         *)
Ended ==
    /\ Restart
    /\ batch' = {} /\ token' = [r \in Rooms |-> 0] /\ thinking' = {}
    /\ handled' = [r \in Rooms |-> <<>>]
    /\ UNCHANGED <<world, room, turn>>

(* A sent message arrives once, twice or never.                            *)
LEMMA SentMessage ==
    ASSUME PollInv, NEW r \in Rooms, NEW e \in Events, SendMessage(r, e)
    PROVE  /\ room' \in [Rooms -> Seq(Events)]
           /\ \A q \in Rooms :
                /\ Len(room[q]) <= Len(room'[q])
                /\ \A i \in 1..Len(room[q]) : room'[q][i] = room[q][i]
<1>1. PICK n \in {0, 1, 2} :
         room' = [room EXCEPT ![r] = room[r] \o [k \in 1..n |-> e]]
  BY DEF SendMessage, sends
<1> DEFINE t == room[r] \o [k \in 1..n |-> e]
<1>2. room[r] \in Seq(Events) /\ n \in Nat
  BY DEF PollInv
<1>3. /\ t \in Seq(Events) /\ Len(room[r]) <= Len(t)
      /\ \A i \in 1..Len(room[r]) : t[i] = room[r][i]
  BY <1>2, Appended
<1>4. \A q \in Rooms : Len(room[q]) \in Nat
  BY DEF PollInv
<1>5. room' = [room EXCEPT ![r] = t]
  BY <1>1
<1> HIDE DEF t
<1> QED BY <1>3, <1>4, <1>5 DEF PollInv

(* An answer of CHUM, or a message of a person, is an event.               *)
LEMMA EventIsEvent ==
    ASSUME NEW from \in Bots, NEW body \in {"talk", "malformed"}
    PROVE  Event(from, body, {}, NoSession) \in Events
<1>1. /\ from \in People \cup Bots
      /\ body \in Commands \cup ScrumCommands \cup {"talk", "event"}
  BY DEF Commands
<1>2. {} \in SUBSET Agents /\ 0 \in Nat /\ FALSE \in BOOLEAN
  OBVIOUS
<1> QED BY <1>1, <1>2 DEF Event, Events, NoSession

(* Every step is one of these for the poller, and the commands of the room *)
(* are changed only by taking a message of the turtle room, by a session   *)
(* that ends and with the process.                                         *)
LEMMA PollKinds ==
    ASSUME PollInv, [Next]_vars
    PROVE  Grown \/ Turned \/ Taken \/ Ended
<1>0. \A r \in Rooms : Len(room[r]) \in Nat
  BY DEF PollInv
<1>q. UNCHANGED <<room, thinking, pc, world, token, turn, batch, handled>> => Grown
  BY <1>0 DEF Grown, PollInv
<1>1. CASE UNCHANGED vars \/ \E s \in Sessions : SessionEnds(s)
  BY <1>1, <1>q DEF vars, roomVars, pollVars, SessionEnds
<1>2. CASE Post
  <2>1. PICK p \in world.says : room' = [room EXCEPT ![p.room] = Append(@, p.event)]
    BY <1>2 DEF Post
  <2>2. p.room \in Rooms /\ p.event \in Events
    BY RoomAssumption DEF PollInv
  <2> DEFINE t == Append(room[p.room], p.event)
  <2>3. room[p.room] \in Seq(Events)
    BY <2>2 DEF PollInv
  <2>4. /\ t \in Seq(Events) /\ Len(room[p.room]) <= Len(t)
        /\ \A i \in 1..Len(room[p.room]) : t[i] = room[p.room][i]
    BY <2>2, <2>3, AppendProperties
  <2>5. room' = [room EXCEPT ![p.room] = t]
    BY <2>1
  <2> HIDE DEF t
  <2>6. UNCHANGED <<thinking, pc, world, token, turn, batch, handled>>
    BY <1>2 DEF Post, pollVars
  <2>7. /\ room' \in [Rooms -> Seq(Events)]
        /\ \A r \in Rooms : /\ Len(room[r]) <= Len(room'[r])
                            /\ \A i \in 1..Len(room[r]) : room'[r][i] = room[r][i]
    BY <1>0, <2>2, <2>4, <2>5 DEF PollInv
  <2> QED BY <2>6, <2>7 DEF Grown
<1>3. CASE Boot
  <2>1. batch = {}
    BY <1>3 DEF Boot, PollInv
  <2> QED BY <1>3, <2>1 DEF Boot, Turned, PollInv, roomVars, Rooms
<1>4. CASE Restart
  BY <1>4 DEF Restart, Ended, roomVars
<1>5. CASE InitialSync
  <2>1. batch = {} /\ "turtle" \in Rooms
    BY <1>5 DEF InitialSync, PollInv, Rooms
  <2>2. /\ nextToken("turtle") \in Nat /\ token["turtle"] <= nextToken("turtle")
        /\ nextToken("turtle") <= Len(room["turtle"])
    BY <1>0, <2>1, RoomAssumption DEF nextToken, PollInv
  <2>3. /\ token' = [token EXCEPT !["turtle"] = nextToken("turtle")] \/ UNCHANGED token
        /\ UNCHANGED <<batch, turn, world, room, thinking, handled>>
    BY <1>5 DEF InitialSync, roomVars
  <2> HIDE DEF nextToken
  <2> QED BY <1>0, <2>1, <2>2, <2>3 DEF Turned, PollInv
<1>6. CASE Poll
  <2>1. batch = {} /\ turn \in Rooms /\ nextRoom \in Rooms
    BY <1>6 DEF Poll, PollInv, nextRoom, Rooms
  <2>2. /\ nextToken(turn) \in Nat /\ token[turn] <= nextToken(turn)
        /\ nextToken(turn) <= Len(room[turn])
    BY <1>0, <2>1, RoomAssumption DEF nextToken, PollInv
  <2>3. /\ token' = [token EXCEPT ![turn] = nextToken(turn)]
        /\ \A i \in batch' : i \in token[turn] + 1 .. nextToken(turn)
        /\ \/ batch' = {} /\ turn' = nextRoom
           \/ pc' = "handle" /\ turn' = turn
        /\ UNCHANGED <<world, room, thinking, handled>>
    BY <1>6 DEF Poll, advanced, messages, page, roomVars
  <2> HIDE DEF nextToken, nextRoom
  <2> QED BY <1>0, <2>1, <2>2, <2>3 DEF Turned, PollInv
<1>7. CASE PollFails \/ PageDone
  <2>1. batch = {} /\ nextRoom \in Rooms
    BY <1>7 DEF PollFails, PageDone, PollInv, nextRoom, Rooms
  <2> QED BY <1>7, <2>1 DEF PollFails, PageDone, Turned, PollInv, roomVars
<1>8. CASE Reply
  <2>1. PICK body \in {"talk", "malformed"} :
          SendMessage(turn, Event("spritzbot", body, {}, NoSession))
    BY <1>8 DEF Reply
  <2>2. Event("spritzbot", body, {}, NoSession) \in Events
    BY EventIsEvent DEF Bots
  <2>3. turn \in Rooms
    BY DEF PollInv
  <2>4. /\ thinking' = thinking /\ pc' = "handle"
        /\ UNCHANGED <<world, token, turn, batch, handled>>
    BY <1>8 DEF Reply
  <2> QED BY <2>1, <2>2, <2>3, <2>4, SentMessage DEF Grown
<1>9. ASSUME NEW t \in thinking, runAndRespond(t[1], t[2])
      PROVE  Grown
  <2>1. t[1] \in Bots /\ "turtle" \in Rooms
    BY DEF PollInv, Bots, Rooms
  <2>2. Event(t[1], "talk", {}, NoSession) \in Events
    BY <2>1, EventIsEvent
  <2>3. /\ thinking' \subseteq thinking
        /\ UNCHANGED <<pc, world, token, turn, batch, handled>>
    BY <1>9 DEF runAndRespond, pollVars
  <2>4. CASE UNCHANGED room
    BY <1>0, <2>3, <2>4 DEF Grown, PollInv
  <2>5. CASE SendMessage("turtle", Event(t[1], "talk", {}, NoSession))
    BY <2>1, <2>2, <2>3, <2>5, SentMessage DEF Grown
  <2> QED BY <1>9, <2>4, <2>5 DEF runAndRespond
<1>10. CASE handlePlanningCommand
  BY <1>10 DEF handlePlanningCommand, Taken, Take, startCommand, signalCommand,
     stopCommand, readCommand, Answers, PollInv
<1>11. CASE Handle
  <2>1. batch # {} /\ batch \in SUBSET Nat /\ turn \in Rooms
    BY <1>11 DEF Handle, Take, PollInv
  <2>2. at \in batch
    BY <2>1, LeastPosition DEF at
  <2>3. msg \in Events
    BY <2>1, <2>2 DEF msg, PollInv
  <2>4. detectMentions(msg) \subseteq Agents /\ at \in Nat
    BY <2>1, <2>2, <2>3 DEF detectMentions, Events
  <2>5. thinking' \subseteq Agents \X Nat
    BY <1>11, <2>4 DEF Handle, PollInv
  <2> QED BY <1>11, <2>5 DEF Handle, Taken, Take, Silent
<1>12. CASE handleScrumCommand \/ routeMessage
  BY <1>12 DEF handleScrumCommand, routeMessage, Taken, Take, Answers, Silent,
     PollInv
<1> QED
  BY <1>1, <1>2, <1>3, <1>4, <1>5, <1>6, <1>7, <1>8, <1>9, <1>10, <1>11, <1>12
  DEF Next

(* The message at hand.                                                    *)
LEMMA AtHand ==
    ASSUME PollInv, Take
    PROVE  /\ at \in batch /\ at \in Nat \ {0} /\ at <= Len(room[turn])
           /\ \A j \in batch : at <= j /\ j \in Nat
           /\ turn \in Rooms /\ turn' = turn /\ batch' = batch \ {at}
           /\ token' = IF world.poller = "scrum"
                       THEN [token EXCEPT ![turn] = at] ELSE token
<1>1. batch # {} /\ batch \in SUBSET Nat
  BY DEF Take, PollInv
<1>2. at \in batch /\ \A j \in batch : at <= j
  BY <1>1, LeastPosition DEF at
<1> QED BY <1>2 DEF Take, PollInv

(* The poller's invariant holds in every reachable state.                  *)
LEMMA PollCorrect == Spec => []PollInv
<1>1. ASSUME Init
      PROVE  PollInv
  <2>1. world \in Worlds /\ room = world.history
    BY <1>1 DEF Init
  <2>2. room \in [Rooms -> Seq(Events)]
    BY <2>1, RoomAssumption
  <2>3. \A r \in Rooms : Len(room[r]) \in Nat
    BY <2>2
  <2>4. /\ token = [r \in Rooms |-> 0] /\ turn \in Rooms
        /\ batch = {} /\ thinking = {}
    BY <1>1 DEF Init, Rooms
  <2> QED BY <2>1, <2>2, <2>3, <2>4 DEF PollInv
<1>2. ASSUME PollInv, [Next]_vars
      PROVE  PollInv'
  <2>0. \A r \in Rooms : Len(room[r]) \in Nat
    BY <1>2 DEF PollInv
  <2>1. CASE Grown
    <3>1. \A r \in Rooms : Len(room'[r]) \in Nat
      BY <2>1 DEF Grown
    <3>2. \A r \in Rooms : token'[r] <= Len(room'[r])
      BY <1>2, <2>0, <2>1, <3>1 DEF Grown, PollInv
    <3>3. batch' \subseteq 1..Len(room'[turn'])
      BY <1>2, <2>0, <2>1, <3>1 DEF Grown, PollInv
    <3>4. batch' # {} => pc' \in {"handle", "reply"}
      BY <1>2, <2>1 DEF Grown, PollInv
    <3> QED BY <1>2, <2>1, <3>2, <3>3, <3>4 DEF Grown, PollInv
  <2>2. CASE Turned
    BY <1>2, <2>0, <2>2 DEF Turned, PollInv
  <2>3. CASE Taken
    <3>1. Take
      BY <2>3 DEF Taken
    <3>2. /\ at \in batch /\ at \in Nat \ {0} /\ at <= Len(room[turn])
          /\ turn \in Rooms /\ turn' = turn /\ batch' = batch \ {at}
          /\ token' = IF world.poller = "scrum"
                      THEN [token EXCEPT ![turn] = at] ELSE token
      BY <1>2, <3>1, AtHand
    <3>3. /\ world' = world /\ room' = room /\ thinking' \subseteq Agents \X Nat
          /\ pc' \in {"handle", "reply"}
      BY <2>3, <3>1 DEF Taken, Take
    <3>4. /\ token' \in [Rooms -> Nat]
          /\ \A r \in Rooms : token'[r] <= Len(room[r])
      BY <1>2, <2>0, <3>2 DEF PollInv
    <3>5. world.poller # "scrum" => token' = token
      BY <3>2
    <3> HIDE DEF at
    <3> QED BY <1>2, <3>2, <3>3, <3>4, <3>5 DEF PollInv
  <2>4. CASE Ended
    BY <1>2, <2>0, <2>4 DEF Ended, PollInv
  <2> QED BY <1>2, <2>1, <2>2, <2>3, <2>4, PollKinds
<1>3. PollInv /\ [Next]_vars => PollInv'
  BY <1>2
<1> QED BY <1>1, <1>3, PTL DEF Spec

(* What is past stays past until chum ends, and a taken message is.        *)
LEMMA PastStays ==
    ASSUME PollInv, Grown \/ Turned \/ Taken, NEW r \in Rooms, NEW i, past(r, i)
    PROVE  past(r, i)'
<1>0. i \in Nat /\ i \in 1..token[r] /\ token[r] \in Nat
  BY DEF past, PollInv
<1>1. CASE Grown
  BY <1>1 DEF Grown, past
<1>2. CASE Turned
  <2>1. token[r] <= token'[r] /\ token'[r] \in Nat
    BY <1>2 DEF Turned
  <2>2. turn' = r => \A j \in batch' : i < j
    BY <1>0, <1>2 DEF Turned
  <2> QED BY <1>0, <2>1, <2>2 DEF past
<1>3. CASE Taken
  <2>1. Take
    BY <1>3 DEF Taken
  <2>2. /\ at \in batch /\ at \in Nat
        /\ turn' = turn /\ batch' = batch \ {at}
        /\ token' = IF world.poller = "scrum"
                    THEN [token EXCEPT ![turn] = at] ELSE token
    BY <2>1, AtHand
  <2>3. turn = r => i < at
    BY <2>2 DEF past
  <2>4. i \in 1..token'[r]
    BY <1>0, <2>2, <2>3 DEF PollInv
  <2> QED BY <2>2, <2>4 DEF past
<1> QED BY <1>1, <1>2, <1>3

LEMMA TakenIsPast ==
    ASSUME PollInv, Taken, NEW r, r = turn, NEW i, i = at
    PROVE  past(r, i)'
<1>1. Take
  BY DEF Taken
<1>2. /\ i \in batch /\ i \in Nat \ {0} /\ \A j \in batch : i <= j /\ j \in Nat
      /\ r \in Rooms /\ turn' = r /\ batch' = batch \ {i}
      /\ token' = IF world.poller = "scrum" THEN [token EXCEPT ![r] = i] ELSE token
  BY <1>1, AtHand
<1>3. i \in 1..token'[r]
  BY <1>2 DEF PollInv
<1>4. \A j \in batch' : i < j
  BY <1>2
<1> QED BY <1>3, <1>4 DEF past

-----------------------------------------------------------------------------
(* What was handled is past, and in order.                                 *)
HandledInv ==
    /\ handled \in [Rooms -> Seq(Nat)]
    /\ \A r \in Rooms : \A k \in 1..Len(handled[r]) : past(r, handled[r][k])
    /\ HandledOnceInOrder

(* Every step keeps the order.                                             *)
LEMMA HandledStep ==
    ASSUME PollInv, HandledInv, [Next]_vars
    PROVE  HandledInv'
<1>1. CASE Grown \/ Turned
  <2>1. handled' = handled
    BY <1>1 DEF Grown, Turned
  <2>2. ASSUME NEW r \in Rooms, NEW k \in 1..Len(handled[r])
        PROVE  past(r, handled[r][k])'
    <3>1. PICK i \in Nat : i = handled[r][k]
      BY DEF HandledInv
    <3>2. past(r, i)
      BY <3>1 DEF HandledInv
    <3>3. past(r, i)'
      BY <1>1, <3>2, PastStays
    <3> QED BY <2>1, <3>1, <3>2, <3>3 DEF past
  <2> QED BY <2>1, <2>2 DEF HandledInv, HandledOnceInOrder
<1>2. CASE Taken
  <2>1. Take
    BY <1>2 DEF Taken
  <2>2. PICK a \in Nat : a = at
    BY <2>1, AtHand
  <2>3. PICK q \in Rooms : q = turn
    BY DEF PollInv
  <2>4. handled' = [handled EXCEPT ![q] = Append(handled[q], a)]
    BY <2>1, <2>2, <2>3 DEF Take
  <2>5. a \in batch /\ room' = room /\ past(q, a)'
    BY <1>2, <2>1, <2>2, <2>3, AtHand, TakenIsPast DEF Taken
  <2> DEFINE t == Append(handled[q], a)
  <2>6. /\ t \in Seq(Nat) /\ Len(t) = Len(handled[q]) + 1 /\ t[Len(t)] = a
        /\ \A k \in 1..Len(handled[q]) : t[k] = handled[q][k]
    BY AppendProperties DEF HandledInv
  <2>7. handled' \in [Rooms -> Seq(Nat)] /\ handled'[q] = t
        /\ \A r \in Rooms \ {q} : handled'[r] = handled[r]
    BY <2>4, <2>6 DEF HandledInv
  <2> HIDE DEF t
  <2>8. ASSUME NEW r \in Rooms, NEW k \in 1..Len(handled[r]), NEW i,
               i = handled[r][k]
        PROVE  past(r, i) /\ past(r, i)'
    <3>1. past(r, i)
      BY <2>8 DEF HandledInv
    <3> QED BY <1>2, <2>5, <3>1, PastStays
  <2>9. ASSUME NEW r \in Rooms, NEW k \in 1..Len(handled'[r]), NEW i,
               i = handled'[r][k]
        PROVE  past(r, i)'
    <3>1. CASE r # q \/ k <= Len(handled[q])
      <4>1. k \in 1..Len(handled[r]) /\ i = handled[r][k]
        BY <2>6, <2>7, <2>9, <3>1 DEF HandledInv
      <4> QED BY <2>8, <4>1
    <3>2. CASE r = q /\ ~(k <= Len(handled[q]))
      <4>1. k = Len(t) /\ i = a
        BY <2>6, <2>7, <2>9, <3>2 DEF HandledInv
      <4> QED BY <2>5, <3>2, <4>1
    <3> QED BY <3>1, <3>2
  <2>10. ASSUME NEW r \in Rooms, NEW k \in 2..Len(handled'[r])
         PROVE  handled'[r][k - 1] < handled'[r][k]
    <3>0. Len(handled[r]) \in Nat /\ Len(handled[q]) \in Nat
      BY DEF HandledInv
    <3>1. CASE r # q \/ k <= Len(handled[q])
      <4>1. k \in 2..Len(handled[r]) /\ handled'[r][k] = handled[r][k]
        BY <2>6, <2>7, <2>10, <3>0, <3>1
      <4>2. handled'[r][k - 1] = handled[r][k - 1]
        BY <2>6, <2>7, <2>10, <3>0, <3>1
      <4> QED BY <4>1, <4>2 DEF HandledInv, HandledOnceInOrder
    <3>2. CASE r = q /\ ~(k <= Len(handled[q]))
      <4>1. k = Len(t) /\ handled'[r][k] = a
        BY <2>6, <2>7, <2>10, <3>0, <3>2
      <4>2. k - 1 \in 1..Len(handled[q])
        BY <2>6, <2>10, <3>0, <4>1
      <4>3. handled'[r][k - 1] = handled[q][k - 1]
        BY <2>6, <2>7, <3>2, <4>2
      <4>4. past(q, handled[q][k - 1])
        BY <4>2 DEF HandledInv
      <4>5. handled[q][k - 1] < a
        BY <2>3, <2>5, <4>4 DEF past
      <4> QED BY <4>1, <4>3, <4>5
    <3> QED BY <3>1, <3>2
  <2>11. HandledOnceInOrder'
    BY <2>10 DEF HandledOnceInOrder
  <2>12. \A r \in Rooms : \A k \in 1..Len(handled'[r]) : past(r, handled[r][k])'
    BY <2>9 DEF past
  <2> QED BY <2>7, <2>11, <2>12 DEF HandledInv
<1>3. CASE Ended
  <2>1. handled' = [r \in Rooms |-> <<>>]
    BY <1>3 DEF Ended
  <2>2. \A r \in Rooms : Len(handled'[r]) = 0 /\ handled'[r] \in Seq(Nat)
    BY <2>1
  <2> QED BY <2>1, <2>2 DEF HandledInv, HandledOnceInOrder
<1> QED BY <1>1, <1>2, <1>3, PollKinds

LEMMA HandledCorrect == Spec => []HandledInv
<1>1. ASSUME Init
      PROVE  HandledInv
  <2>1. handled = [r \in Rooms |-> <<>>]
    BY <1>1 DEF Init
  <2>2. \A r \in Rooms : Len(handled[r]) = 0 /\ handled[r] \in Seq(Nat)
    BY <2>1
  <2> QED BY <2>1, <2>2 DEF HandledInv, HandledOnceInOrder
<1>2. PollInv /\ HandledInv /\ [Next]_vars => HandledInv'
  BY HandledStep
<1> QED BY <1>1, <1>2, PollCorrect, PTL DEF Spec

(* Every message is handed to a handler at most once, in the order of the  *)
(* room, by RunPoller, which moves its token before it handles a page, and *)
(* by Poller, whose cursor follows the messages one by one.                *)
THEOREM HandledInOrder == Spec => []HandledOnceInOrder
<1>1. HandledInv => HandledOnceInOrder
  BY DEF HandledInv
<1> QED BY <1>1, HandledCorrect, PTL

-----------------------------------------------------------------------------
(* What is past in the turtle room.                                        *)
behind ==
    {i \in 1..token["turtle"] : turn = "turtle" => \A j \in batch : i < j}

(* The session of the turtle room is the one it started last, and no       *)
(* command has stopped it; commands that were carried out are past.        *)
SessionInv ==
    /\ session \in [Sessions -> {"absent", "running", "stopped", "over"}]
    /\ startedAt \in [Sessions -> Nat] /\ stoppedAt \in [Sessions -> Nat]
    /\ \A s \in Sessions :
         /\ startedAt[s] # 0 => startedAt[s] \in behind
         /\ stoppedAt[s] # 0 => stoppedAt[s] \in behind
         /\ session[s] = "absent" => startedAt[s] = 0 /\ stoppedAt[s] = 0
    /\ \A d \in signalled : d[2] \in Sessions /\ d[1] \in behind
    /\ active # NoSession =>
         /\ active \in Sessions /\ startedAt[active] # 0
         /\ stoppedAt[active] = 0
         /\ \A s \in Sessions : startedAt[s] <= startedAt[active]
    /\ SignalsFollowTheRoom

(* Sessions are started, stopped or end; none is forgotten.                *)
SessionsGoOn ==
    /\ session' \in [Sessions -> {"absent", "running", "stopped", "over"}]
    /\ \A s \in Sessions : session'[s] = "absent" => session[s] = "absent"

Unheard == SessionsGoOn /\ UNCHANGED <<active, startedAt, stoppedAt, signalled>>

Opened(s) ==
    /\ SessionsGoOn /\ s \in Sessions /\ session[s] = "absent"
    /\ session'[s] = "running"
    /\ active' = s /\ startedAt' = [startedAt EXCEPT ![s] = at]
    /\ UNCHANGED <<stoppedAt, signalled>>

Directed ==
    /\ SessionsGoOn /\ active \in Sessions
    /\ signalled' = signalled \cup {<<at, active>>}
    /\ UNCHANGED <<active, startedAt, stoppedAt>>

Closed(s) ==
    /\ SessionsGoOn /\ s \in Sessions /\ session[s] # "absent"
    /\ active' = IF active = s THEN NoSession ELSE active
    /\ stoppedAt' = [stoppedAt EXCEPT ![s] = at]
    /\ UNCHANGED <<startedAt, signalled>>

Forgotten ==
    /\ SessionsGoOn
    /\ active' = NoSession /\ signalled' = {}
    /\ startedAt' = [s \in Sessions |-> 0] /\ stoppedAt' = [s \in Sessions |-> 0]

(* A planning command that was carried out, of the message at hand.        *)
Commanded ==
    /\ turn = "turtle" /\ Taken
    /\ Directed \/ \E s \in Sessions : Opened(s) \/ Closed(s)

(* What a planning command does.                                           *)
LEMMA CommandKinds ==
    ASSUME PollInv, SessionInv, handlePlanningCommand, Taken
    PROVE  Unheard \/ Commanded
<1> USE DEF SessionInv, SessionsGoOn
<1>0. turn = "turtle"
  BY DEF handlePlanningCommand, IsTurtleRoom
<1>1. CASE readCommand
  BY <1>1 DEF readCommand, sessionVars, Unheard
<1>2. CASE signalCommand
  <2>1. UNCHANGED <<active, session, startedAt, stoppedAt>>
    BY <1>2 DEF signalCommand
  <2>2. CASE UNCHANGED signalled
    BY <2>1, <2>2 DEF Unheard
  <2>3. CASE signalled' # signalled
    <3>1. PICK c \in {"ok", "late", "failed"} :
            /\ c # "failed" => running(resolvePlanningSession(msg))
            /\ signalled' = IF c # "failed" /\ msg.session = NoSession
                            THEN signalled
                                   \cup {<<at, resolvePlanningSession(msg)>>}
                            ELSE signalled
      BY <1>2 DEF signalCommand, calls
    <3>2. c # "failed" /\ msg.session = NoSession
      BY <2>3, <3>1
    <3>3. running(active) /\ signalled' = signalled \cup {<<at, active>>}
      BY <3>1, <3>2 DEF resolvePlanningSession
    <3> QED BY <1>0, <2>1, <3>3 DEF Commanded, Directed, running
  <2> QED BY <2>2, <2>3
<1>3. CASE startCommand
  <2>1. PICK c \in {"ok", "late", "failed"} :
          /\ fresh = {} => c = "failed"
          /\ session' = IF c = "failed" THEN session
                        ELSE [session EXCEPT ![Min(fresh)] = "running"]
          /\ IF c = "ok"
             THEN /\ active' = setActivePlanningSession(Min(fresh))
                  /\ startedAt' = [startedAt EXCEPT ![Min(fresh)] = at]
             ELSE UNCHANGED <<active, startedAt>>
    BY <1>3 DEF startCommand, calls
  <2>2. UNCHANGED <<stoppedAt, signalled>>
    BY <1>3 DEF startCommand
  <2>3. CASE c = "failed"
    BY <2>1, <2>2, <2>3 DEF Unheard
  <2>4. CASE c # "failed"
    <3>1. fresh # {} /\ fresh \in SUBSET Nat
      BY <2>1, <2>4 DEF fresh, Sessions
    <3>2. Min(fresh) \in fresh
      BY <3>1, LeastPosition
    <3>3. PICK s \in Sessions : s = Min(fresh) /\ session[s] = "absent"
      BY <3>2 DEF fresh
    <3>4. session' = [session EXCEPT ![s] = "running"]
      BY <2>1, <2>4, <3>3
    <3>5. SessionsGoOn /\ session'[s] = "running"
      BY <3>4
    <3>6. CASE c = "ok"
      BY <1>0, <2>1, <2>2, <3>3, <3>5, <3>6
      DEF Commanded, Opened, setActivePlanningSession
    <3>7. CASE c # "ok"
      BY <2>1, <2>2, <3>5, <3>7 DEF Unheard
    <3> QED BY <3>6, <3>7
  <2> QED BY <2>3, <2>4
<1>4. CASE stopCommand
  <2>0. PICK s : s = resolvePlanningSession(msg)
    OBVIOUS
  <2>1. PICK c \in {"ok", "late", "failed"} :
          /\ c # "failed" => running(s)
          /\ session' = IF c = "failed" THEN session
                        ELSE [session EXCEPT ![s] = "stopped"]
          /\ IF c = "ok"
             THEN /\ active' = clearActivePlanningSession(s)
                  /\ stoppedAt' = [stoppedAt EXCEPT ![s] = at]
             ELSE UNCHANGED <<active, stoppedAt>>
    BY <1>4, <2>0 DEF stopCommand, calls
  <2>2. UNCHANGED <<startedAt, signalled>>
    BY <1>4 DEF stopCommand
  <2>3. CASE c = "failed"
    BY <2>1, <2>2, <2>3 DEF Unheard
  <2>4. CASE c # "failed"
    <3>1. s \in Sessions /\ session[s] # "absent" /\ SessionsGoOn
      BY <2>1, <2>4 DEF running
    <3>2. CASE c = "ok"
      BY <1>0, <2>1, <2>2, <3>1, <3>2
      DEF Commanded, Closed, clearActivePlanningSession
    <3>3. CASE c # "ok"
      BY <2>1, <2>2, <3>1, <3>3 DEF Unheard
    <3> QED BY <3>2, <3>3
  <2> QED BY <2>3, <2>4
<1> QED BY <1>1, <1>2, <1>3, <1>4 DEF handlePlanningCommand

(* Every step, as the room's session sees it.                              *)
LEMMA SessionKinds ==
    ASSUME PollInv, SessionInv, [Next]_vars
    PROVE  \/ (Grown \/ Turned \/ Taken) /\ Unheard
           \/ Commanded
           \/ Forgotten
<1>0. UNCHANGED <<session, active, startedAt, stoppedAt, signalled>> => Unheard
  BY DEF Unheard, SessionsGoOn, SessionInv
<1>1. CASE Restart
  BY <1>1 DEF Restart, Forgotten, SessionsGoOn, SessionInv
<1>2. CASE handlePlanningCommand
  <2>1. Taken
    BY <1>2 DEF handlePlanningCommand, Taken, Take, startCommand, signalCommand,
       stopCommand, readCommand, Answers, PollInv
  <2> QED BY <1>2, <2>1, CommandKinds
<1>3. ASSUME NEW s \in Sessions, SessionEnds(s)
      PROVE  Grown /\ Unheard
  <2>1. Unheard
    BY <1>3 DEF SessionEnds, Unheard, SessionsGoOn, SessionInv
  <2>2. UNCHANGED <<room, thinking, pc, world, token, turn, batch, handled>>
    BY <1>3 DEF SessionEnds, roomVars, pollVars
  <2>3. \A r \in Rooms : Len(room[r]) \in Nat
    BY DEF PollInv
  <2> QED BY <2>1, <2>2, <2>3 DEF Grown, PollInv
<1>4. CASE ~Restart /\ ~handlePlanningCommand /\ ~\E s \in Sessions : SessionEnds(s)
  <2>1. UNCHANGED <<session, active, startedAt, stoppedAt, signalled>>
    BY <1>4 DEF Next, vars, sessionVars, Post, Boot, PollFails, InitialSync, Poll,
       PageDone, Reply, Handle, handleScrumCommand, routeMessage, runAndRespond
  <2>2. Grown \/ Turned \/ Taken
    BY <1>4, PollKinds DEF Ended
  <2> QED BY <1>0, <2>1, <2>2
<1> QED BY <1>1, <1>2, <1>3, <1>4

(* Every step keeps the room's session.                                    *)
LEMMA SessionStep ==
    ASSUME PollInv, SessionInv, [Next]_vars
    PROVE  SessionInv'
<1>0. "turtle" \in Rooms
  BY DEF Rooms
<1>p. \A i : /\ i \in behind <=> past("turtle", i)
             /\ i \in behind' <=> past("turtle", i)'
  BY DEF behind, past
<1>1. CASE (Grown \/ Turned \/ Taken) /\ Unheard
  <2>1. behind \subseteq behind'
    BY <1>0, <1>1, <1>p, PastStays
  <2> QED BY <1>1, <2>1 DEF SessionInv, Unheard, SessionsGoOn, SignalsFollowTheRoom
<1>2. CASE Forgotten
  BY <1>2 DEF Forgotten, SessionsGoOn, SessionInv, SignalsFollowTheRoom, NoSession
<1>3. CASE Commanded
  <2>1. Taken /\ turn = "turtle" /\ Take
    BY <1>3 DEF Commanded, Taken
  <2>2. PICK a \in Nat \ {0} : a = at /\ a \in batch
    BY <2>1, AtHand
  <2>3. a \in behind' /\ behind \subseteq behind'
    BY <1>0, <1>p, <2>1, <2>2, PastStays, TakenIsPast
  <2>4. \A i \in behind : i \in Nat /\ i < a
    BY <2>1, <2>2 DEF behind
  <2>5. CASE Directed
    <3>1. /\ session' \in [Sessions -> {"absent", "running", "stopped", "over"}]
          /\ \A s \in Sessions : session'[s] = "absent" => session[s] = "absent"
          /\ active \in Sessions /\ signalled' = signalled \cup {<<a, active>>}
          /\ active' = active /\ startedAt' = startedAt /\ stoppedAt' = stoppedAt
      BY <2>2, <2>5 DEF Directed, SessionsGoOn
    <3>2. active # NoSession
      BY <3>1 DEF Sessions, NoSession
    <3>3. SignalsFollowTheRoom'
      <4> SUFFICES ASSUME NEW d \in signalled'
                   PROVE  /\ startedAt[d[2]] # 0 /\ startedAt[d[2]] < d[1]
                          /\ stoppedAt[d[2]] = 0 \/ d[1] < stoppedAt[d[2]]
                          /\ \A s \in Sessions :
                               startedAt[s] # 0 /\ startedAt[s] < d[1]
                                 => startedAt[s] =< startedAt[d[2]]
        BY <3>1 DEF SignalsFollowTheRoom
      <4>1. CASE d \in signalled
        BY <4>1 DEF SessionInv, SignalsFollowTheRoom
      <4>2. CASE d = <<a, active>>
        BY <2>4, <3>1, <3>2, <4>2 DEF SessionInv
      <4> QED BY <3>1, <4>1, <4>2
    <3>4. ASSUME NEW d \in signalled'
          PROVE  d[2] \in Sessions /\ d[1] \in behind'
      <4>1. CASE d \in signalled
        BY <2>3, <4>1 DEF SessionInv
      <4>2. CASE d = <<a, active>>
        BY <2>3, <3>1, <4>2
      <4> QED BY <3>1, <4>1, <4>2
    <3> QED BY <2>3, <3>1, <3>3, <3>4 DEF SessionInv
  <2>6. ASSUME NEW s \in Sessions, Opened(s)
        PROVE  SessionInv'
    <3>1. /\ session' \in [Sessions -> {"absent", "running", "stopped", "over"}]
          /\ \A x \in Sessions : session'[x] = "absent" => session[x] = "absent"
          /\ session[s] = "absent" /\ session'[s] = "running"
          /\ active' = s /\ startedAt' = [startedAt EXCEPT ![s] = a]
          /\ stoppedAt' = stoppedAt /\ signalled' = signalled
      BY <2>2, <2>6 DEF Opened, SessionsGoOn
    <3>2. /\ startedAt' \in [Sessions -> Nat] /\ startedAt'[s] = a
          /\ \A x \in Sessions \ {s} : startedAt'[x] = startedAt[x]
          /\ startedAt[s] = 0 /\ stoppedAt[s] = 0
      BY <3>1 DEF SessionInv
    <3>3. \A x \in Sessions : startedAt[x] < a
      BY <2>4 DEF SessionInv
    <3>4. SignalsFollowTheRoom'
      <4> SUFFICES ASSUME NEW d \in signalled
                   PROVE  /\ startedAt'[d[2]] # 0 /\ startedAt'[d[2]] < d[1]
                          /\ stoppedAt[d[2]] = 0 \/ d[1] < stoppedAt[d[2]]
                          /\ \A x \in Sessions :
                               startedAt'[x] # 0 /\ startedAt'[x] < d[1]
                                 => startedAt'[x] =< startedAt'[d[2]]
        BY <3>1 DEF SignalsFollowTheRoom
      <4>1. /\ startedAt[d[2]] # 0 /\ startedAt[d[2]] < d[1]
            /\ stoppedAt[d[2]] = 0 \/ d[1] < stoppedAt[d[2]]
            /\ \A x \in Sessions : startedAt[x] # 0 /\ startedAt[x] < d[1]
                                     => startedAt[x] =< startedAt[d[2]]
        BY DEF SessionInv, SignalsFollowTheRoom
      <4>2. d[2] \in Sessions /\ d[1] \in Nat /\ d[1] < a
        BY <2>4 DEF SessionInv
      <4>3. d[2] # s
        BY <3>2, <4>1
      <4> QED BY <3>2, <4>1, <4>2, <4>3
    <3>5. \A x \in Sessions : startedAt'[x] <= startedAt'[s]
      BY <3>2, <3>3 DEF SessionInv
    <3>6. \A x \in Sessions :
            /\ startedAt'[x] # 0 => startedAt'[x] \in behind'
            /\ stoppedAt'[x] # 0 => stoppedAt'[x] \in behind'
            /\ session'[x] = "absent" => startedAt'[x] = 0 /\ stoppedAt'[x] = 0
      BY <2>3, <3>1, <3>2 DEF SessionInv
    <3>7. \A d \in signalled' : d[2] \in Sessions /\ d[1] \in behind'
      BY <2>3, <3>1 DEF SessionInv
    <3>8. stoppedAt' \in [Sessions -> Nat]
      BY <3>1 DEF SessionInv
    <3> QED BY <3>1, <3>2, <3>4, <3>5, <3>6, <3>7, <3>8 DEF SessionInv
  <2>7. ASSUME NEW s \in Sessions, Closed(s)
        PROVE  SessionInv'
    <3>1. /\ session' \in [Sessions -> {"absent", "running", "stopped", "over"}]
          /\ \A x \in Sessions : session'[x] = "absent" => session[x] = "absent"
          /\ session[s] # "absent"
          /\ active' = IF active = s THEN NoSession ELSE active
          /\ stoppedAt' = [stoppedAt EXCEPT ![s] = a]
          /\ startedAt' = startedAt /\ signalled' = signalled
      BY <2>2, <2>7 DEF Closed, SessionsGoOn
    <3>2. /\ stoppedAt' \in [Sessions -> Nat] /\ stoppedAt'[s] = a
          /\ \A x \in Sessions \ {s} : stoppedAt'[x] = stoppedAt[x]
      BY <3>1 DEF SessionInv
    <3>3. SignalsFollowTheRoom'
      <4> SUFFICES ASSUME NEW d \in signalled
                   PROVE  /\ startedAt[d[2]] # 0 /\ startedAt[d[2]] < d[1]
                          /\ stoppedAt'[d[2]] = 0 \/ d[1] < stoppedAt'[d[2]]
                          /\ \A x \in Sessions :
                               startedAt[x] # 0 /\ startedAt[x] < d[1]
                                 => startedAt[x] =< startedAt[d[2]]
        BY <3>1 DEF SignalsFollowTheRoom
      <4>1. /\ startedAt[d[2]] # 0 /\ startedAt[d[2]] < d[1]
            /\ stoppedAt[d[2]] = 0 \/ d[1] < stoppedAt[d[2]]
            /\ \A x \in Sessions : startedAt[x] # 0 /\ startedAt[x] < d[1]
                                     => startedAt[x] =< startedAt[d[2]]
        BY DEF SessionInv, SignalsFollowTheRoom
      <4>2. d[2] \in Sessions /\ d[1] < a
        BY <2>4 DEF SessionInv
      <4> QED BY <3>2, <4>1, <4>2
    <3>4. \A x \in Sessions :
            /\ startedAt'[x] # 0 => startedAt'[x] \in behind'
            /\ stoppedAt'[x] # 0 => stoppedAt'[x] \in behind'
            /\ session'[x] = "absent" => startedAt'[x] = 0 /\ stoppedAt'[x] = 0
      BY <2>3, <3>1, <3>2 DEF SessionInv
    <3>5. active' # NoSession =>
            /\ active' \in Sessions /\ startedAt'[active'] # 0
            /\ stoppedAt'[active'] = 0
            /\ \A x \in Sessions : startedAt'[x] <= startedAt'[active']
      BY <3>1, <3>2 DEF SessionInv
    <3>6. \A d \in signalled' : d[2] \in Sessions /\ d[1] \in behind'
      BY <2>3, <3>1 DEF SessionInv
    <3>7. startedAt' \in [Sessions -> Nat]
      BY <3>1 DEF SessionInv
    <3> QED BY <3>1, <3>2, <3>3, <3>4, <3>5, <3>6, <3>7 DEF SessionInv
  <2> QED BY <1>3, <2>5, <2>6, <2>7 DEF Commanded
<1> QED BY <1>1, <1>2, <1>3, SessionKinds

LEMMA SessionCorrect == Spec => []SessionInv
<1>1. Init => SessionInv
  BY DEF Init, SessionInv, SignalsFollowTheRoom, NoSession
<1>2. PollInv /\ SessionInv /\ [Next]_vars => SessionInv'
  BY SessionStep
<1> QED BY <1>1, <1>2, PollCorrect, PTL DEF Spec

(* A signal without a session goes to the session that the room started    *)
(* last before it and has not stopped (activeByRoom), for any number of    *)
(* sessions, whichever calls of the API fail or time out with their effect *)
(* done, and whichever sessions end by themselves or are stopped by name.  *)
THEOREM SignalsGoToTheRoomsSession == Spec => []SignalsFollowTheRoom
<1>1. SessionInv => SignalsFollowTheRoom
  BY DEF SessionInv
<1> QED BY <1>1, SessionCorrect, PTL

=============================================================================
