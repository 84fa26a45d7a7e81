-------------------------- MODULE PlanningCeremony --------------------------
(***************************************************************************)
(* Planning sessions: PlanningCeremonyWorkflow with its gates, scores and  *)
(* blacklist (internal/temporal/planning_workflow.go), and the people who  *)
(* steer it through the HTTP API (internal/api/handlers_planning.go).      *)
(*                                                                         *)
(* A session is a loop of at most MaxCycles cycles, each from a backlog to *)
(* a plan.  It never tells people what it waits for.  They read the prompt *)
(* endpoint, which infers it from the rows that the session's activities   *)
(* left in the trace table, and send signals, which the session takes from *)
(* a channel per signal name whenever it comes to wait for that name.      *)
(*                                                                         *)
(* Left out are the rows that the prompt does not read, the snapshots,     *)
(* which nothing restores, and the blacklist entries of the summary gate,  *)
(* which nothing looks up.                                                 *)
(***************************************************************************)
EXTENDS Integers, Sequences, FiniteSets

CONSTANTS
    Items,          \* items an agent may put on a backlog
    Seed,           \* the task that the dispatcher seeds a session with
    Unknown,        \* an identifier that no backlog has
    NoItem,         \* the empty identifier
    NoRow,          \* no row in planning_candidate_scores
    Base,           \* planningCandidateScore of each item
    Recommended,    \* items the agent recommends
    IdLess(_, _),   \* the order of identifiers
    MaxCycles,      \* maxPlanningCycles (5)
    MaxQuestions,   \* questions the gate accepts (5)
    TopK,           \* CandidateTopK
    SignalTimeout, SessionTimeout,
    MaxSignals,     \* bound: signals of a name that are buffered
    Worlds          \* the circumstances a behaviour may have

VARIABLES
    world,          \* its circumstances, which never change
    session,        \* sessions started
    pc, cycle,
    backlog,        \* items of this cycle
    selected,       \* item of this cycle
    questions,      \* number of questions of this cycle
    answers,        \* number of answers recorded
    plan,           \* what the summary of this cycle is like
    adj,            \* candidateScoreAdjustments, in the workflow's memory
    scores,         \* planning_candidate_scores
    blacklist,      \* planning_action_blacklist under the trace session ID
    trace,          \* rows of the latest cycle that the prompt query returns
    lost,           \* a row was not written, or is beyond the query's limit
    inbox,          \* signal channels
    shown,          \* the prompt that was fetched last
    now, deadline,  \* workflow time since the start; end of the wait
    decomposed,     \* items the crab has reported as decomposed
    closed          \* items whose task row is closed

cycleVars == <<cycle, backlog, selected, questions, answers, plan>>
scoreVars == <<adj, scores>>
traceVars == <<trace, lost>>
taskVars == <<decomposed, closed>>
vars == <<world, session, pc, cycleVars, scoreVars, blacklist,
          traceVars, inbox, shown, now, deadline, taskVars>>

Ids == Items \cup {Unknown}
Signals == {"item-selected", "answer", "greenlight"}
Asks == [signal : Signals \cup {"none"}, cycle : 0..MaxCycles,
         number : 0..MaxQuestions]
NoAsk == [signal |-> "none", cycle |-> 0, number |-> 0]
Over == {"idle", "completed", "failed", "terminated"}
Waits == {"selection", "answers", "greenlight"}
FaultNames == {"trace", "load", "persist", "lookup", "block", "close"}

ASSUME PlanningAssumption ==
    /\ Seed \in Items /\ Unknown \notin Items
    /\ NoItem \notin Items \cup {Unknown} /\ NoRow \notin Int
    /\ IsFiniteSet(Items)
    /\ Base \in [Items -> Int] /\ Recommended \subseteq Items
    /\ MaxCycles \in Nat \ {0} /\ MaxQuestions \in Nat \ {0}
    /\ TopK \in Nat \ {0}
    /\ SignalTimeout \in Nat \ {0} /\ SessionTimeout \in Nat \ {0}
    /\ MaxSignals \in Nat
    /\ Worlds \subseteq [auto : BOOLEAN, seeded : BOOLEAN, shared : BOOLEAN,
                         faults : SUBSET FaultNames,
                         stored : (-50..50) \cup {NoRow},
                         sessions : Nat, time : Nat]

Unattended == world.auto \* AutoMode: no signals
Seeded == world.seeded   \* SeedTaskID is set
Shared == world.shared   \* the caller gave a TraceSessionID, always the same

(* The trace is filed under the session's workflow ID, where the prompt    *)
(* looks for it.                                                           *)
Prompted == ~Unattended /\ ~Shared

Faults == world.faults   \* best-effort activities that may fail
                         \* world.stored: the seed's score beforehand
                         \* world.sessions and world.time are bounds

Init ==
    /\ world \in Worlds
    /\ session = 0 /\ pc = "idle" /\ cycle = 0
    /\ backlog = {} /\ selected = NoItem
    /\ questions = 0 /\ answers = 0 /\ plan = "none"
    /\ adj = [i \in Ids |-> 0]
    /\ scores = [i \in Ids |-> IF i = Seed THEN world.stored ELSE NoRow]
    /\ blacklist = {}
    /\ trace = <<>> /\ lost = FALSE
    /\ inbox = [s \in Signals |-> <<>>] /\ shown = NoAsk
    /\ now = 0 /\ deadline = 0
    /\ decomposed = {} /\ closed = {}

----------------------------------------------------------------------------
(* The trace, and the prompt that is inferred from it.                     *)

row(type, id, n) == [cycle |-> cycle, type |-> type, item |-> id, n |-> n]

(* Mutant of noted: rows of earlier cycles are read as well.               *)
notedAll(rows) == trace \o rows

(* The rows of the latest cycle, all that buildPlanningPromptResponse      *)
(* looks at, when rows are added: the rows there are of one cycle.         *)
noted(rows) ==
    IF \A k \in DOMAIN trace : trace[k].cycle = Head(rows).cycle
    THEN trace \o rows ELSE rows

(* RecordPlanningTraceActivity for each of the rows: best effort; the      *)
(* store is there for all rows of a step, or for none.  A row is also lost *)
(* to the prompt when the query's limit of rows, the oldest ones, is used  *)
(* up: the control API adds a row per prompt and per signal.               *)
Record(rows) ==
    \E failed \in IF Prompted /\ "trace" \in Faults THEN BOOLEAN
                 ELSE {FALSE} :
        /\ trace' = IF Prompted /\ ~failed THEN noted(rows) ELSE trace
        /\ lost' = (lost \/ failed)

rowsOf(type) == {k \in DOMAIN trace : trace[k].type = type}

lastOf(ks) == CHOOSE k \in ks : \A j \in ks : j <= k

latestSelectedItem ==
    IF rowsOf("item_selected") = {} THEN NoItem
    ELSE trace[lastOf(rowsOf("item_selected"))].item

(* Rows about the selected item; about any item if none is known.          *)
about(type) ==
    LET id == latestSelectedItem
    IN {k \in rowsOf(type) : id \in {NoItem, trace[k].item}}

latestPlanningQuestions ==
    IF about("questions_result") = {} THEN 0
    ELSE trace[lastOf(about("questions_result"))].n

countPlanningAnswers == Cardinality(about("answer_recorded"))

latestPlanningCandidates == rowsOf("candidate_ranked")

ask(signal, n) ==
    [signal |-> signal, cycle |-> trace[Len(trace)].cycle, number |-> n]

buildPlanningPromptResponse ==
    LET asked == latestPlanningQuestions
        given == countPlanningAnswers
    IN IF \E type \in {"plan_agreed", "planning_signal_timeout",
                       "planning_exhausted"} : rowsOf(type) # {} THEN NoAsk
       ELSE IF given < asked THEN ask("answer", given + 1)
       ELSE IF /\ asked > 0 /\ rowsOf("greenlight_decision") = {}
               /\ about("plan_summary_result") # {} THEN ask("greenlight", 0)
       ELSE IF /\ latestSelectedItem = NoItem
               /\ latestPlanningCandidates # {} THEN ask("item-selected", 0)
       ELSE NoAsk

----------------------------------------------------------------------------
(* Ranking, and what a poor outcome does to the scores.                    *)

clamp(x) == IF x > 50 THEN 50 ELSE IF x < -50 THEN -50 ELSE x

score(i) == Base[i] + adj[i]

(* The order of rankPlanningCandidates.                                    *)
before(i, j) ==
    \/ score(i) > score(j)
    \/ /\ score(i) = score(j)
       /\ \/ i \in Recommended /\ j \notin Recommended
          \/ (i \in Recommended) = (j \in Recommended) /\ IdLess(i, j)

ahead(i, S) == Cardinality({j \in S : before(j, i)})

shortlisted == {i \in backlog : ahead(i, backlog) < TopK}

promotion == <<12, 8, 5>>

(* proposeAlternativeCandidates: what the score of i changes by when id    *)
(* was a poor choice.                                                      *)
delta(i, id) ==
    LET alternatives == shortlisted \ {id}
        place == ahead(i, alternatives) + 1
    IN IF i = id THEN -12
       ELSE IF i \in alternatives
         THEN IF place <= 3 THEN promotion[place] ELSE 0
       ELSE IF /\ alternatives = {} /\ i \in backlog
               /\ ahead(i, backlog \ {id}) = 0 THEN 10
       ELSE 0

persisted(i, d) ==
    IF d = 0 THEN scores[i]
    ELSE IF scores[i] = NoRow THEN clamp(d) ELSE clamp(scores[i] + d)

(* Adds d[i] to the scores in memory and, best effort, in the store.       *)
Adjust(d) ==
    \E failing \in IF "persist" \in Faults THEN SUBSET Ids ELSE {{}} :
        /\ adj' = [i \in Ids |-> clamp(adj[i] + d[i])]
        /\ scores' = [i \in Ids |-> IF i \in failing THEN scores[i]
                                      ELSE persisted(i, d[i])]

(* Mutant of reviewAndProposeAlternatives: the penalty is not stored.      *)
reviewWithoutPenalty(id) ==
    /\ adj' = [i \in Ids |-> clamp(adj[i] + delta(i, id))]
    /\ scores' = [i \in Ids |-> IF i = id THEN scores[i]
                                  ELSE persisted(i, delta(i, id))]

reviewAndProposeAlternatives(id) == Adjust([i \in Ids |-> delta(i, id)])

----------------------------------------------------------------------------
(* The session.                                                            *)

(* The dispatcher starts another session while the task is not closed;     *)
(* people start one when they like.  The session has its own trace ID      *)
(* unless its request carries one.                                         *)
StartSession ==
    /\ pc \in Over /\ session < world.sessions
    /\ Seeded => Seed \notin closed
    /\ session' = session + 1 /\ pc' = "begin" /\ cycle' = 0
    /\ backlog' = {} /\ selected' = NoItem /\ questions' = 0
    /\ answers' = 0 /\ plan' = "none"
    /\ adj' = [i \in Ids |-> 0]
    /\ blacklist' = IF Shared THEN blacklist ELSE {}
    /\ trace' = <<>> /\ lost' = FALSE
    /\ inbox' = [s \in Signals |-> <<>>] /\ shown' = NoAsk
    /\ now' = 0 /\ deadline' = 0
    /\ UNCHANGED <<world, scores, taskVars>>

Tick ==
    /\ pc \notin Over /\ now < world.time
    /\ now' = now + 1
    /\ UNCHANGED <<world, session, pc, cycleVars, scoreVars,
                   blacklist, traceVars, inbox, shown, deadline, taskVars>>

(* The head of the loop.                                                   *)
BeginCycle ==
    /\ pc = "begin" /\ cycle < MaxCycles /\ now < SessionTimeout
    /\ pc' = "groom" /\ cycle' = cycle + 1
    /\ backlog' = {} /\ selected' = NoItem
    /\ questions' = 0 /\ answers' = 0 /\ plan' = "none"
    /\ Record(<<[row("tool_call", NoItem, 0) EXCEPT !.cycle = cycle + 1]>>)
    /\ UNCHANGED <<world, session, scoreVars, blacklist, inbox,
                   shown, now, deadline, taskVars>>

(* hasPlanningSessionTimedOut, or no cycle is left; the row that no cycle  *)
(* is left comes after the review.                                         *)
GiveUp ==
    /\ pc = "begin"
    /\ \/ /\ cycle < MaxCycles /\ now >= SessionTimeout
          /\ pc' = "closing"
          /\ Record(<<[row("planning_signal_timeout", NoItem, 0)
                         EXCEPT !.cycle = cycle + 1]>>)
       \/ /\ cycle = MaxCycles
          /\ pc' = "failed"
          /\ Record(<<row("planning_exhausted", NoItem, 0)>>)
    /\ UNCHANGED <<world, session, cycleVars, scoreVars, blacklist,
                   inbox, shown, now, deadline, taskVars>>

(* Mutant of planningWaitTimeout: what is left of the session is ignored.  *)
waitFullTimeout == IF now < SessionTimeout THEN SignalTimeout ELSE 0

planningWaitTimeout ==
    LET remaining == SessionTimeout - now
    IN IF remaining <= 0 THEN 0
       ELSE IF SignalTimeout < remaining THEN SignalTimeout ELSE remaining

(* The rows are written, then the session waits; a wait of length zero     *)
(* fails at once, whatever has arrived.                                    *)
Await(stage, rows) ==
    LET fails == ~Unattended /\ planningWaitTimeout = 0
    IN /\ pc' = IF fails THEN "closing" ELSE stage
       /\ deadline' = now + planningWaitTimeout
       /\ Record(IF fails
                 THEN Append(rows, row("planning_signal_timeout", NoItem, 0))
                 ELSE rows)

(* Mutant of WaitTimesOut: the wait for the greenlight has no timer.       *)
WaitTimesOutBeforePlan ==
    /\ pc \in {"selection", "answers"} /\ ~Unattended /\ now >= deadline
    /\ pc' = "closing"
    /\ Record(<<row("planning_signal_timeout", selected, 0)>>)
    /\ UNCHANGED <<world, session, cycleVars, scoreVars, blacklist,
                   inbox, shown, now, deadline, taskVars>>

(* failPlanningSignalTimeout: the timer won, and the row is written.       *)
WaitTimesOut ==
    /\ pc \in Waits /\ ~Unattended /\ now >= deadline
    /\ pc' = "closing"
    /\ Record(<<row("planning_signal_timeout", selected, 0)>>)
    /\ UNCHANGED <<world, session, cycleVars, scoreVars, blacklist,
                   inbox, shown, now, deadline, taskVars>>

(* ...after which the session still runs, for its last snapshot and the    *)
(* rows of the review, which no prompt reads.                              *)
reviewPlanningCeremonyOutcome ==
    /\ pc = "closing" /\ pc' = "failed"
    /\ UNCHANGED <<world, session, cycleVars, scoreVars, blacklist,
                   traceVars, inbox, shown, now, deadline, taskVars>>

pair(stage, id) == [cycle |-> cycle, stage |-> stage, item |-> id]

(* isPlanningActionBlacklisted: a lookup that fails finds nothing.         *)
Blocked(p) == p \in blacklist
Unblocked(p) == p \notin blacklist \/ "lookup" \in Faults

Block(p) ==
    \E failed \in IF "block" \in Faults THEN BOOLEAN ELSE {FALSE} :
        blacklist' = IF failed THEN blacklist ELSE blacklist \cup {p}

(* What the activities return unless they fail: a backlog that is not      *)
(* empty, one to five questions (the rest is cut), a summary, of which     *)
(* nothing is checked here.                                                *)
GroomBacklogActivity == SUBSET Items \ {{}}

GenerateQuestionsActivity == 1..MaxQuestions

SummarizePlanActivity == {"malformed", "large", "sliceable"}

(* An activity returns an error after its retries: the session ends.       *)
ActivityError ==
    /\ \/ pc = "groom" /\ ~Seeded
       \/ pc = "questions" /\ Unblocked(pair("questions", selected))
       \/ pc = "summary"
    /\ pc' = "failed"
    /\ UNCHANGED <<world, session, cycleVars, scoreVars, blacklist,
                   traceVars, inbox, shown, now, deadline, taskVars>>

(* validateBacklogGate fails: oversized, duplicate or incomplete items.    *)
BacklogRejected ==
    /\ pc = "groom" /\ ~Seeded
    /\ pc' = "begin"
    /\ UNCHANGED <<world, session, cycleVars, scoreVars, blacklist,
                   traceVars, inbox, shown, now, deadline, taskVars>>

hydrated(items, loaded) ==
    [i \in Ids |-> IF loaded /\ i \in items /\ scores[i] # NoRow
                     THEN scores[i] ELSE adj[i]]

(* The backlog passes its gate and is ranked with the stored scores.       *)
Groom ==
    /\ pc = "groom"
    /\ \E items \in IF Seeded THEN {{Seed}} ELSE GroomBacklogActivity,
          loaded \in IF "load" \in Faults THEN BOOLEAN ELSE {TRUE} :
        /\ backlog' = items
        /\ adj' = hydrated(items, loaded)
    /\ Await("selection", <<row("candidate_ranked", NoItem, 0)>>)
    /\ UNCHANGED <<world, session, cycle, selected, questions, answers, plan,
                   scores, blacklist, inbox, shown, now, taskVars>>

----------------------------------------------------------------------------
(* Selection.                                                              *)

(* The next cycle, after the review of a poor outcome.                     *)
Retry(id) ==
    /\ reviewAndProposeAlternatives(id)
    /\ pc' = "begin" /\ UNCHANGED deadline

(* Mutant of Select: any identifier is taken.                              *)
SelectAny(id) ==
    /\ selected' = id /\ pc' = "questions"
    /\ Record(<<row("item_selected", id, 0)>>)
    /\ UNCHANGED <<scoreVars, blacklist, deadline>>

Select(id) ==
    \/ /\ Blocked(pair("selection", id))
       /\ Retry(id)
       /\ UNCHANGED <<selected, blacklist, traceVars>>
    \/ /\ Unblocked(pair("selection", id)) /\ id \notin backlog
       /\ Block(pair("selection", id))
       /\ Retry(id)
       /\ UNCHANGED <<selected, traceVars>>
    \/ /\ Unblocked(pair("selection", id)) /\ id \in backlog
       /\ selected' = id /\ pc' = "questions"
       /\ Record(<<row("item_selected", id, 0)>>)
       /\ UNCHANGED <<scoreVars, blacklist, deadline>>

(* chooseAutoPlanningSelection: the seed, else the best candidate.         *)
AutoSelect ==
    /\ pc = "selection" /\ Unattended
    /\ \E id \in backlog :
        /\ IF Seeded THEN id = Seed ELSE ahead(id, backlog) = 0
        /\ Select(id)
    /\ UNCHANGED <<world, session, cycle, backlog, questions, answers, plan,
                   inbox, shown, now, taskVars>>

ReceiveSelection ==
    /\ pc = "selection" /\ ~Unattended /\ inbox["item-selected"] # <<>>
    /\ Select(Head(inbox["item-selected"]))
    /\ inbox' = [inbox EXCEPT !["item-selected"] = Tail(@)]
    /\ UNCHANGED <<world, session, cycle, backlog, questions, answers, plan,
                   shown, now, taskVars>>

----------------------------------------------------------------------------
(* Questions, answers, summary.                                            *)

QuestionsBlocked ==
    /\ pc = "questions" /\ Blocked(pair("questions", selected))
    /\ Retry(selected)
    /\ UNCHANGED <<world, session, cycleVars, blacklist, traceVars,
                   inbox, shown, now, taskVars>>

(* The activity writes its row, then the gate looks at the questions.      *)
GenerateQuestions ==
    /\ pc = "questions" /\ Unblocked(pair("questions", selected))
    /\ \E n \in GenerateQuestionsActivity :
        LET rows == <<row("questions_result", selected, n)>>
        IN \/ /\ questions' = n
              /\ Await("answers", rows)
              /\ UNCHANGED <<scoreVars, blacklist>>
           \/ /\ Block(pair("questions", selected))
              /\ Retry(selected)
              /\ Record(rows) /\ UNCHANGED questions
    /\ UNCHANGED <<world, session, cycle, backlog, selected, answers, plan,
                   inbox, shown, now, taskVars>>

AutoAnswers ==
    /\ pc = "answers" /\ Unattended
    /\ answers' = questions
    /\ pc' = "summary"
    /\ Record([k \in 1..questions |-> row("answer_recorded", selected, k)])
    /\ UNCHANGED <<world, session, cycle, backlog, selected, questions, plan,
                   scoreVars, blacklist, inbox, shown, now,
                   deadline, taskVars>>

ReceiveAnswer ==
    /\ pc = "answers" /\ ~Unattended /\ inbox["answer"] # <<>>
    /\ answers' = answers + 1
    /\ inbox' = [inbox EXCEPT !["answer"] = Tail(@)]
    /\ IF answers + 1 = questions
       THEN /\ pc' = "summary" /\ UNCHANGED deadline
            /\ Record(<<row("answer_recorded", selected, 0)>>)
       ELSE Await("answers", <<row("answer_recorded", selected, 0)>>)
    /\ UNCHANGED <<world, session, cycle, backlog, selected, questions, plan,
                   scoreVars, blacklist, shown, now, taskVars>>

(* shouldIteratePlanningLoop, which auto mode overrules.                   *)
iterates(quality) == quality = "large" /\ cycle < MaxCycles /\ ~Unattended

(* The activity writes its row, then gate and loop decision follow.        *)
SummarizePlan ==
    /\ pc = "summary"
    /\ \E quality \in SummarizePlanActivity :
        LET rows == <<row("plan_summary_result", selected, 0)>>
        IN /\ plan' = quality
           /\ IF quality = "malformed" \/ iterates(quality)
              THEN Retry(selected) /\ Record(rows)
              ELSE Await("greenlight", rows) /\ UNCHANGED scoreVars
    /\ UNCHANGED <<world, session, cycle, backlog, selected, questions,
                   answers, blacklist, inbox, shown, now, taskVars>>

----------------------------------------------------------------------------
(* Greenlight and hand-off.                                                *)

Decide(go) ==
    \/ /\ go
       /\ pc' = "crab"
       /\ Record(<<row("greenlight_decision", selected, 0),
                   row("plan_agreed", selected, 0)>>)
       /\ Adjust([i \in Ids |-> IF i = selected THEN 10 ELSE 0])
       /\ UNCHANGED deadline
    \/ /\ ~go
       /\ Retry(selected)
       /\ Record(<<row("greenlight_decision", selected, 0)>>)

AutoGreenlight ==
    /\ pc = "greenlight" /\ Unattended
    /\ Decide(TRUE)
    /\ UNCHANGED <<world, session, cycleVars, blacklist, inbox, shown, now,
                   taskVars>>

ReceiveGreenlight ==
    /\ pc = "greenlight" /\ ~Unattended /\ inbox["greenlight"] # <<>>
    /\ Decide(Head(inbox["greenlight"]) = "GO")
    /\ inbox' = [inbox EXCEPT !["greenlight"] = Tail(@)]
    /\ UNCHANGED <<world, session, cycleVars, blacklist, shown, now,
                   taskVars>>

(* The CrabDecompositionWorkflow child returns.  After an escalation it is *)
(* the nested ceremony that has, or has not, dealt with the item.          *)
CrabReturns ==
    /\ pc = "crab"
    /\ \/ /\ pc' = "completed"
          /\ decomposed' = decomposed \cup {selected}
          /\ \/ closed' = closed \cup {selected}
             \/ "close" \in Faults /\ UNCHANGED closed
       \/ /\ pc' = "completed"
          /\ \/ /\ decomposed' = decomposed \cup {selected}
                /\ closed' = closed \cup {selected}
             \/ UNCHANGED <<decomposed, closed>>
       \/ pc' = "failed" /\ UNCHANGED <<decomposed, closed>>
    /\ UNCHANGED <<world, session, cycleVars, scoreVars, blacklist,
                   traceVars, inbox, shown, now, deadline>>

----------------------------------------------------------------------------
(* People.                                                                 *)

(* GET /planning/{id}/prompt; nobody acts on it when the session is over.  *)
handlePlanningPrompt ==
    /\ pc \notin Over /\ Prompted
    /\ shown' = buildPlanningPromptResponse
    /\ UNCHANGED <<world, session, pc, cycleVars, scoreVars,
                   blacklist, traceVars, inbox, now, deadline, taskVars>>

awaited ==
    CASE pc = "selection" -> "item-selected"
      [] pc = "answers" -> "answer"
      [] pc = "greenlight" -> "greenlight"
      [] OTHER -> "none"

values(signal) ==
    CASE signal = "item-selected" -> Ids \cup {NoItem}
      [] signal = "answer" -> {"text"}
      [] OTHER -> {"GO", "REALIGN"}

(* POST /planning/{id}/select, answer, greenlight, by somebody who sends   *)
(* what the last prompt asks for, once; without prompts, by somebody who   *)
(* knows what it waits for.  The handler checks only that it runs.         *)
handlePlanningSignal(signal, value) ==
    /\ pc \notin Over /\ ~Unattended
    /\ shown.signal = signal \/ (~Prompted /\ awaited = signal)
    /\ Len(inbox[signal]) < MaxSignals
    /\ inbox' = [inbox EXCEPT ![signal] = Append(@, value)]
    /\ shown' = NoAsk
    /\ UNCHANGED <<world, session, pc, cycleVars, scoreVars,
                   blacklist, traceVars, now, deadline, taskVars>>

(* POST /planning/{id}/stop.                                               *)
handlePlanningStop ==
    /\ pc \notin Over
    /\ pc' = "terminated"
    /\ UNCHANGED <<world, session, cycleVars, scoreVars, blacklist,
                   traceVars, inbox, shown, now, deadline, taskVars>>

----------------------------------------------------------------------------
(* chum ceremony (cmd/chum/ceremony_mode.go): the same from a terminal.    *)
(* It reads the trace and signals the workflow without the API, and has a  *)
(* copy of the inference of the prompt.                                    *)

(* Mutant of hasCeremonyEventType: the type is looked up as a stage.       *)
hasCeremonyStage(type) == FALSE

hasCeremonyEventType(type) == \E k \in DOMAIN trace : trace[k].type = type

latestCeremonySelectedItem ==
    IF ~\E k \in DOMAIN trace : trace[k].type = "item_selected" THEN NoItem
    ELSE LET k == CHOOSE k \in DOMAIN trace :
                    /\ trace[k].type = "item_selected"
                    /\ \A j \in k+1..Len(trace) : trace[j].type # "item_selected"
         IN  trace[k].item

(* The rows of a type that concern the selected item, if there is one.     *)
ceremonyRows(type) ==
    {k \in DOMAIN trace :
        /\ trace[k].type = type
        /\ latestCeremonySelectedItem \in {NoItem, trace[k].item}}

(* The scan from the end stops at the first such row.                      *)
latestCeremonyQuestions ==
    LET rows == ceremonyRows("questions_result")
    IN  IF rows = {} THEN 0
        ELSE trace[CHOOSE k \in rows : rows \cap (k+1..Len(trace)) = {}].n

countCeremonyAnswers == Cardinality(ceremonyRows("answer_recorded"))

hasCeremonySummary == ceremonyRows("plan_summary_result") # {}

latestCeremonyCandidates == ceremonyRows("candidate_ranked")

inferCeremonyPrompt ==
    LET over == \E type \in {"plan_agreed", "planning_exhausted"} :
                   hasCeremonyEventType(type)
        asked == latestCeremonyQuestions
        given == countCeremonyAnswers
    IN  IF over \/ trace = <<>> THEN NoAsk
        ELSE IF given < asked THEN ask("answer", given + 1)
        ELSE IF /\ asked > 0 /\ hasCeremonySummary
                /\ ~hasCeremonyEventType("greenlight_decision")
          THEN ask("greenlight", 0)
        ELSE IF /\ latestCeremonySelectedItem = NoItem
                /\ latestCeremonyCandidates # {} THEN ask("item-selected", 0)
        ELSE NoAsk

(* A session of the terminal is attended, has no seed and its own trace.   *)
runCeremonyMode == ~Seeded /\ Prompted /\ StartSession

(* A turn of the loop describes the session, infers and prints the prompt. *)
(* The loop is left when the session is over.                              *)
runCeremonyLoop ==
    /\ pc \notin Over /\ Prompted
    /\ shown' = inferCeremonyPrompt
    /\ UNCHANGED <<world, session, pc, cycleVars, scoreVars,
                   blacklist, traceVars, inbox, now, deadline, taskVars>>

Lines == {"select", "go", "text"}

(* What a line is taken for: a command, or plain text, which is routed by  *)
(* the expected signal of the prompt.                                      *)
parseCeremonyInput(line) ==
    CASE line = "select" -> "item-selected"
      [] line = "go" -> "greenlight"
      [] line = "text" -> IF shown.signal = "greenlight" THEN "none" ELSE shown.signal
      [] OTHER -> "none"

(* A line is typed, by somebody who sends what the last prompt asks for.   *)
ceremonyLine(line) ==
    LET signal == parseCeremonyInput(line)
    IN  /\ pc \notin Over /\ Prompted /\ signal # "none" /\ signal = shown.signal
        /\ Len(inbox[signal]) < MaxSignals
        /\ \E value \in values(signal) :
             inbox' = [inbox EXCEPT ![signal] = Append(@, value)]
        /\ shown' = NoAsk
        /\ UNCHANGED <<world, session, pc, cycleVars, scoreVars,
                       blacklist, traceVars, now, deadline, taskVars>>

Step ==
    \/ BeginCycle \/ GiveUp \/ reviewPlanningCeremonyOutcome
    \/ ActivityError \/ BacklogRejected \/ Groom
    \/ AutoSelect \/ ReceiveSelection \/ QuestionsBlocked
    \/ GenerateQuestions \/ AutoAnswers \/ ReceiveAnswer \/ SummarizePlan
    \/ AutoGreenlight \/ ReceiveGreenlight

Next ==
    \/ StartSession \/ Tick \/ WaitTimesOut \/ Step \/ CrabReturns
    \/ handlePlanningPrompt \/ handlePlanningStop
    \/ \E s \in Signals : \E v \in values(s) : handlePlanningSignal(s, v)
    \/ runCeremonyMode \/ runCeremonyLoop
    \/ \E line \in Lines : ceremonyLine(line)

Spec == Init /\ [][Next]_vars

(* Activities and timers have timeouts, so the workflow goes on by itself  *)
(* and its clock runs.  People need not do anything.                       *)
FairSpec ==
    Spec /\ WF_vars(Step) /\ WF_vars(WaitTimesOut) /\ WF_vars(Tick)

----------------------------------------------------------------------------
(* Properties.                                                             *)

(* What reaches the crab has passed every gate in the cycle in which it    *)
(* was agreed: the item is on that cycle's backlog, each of its questions  *)
(* was answered, the summary is complete, and a plan that is too large got *)
(* through in auto mode or in the last cycle only.                         *)
DecomposesGatedPlans ==
    pc = "crab" =>
        /\ selected \in backlog
        /\ questions > 0 /\ answers = questions
        /\ \/ plan = "sliceable"
           \/ plan = "large" /\ (Unattended \/ cycle = MaxCycles)

(* The prompt that is inferred from the trace asks for exactly what the    *)
(* session waits for, in the right cycle and for the right question,       *)
(* as long as no row was lost.                                             *)
PromptTellsTheWait ==
    ~lost /\ Prompted /\ pc \in Waits =>
        buildPlanningPromptResponse =
            [signal |-> awaited, cycle |-> cycle,
             number |-> IF pc = "answers" THEN answers + 1 ELSE 0]

(* Whoever steers a session from a terminal and whoever uses the API are   *)
(* asked for the same: the two copies of the inference agree on every      *)
(* trace a running session can leave, rows that were lost included.  They  *)
(* part only while a session that timed out closes: the API then asks for  *)
(* nothing, and the terminal, which knows of no timeout, for what it asked *)
(* before.                                                                 *)
TerminalAndAPIAgree ==
    Prompted /\ pc \notin Over =>
        \/ inferCeremonyPrompt = buildPlanningPromptResponse
        \/ pc = "closing" /\ buildPlanningPromptResponse = NoAsk

(* The scores in the workflow's memory, which rank the next cycle, and the *)
(* stored ones, which are adjusted by statements of their own, agree about *)
(* every item of the backlog unless a statement failed.                    *)
ScoresAgree ==
    Faults \cap {"load", "persist"} = {} =>
        \A i \in backlog :
            adj[i] = IF scores[i] = NoRow THEN 0 ELSE scores[i]

(* No wait for a signal outlasts the session.                              *)
WaitsWithinSession ==
    pc \in Waits /\ ~Unattended => deadline <= SessionTimeout

(* A task row is closed in favour of the tasks that replace it only when   *)
(* the crab has reported the decomposition as completed.  (The crab counts *)
(* the tasks it could not create and reports completed all the same.)      *)
ClosedWhenDecomposed == closed \subseteq decomposed

(* Every session ends or hands over to the crab, even when nobody answers: *)
(* each wait has a timer, and cycles are counted.                          *)
SessionSettles ==
    world.time >= SessionTimeout /\ pc \notin Over
        ~> pc \in Over \cup {"crab"}

=============================================================================
