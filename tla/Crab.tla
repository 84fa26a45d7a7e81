-------------------------------- MODULE Crab --------------------------------
(***************************************************************************)
(* CrabDecompositionWorkflow (internal/temporal/workflow_crab.go with the  *)
(* activities of crab_activities.go): a plan is parsed, clarified, sliced  *)
(* into whales and morsels by a language model, reviewed and written to    *)
(* the task store.                                                         *)
(*                                                                         *)
(* The store is that of AtomicDAG: the crab uses it one call at a time,    *)
(* but the emission of a plan is many calls, between which the dispatcher  *)
(* promotes and runs what it finds, and it is started again from nothing   *)
(* when its activity times out.  What the model answers is arbitrary: any  *)
(* set of whales, and any list of sized morsels of Sizings.                *)
(*                                                                         *)
(* A crab that fails may escalate into a planning ceremony, which may      *)
(* start the next crab for the same plan.                                  *)
(***************************************************************************)
EXTENDS Integers, SequencesExt

CONSTANTS
    Crabs,         \* bound: crab workflows that are ever started
    Seeds,         \* tasks of the backlog that are sliced
    Containers,    \* those of them of type whale; the others are large tasks
    WhaleIndices,  \* indices the model gives to whales
    Sizings,       \* the lists of sized morsels the model may answer, with
                   \* or without an estimate and acceptance criteria
    MaxMorsels,    \* the cap on a decomposition (50)
    EmitAttempts,  \* RetryPolicy.MaximumAttempts of the emission (2)
    MaxDays,       \* bound: days on which the groomer runs
    Scoped,        \* seeds whose text has a "## Scope" list
    Worlds,        \* the circumstances: who starts crabs, what may fail
    NoTask         \* the plan of an API request is no task

VARIABLES
    crab,      \* the state of each crab workflow
    inbox,     \* its buffered crab-review signals
    status,    \* tasks.status
    edges,     \* task_edges
    world      \* the circumstances of this behaviour, never changed

crabVars == <<crab, inbox>>
dagVars == <<status, edges>>

FaultNames == {"llm", "create", "link", "timeout", "close", "label", "stop",
               "shark"}

Kinds == {"whale", "morsel"}

(* The rows an emission inserts, named by who inserts them.                *)
Emitted == Crabs \X (1..EmitAttempts) \X Kinds \X (0..(MaxMorsels - 1))

(* The rows of the groomer: tasks it creates on a day and bugs it tracks.  *)
Groomed ==
    (1..MaxDays) \X {0} \X {"task", "large", "ubs"} \X (0..(MaxMorsels - 1))

Rows == Seeds \cup Emitted \cup Groomed

TerminalStatuses == {"closed", "completed", "plan_failed"}

Statuses == {"open", "ready"} \cup TerminalStatuses

Ended == {"completed", "rejected", "failed", "escalated", "error",
          "terminated", "closed"}

Phases == {"parse", "clarify", "answer", "scan", "decompose", "scope", "size",
           "review", "emit", "planning"}

ASSUME CrabAssumption ==
    /\ MaxDays \in Nat /\ MaxMorsels \in Nat \ {0} /\ EmitAttempts \in Nat \ {0}
    /\ WhaleIndices \subseteq 0..(MaxMorsels - 1)
    /\ Crabs \subseteq Nat \ {0} /\ IsFiniteSet(Crabs)
    /\ Scoped \subseteq Seeds /\ Containers \subseteq Seeds
    /\ Worlds \subseteq [by : {"api", "ceremony", "groom"}, crabEnabled : BOOLEAN,
                         seeds : {"open", "ready"}, faults : SUBSET FaultNames,
                         mutations : SUBSET {"close", "depend", "create"}]

DAG == INSTANCE AtomicDAG
         WITH Tasks <- Rows, ProjectOf <- [t \in Rows |-> "p"],
              Absent <- "absent"

exists(t) == t \in Rows /\ status[t] # "absent"

resolved(t) == status[t] \in TerminalStatuses

DependsOn(t) == {e[2] : e \in {x \in edges : x[1] = t}}

unblocked(t) == \A d \in DependsOn(t) : resolved(d)

(* CrabDecompositionRequest, and the variables of the workflow: its phase, *)
(* the whales and morsels the model answered, and the emission: attempt,   *)
(* what is left to write and what it has written.                          *)
Idle == [pc |-> "idle", plan |-> NoTask, review |-> FALSE, rebound |-> FALSE,
         by |-> "none", parent |-> 0, whales |-> {}, morsels |-> <<>>,
         attempt |-> 1, todo |-> <<>>]

Init ==
    /\ crab = [c \in Crabs |-> Idle]
    /\ inbox = [c \in Crabs |-> <<>>]
    /\ world \in Worlds
    /\ status = [t \in Rows |-> IF t \in Seeds THEN world.seeds ELSE "absent"]
    /\ edges = {}

running(c) == crab[c].pc \in Phases

At(c, p) == crab[c].pc = p

Goto(c, p) == crab' = [crab EXCEPT ![c].pc = p]

(* Chief.Enabled: the strategic groomer runs, the dispatcher does not      *)
(* promote.                                                                *)
chief == world.by = "groom"

(* StartToCloseTimeout and the exhausted retries of an activity.           *)
Fails(f) == f \in world.faults

----------------------------------------------------------------------------
(* Starting a crab: by the API, by the strategic groomer, by a ceremony.   *)

started(plan, review, by, parent) ==
    [Idle EXCEPT !.pc = "parse", !.plan = plan, !.review = review,
                 !.rebound = (by = "ceremony"), !.by = by, !.parent = parent]

(* The next workflow identifier: crabs are numbered as they start.         *)
fresh(c) == crab[c].pc = "idle" /\ \A d \in Crabs : d < c => crab[d].pc # "idle"

(* POST /crab/decompose.  Bound: once.                                     *)
handleCrabDecompose(c) ==
    /\ fresh(c) /\ world.by = "api" /\ \A d \in Crabs : crab[d].pc = "idle"
    /\ \E review \in BOOLEAN :
         crab' = [crab EXCEPT ![c] = started(NoTask, review, "api", 0)]
    /\ UNCHANGED <<inbox, dagVars, world>>

(* A planning ceremony hands over the plan it made of a task.              *)
CeremonyHandsOver(c) ==
    /\ fresh(c) /\ world.by = "ceremony"
    /\ \E s \in Seeds :
         /\ ~resolved(s) /\ \A d \in Crabs : crab[d].plan # s
         /\ crab' = [crab EXCEPT ![c] = started(s, FALSE, "ceremony", 0)]
    /\ UNCHANGED <<inbox, dagVars, world>>

(* POST /crab/{id}/review: the signal is buffered whatever the phase is.   *)
handleCrabSignal(c) ==
    /\ running(c) /\ crab[c].review /\ inbox[c] = <<>>
    /\ \E value \in {"APPROVED", "REJECTED"} :
         inbox' = [inbox EXCEPT ![c] = Append(@, value)]
    /\ UNCHANGED <<crab, dagVars, world>>

----------------------------------------------------------------------------
(* Failure of a phase.                                                     *)

(* DisableTurtleEscalation: report the failure; otherwise a ceremony       *)
(* rewrites the plan.                                                      *)
failOrEscalateToPlanning(c) == IF crab[c].rebound THEN "planning" ELSE "failed"

Fail(c) ==
    /\ Goto(c, failOrEscalateToPlanning(c))
    /\ UNCHANGED <<inbox, dagVars, world>>

(* The crab a ceremony has started for the plan of crab c, if any.         *)
nested(c) == {d \in Crabs : crab[d].parent = c}

(* The ceremony hands its plan to a crab that may rebound again.           *)
CeremonyStartsCrab(c, d) ==
    /\ At(c, "planning") /\ nested(c) = {} /\ fresh(d)
    /\ crab' = [crab EXCEPT ![d] = started(crab[c].plan, FALSE, "ceremony", c)]
    /\ UNCHANGED <<inbox, dagVars, world>>

(* The crab of a ceremony reports completed: the ceremony closes the task  *)
(* the plan was made of (best effort), and is over.                        *)
CeremonyCloses(c) ==
    /\ At(c, "completed") /\ crab[c].by = "ceremony"
    /\ Goto(c, "closed")
    /\ \/ status' = [status EXCEPT ![crab[c].plan] = "closed"]
       \/ Fails("close") /\ UNCHANGED status
    /\ UNCHANGED <<inbox, edges, world>>

(* The ceremony of an escalation is over: without a plan, or with what     *)
(* became of its crab.                                                     *)
escalateToPlanningCeremony(c) ==
    /\ At(c, "planning")
    /\ \/ nested(c) = {} /\ Goto(c, "error")
       \/ \E d \in nested(c) :
            \/ crab[d].pc \in {"closed", "escalated"} /\ Goto(c, "escalated")
            \/ crab[d].pc = "error" /\ Goto(c, "error")
    /\ UNCHANGED <<inbox, dagVars, world>>

----------------------------------------------------------------------------
(* The phases.                                                             *)

(* validateParsedPlan: a plan has a title and scope items.  The text of a  *)
(* task has them only if somebody wrote a "## Scope" list into it; what    *)
(* the API or a ceremony hands over may or may not.                        *)
parses(c) == crab[c].by = "groom" => crab[c].plan \in Scoped

(* PHASE 1.                                                                *)
ParsePlan(c) ==
    /\ At(c, "parse")
    /\ \/ parses(c) /\ Goto(c, "clarify") /\ UNCHANGED <<inbox, dagVars, world>>
       \/ crab[c].by = "groom" /\ ~parses(c) /\ Fail(c)
       \/ crab[c].by # "groom" /\ Fails("llm") /\ Fail(c)

(* PHASE 2: lessons, then the chief, then people; never fatal.             *)
ClarifyGaps(c) ==
    /\ At(c, "clarify")
    /\ \E needsHumanInput \in BOOLEAN :
         Goto(c, IF needsHumanInput THEN "answer" ELSE "scan")
    /\ UNCHANGED <<inbox, dagVars, world>>


(* An answer, or the timer of ten minutes: the plan goes on either way.    *)
ClarificationEnds(c) ==
    /\ At(c, "answer") /\ Goto(c, "scan")
    /\ UNCHANGED <<inbox, dagVars, world>>

(* PHASE 2.5: import fan-in of the repository, for the prompt only.        *)
BlastRadiusScan(c) ==
    /\ At(c, "scan") /\ Goto(c, "decompose")
    /\ UNCHANGED <<inbox, dagVars, world>>

(* PHASE 3: at least one whale.                                            *)
Decompose(c) ==
    /\ At(c, "decompose")
    /\ \/ \E whales \in SUBSET WhaleIndices \ {{}} :
            /\ crab' = [crab EXCEPT ![c].pc = "scope", ![c].whales = whales]
            /\ UNCHANGED <<inbox, dagVars, world>>
       \/ Fails("llm") /\ Fail(c)

(* PHASE 4: the reviewed whales replace the first answer, also when there  *)
(* are none; an error leaves the first answer in place.                    *)
ScopeMorsels(c) ==
    /\ At(c, "scope")
    /\ \E whales \in SUBSET WhaleIndices \cup {crab[c].whales} :
         crab' = [crab EXCEPT ![c].pc = "size", ![c].whales = whales]
    /\ UNCHANGED <<inbox, dagVars, world>>

(* The cap on runaway answers: the list is cut, dependencies are not       *)
(* renumbered.                                                             *)
capped(morsels) ==
    SubSeq(morsels, 1, IF Len(morsels) > MaxMorsels THEN MaxMorsels
                                                    ELSE Len(morsels))

(* PHASE 5.                                                                *)
SizeMorsels(c) ==
    /\ At(c, "size")
    /\ \/ \E morsels \in Sizings :
            /\ crab' = [crab EXCEPT ![c].pc = "review",
                                    ![c].morsels = capped(morsels)]
            /\ UNCHANGED <<inbox, dagVars, world>>
       \/ Fails("llm") /\ Fail(c)

(* The calls of an emission, in order: whales, morsels, edges.             *)
emission(c) ==
    LET morsels == crab[c].morsels
        whale(w) == [kind |-> "whale", i |-> w]
        morsel(i) == [kind |-> "morsel", i |-> i - 1, whale |-> morsels[i].whale]
        edge(i, d) == [kind |-> "edge", i |-> i - 1, dep |-> d]
    IN  SetToSeq({whale(w) : w \in crab[c].whales})
          \o [i \in 1..Len(morsels) |-> morsel(i)]
          \o FlattenSeq([i \in 1..Len(morsels) |->
                            SetToSeq({edge(i, d) : d \in morsels[i].deps})])

(* Only APPROVED passes.                                                   *)
ReviewDecided(c, decision) ==
    crab' = IF decision = "APPROVED"
            THEN [crab EXCEPT ![c].pc = "emit", ![c].todo = emission(c)]
            ELSE [crab EXCEPT ![c].pc = "rejected"]

(* PHASE 6: no review was asked for, or nobody answered in ten minutes.    *)
AutoApprove(c) ==
    /\ At(c, "review")
    /\ ReviewDecided(c, "APPROVED")
    /\ UNCHANGED <<inbox, dagVars, world>>

ReceiveReview(c) ==
    /\ At(c, "review") /\ inbox[c] # <<>>
    /\ ReviewDecided(c, Head(inbox[c]))
    /\ inbox' = [inbox EXCEPT ![c] = Tail(@)]
    /\ UNCHANGED <<dagVars, world>>

----------------------------------------------------------------------------
(* PHASE 7: the emission.                                                  *)

row(c, kind, i) == <<c, crab[c].attempt, kind, i>>

MorselsEmitted(c) ==
    {i \in 0..(MaxMorsels - 1) : exists(row(c, "morsel", i))}

(* graph.AddEdge rejects self-loops and edges that close a cycle.          *)
wellFounded(E) ==
    \A S \in SUBSET UNION {{e[1], e[2]} : e \in E} :
        S # {} => \E x \in S : \A y \in S : <<x, y>> \notin E

EmitNext(c) == crab' = [crab EXCEPT ![c].todo = Tail(@)]

(* One call of the emission.  A whale or morsel that cannot be created is  *)
(* counted and skipped, and with a whale all its morsels.                  *)
EmitTask(c) ==
    /\ At(c, "emit") /\ crab[c].todo # <<>>
    /\ LET step == Head(crab[c].todo)
           id == row(c, step.kind, step.i)
       IN  /\ step.kind \in Kinds
           /\ \/ /\ step.kind = "morsel" => exists(row(c, "whale", step.whale))
                 /\ DAG!Create(id, "open")
              \/ /\ \/ Fails("create")
                    \/ step.kind = "morsel" /\ ~exists(row(c, "whale", step.whale))
                 /\ UNCHANGED dagVars
    /\ EmitNext(c)
    /\ UNCHANGED <<inbox, world>>

(* Mutant of linkable: cycles are not looked for.                          *)
linkableAnyway(f, t) == f # t /\ exists(f) /\ exists(t)

linkable(f, t) ==
    /\ f # t /\ exists(f) /\ exists(t)
    /\ wellFounded(edges \cup {<<f, t>>})

EmitEdge(c) ==
    /\ At(c, "emit") /\ crab[c].todo # <<>>
    /\ LET step == Head(crab[c].todo)
           f == row(c, "morsel", step.i)
           t == row(c, "morsel", step.dep)
       IN  /\ step.kind = "edge"
           /\ \/ linkable(f, t) /\ edges' = edges \cup {<<f, t>>}
              \/ (~linkable(f, t) \/ Fails("link")) /\ UNCHANGED edges
    /\ EmitNext(c)
    /\ UNCHANGED <<inbox, status, world>>

(* The activity reports what it has written; nothing is an error.          *)
EmitDone(c) ==
    /\ At(c, "emit") /\ crab[c].todo = <<>>
    /\ Goto(c, "completed")
    /\ UNCHANGED <<inbox, dagVars, world>>

(* StartToCloseTimeout of 30 seconds: once more from the start, and then   *)
(* the phase has failed.  What is written stays.                           *)
EmitTimeout(c) ==
    /\ At(c, "emit") /\ Fails("timeout")
    /\ IF crab[c].attempt < EmitAttempts
       THEN /\ crab' = [crab EXCEPT ![c].attempt = @ + 1,
                                    ![c].todo = emission(c)]
            /\ UNCHANGED <<inbox, dagVars, world>>
       ELSE Fail(c)

CrabStep(c) ==
    \/ ParsePlan(c) \/ ClarifyGaps(c) \/ ClarificationEnds(c)
    \/ BlastRadiusScan(c) \/ Decompose(c) \/ ScopeMorsels(c) \/ SizeMorsels(c)
    \/ AutoApprove(c) \/ ReceiveReview(c)
    \/ EmitTask(c) \/ EmitEdge(c) \/ EmitDone(c) \/ EmitTimeout(c)
    \/ CeremonyCloses(c) \/ escalateToPlanningCeremony(c)

=============================================================================
