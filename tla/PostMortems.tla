----------------------------- MODULE PostMortems -----------------------------
(***************************************************************************)
(* How failed sharks are investigated: checkAndSpawnPostMortems at the end *)
(* of a dispatcher tick (internal/temporal/workflow_dispatcher.go) and the *)
(* PostMortemWorkflow children it starts (workflow_postmortem.go), which   *)
(* file antibody tasks.                                                    *)
(*                                                                         *)
(* Nobody keeps a list of what is left to investigate.  A tick asks for    *)
(* the executions that failed within the last hour, and drops those whose  *)
(* workflow ID occurs in the details of a health event of the last day.    *)
(* The children run on their own, several at a time.                       *)
(***************************************************************************)
EXTENDS Integers, FiniteSets

CONSTANTS
    Execs,       \* executions of ChumAgentWorkflow
    WfIDs, WfOf, \* their workflow IDs; an API run's ID is the bare task ID
    Containing,  \* the IDs that have a given ID as a substring, itself too
    Causes,      \* keys of antibodyDedupKey
    Children,    \* bound: post-mortems that are started
    QueryCap,    \* failures returned by one check (20)
    MaxPostMortems,  \* maxPostMortemsPerTick (5)
    RecentFor,   \* how long a failed execution is looked for (1 hour)
    MarkerFor,   \* how long a health event counts (24 hours)
    MaxTime,     \* bound of the clock
    Worlds       \* the circumstances a behaviour may have

VARIABLES
    world,       \* its circumstances, which never change
    now,         \* the clock, in periods that are longer than a tick interval
    ticked,      \* a tick has begun in this period
    failedAt,    \* CloseTime of each failed execution, Never before
    markedAt,    \* latest postmortem_started event that names an ID exactly
    list,        \* failures of this tick that are still to be handled
    inTick,      \* checkAndSpawnPostMortems is running
    started,     \* post-mortems started for each execution
    slips,       \* history: its markers that were not written or not found
    child,       \* what each post-mortem does
    about,       \* the execution a post-mortem is about
    cause,       \* the root cause it found
    filedAt      \* latest postmortem_antibody event of each cause

checkVars == <<ticked, list, inTick, started, slips>>
childVars == <<child, about, cause>>
pmVars == <<world, now, checkVars, failedAt, markedAt, childVars, filedAt>>

Never == -1

PMFaultNames == {"lookup", "fetch", "marker", "start", "create"}

ASSUME PostMortemAssumption ==
    /\ Execs # {} /\ Causes # {}
    /\ WfOf \in [Execs -> WfIDs]
    /\ Containing \in [WfIDs -> SUBSET WfIDs]
    /\ \A w \in WfIDs : w \in Containing[w]
    /\ QueryCap \in Nat /\ MaxPostMortems \in Nat /\ MaxTime \in Nat
    /\ RecentFor \in Nat /\ MarkerFor \in Nat /\ RecentFor <= MarkerFor
    /\ Worlds \subseteq [throttling : BOOLEAN, faults : SUBSET PMFaultNames]

(* The caps are 20 and 5 in the code.                                      *)
ASSUME CapAssumption == IsFiniteSet(Execs) /\ MaxPostMortems <= QueryCap

Throttling == world.throttling  \* the token budget may be spent
Faults == world.faults          \* steps that may fail

PMInit ==
    /\ world \in Worlds
    /\ now = 0 /\ ticked = FALSE
    /\ failedAt = [e \in Execs |-> Never]
    /\ markedAt = [w \in WfIDs |-> Never]
    /\ list = {} /\ inTick = FALSE
    /\ started = [e \in Execs |-> 0] /\ slips = [e \in Execs |-> 0]
    /\ child = [c \in Children |-> "unborn"]
    /\ about = [c \in Children |-> CHOOSE e \in Execs : TRUE]
    /\ cause = [c \in Children |-> CHOOSE k \in Causes : TRUE]
    /\ filedAt = [k \in Causes |-> Never]

(* The schedule fires in every period, unless the last tick still runs.    *)
Advance ==
    /\ now < MaxTime /\ ticked
    /\ now' = now + 1 /\ ticked' = FALSE
    /\ UNCHANGED <<world, list, inTick, started, slips, failedAt, markedAt,
                   childVars, filedAt>>

(* A shark returns an error.                                               *)
Fail(e) ==
    /\ failedAt[e] = Never
    /\ failedAt' = [failedAt EXCEPT ![e] = now]
    /\ UNCHANGED <<world, now, checkVars, markedAt, childVars, filedAt>>

----------------------------------------------------------------------------
(* The tick.                                                               *)

within(time, length) == time # Never /\ now - time < length

(* HasRecentHealthEvent("postmortem_started", id): details LIKE %id%.      *)
investigated(w) == \E v \in Containing[w] : within(markedAt[v], MarkerFor)

recent == {e \in Execs : within(failedAt[e], RecentFor)}

(* The failures whose look-up finds nothing, which it does also when the   *)
(* query fails.                                                            *)
recentFailures(unread) ==
    {e \in recent : ~investigated(WfOf[e]) \/ e \in unread}

unreadable == IF "lookup" \in Faults THEN SUBSET recent ELSE {{}}

(* n of the members of S, or all of them, in the order of the query.       *)
upTo(n, S) ==
    {R \in SUBSET S : Cardinality(R) = IF Cardinality(S) < n
                                         THEN Cardinality(S) ELSE n}

(* One more slip for each of S.                                            *)
Slip(S) == slips' = [e \in Execs |-> IF e \in S THEN slips[e] + 1 ELSE slips[e]]

(* Mutant of CheckFailedWorkflows: only failures of this very period.      *)
CheckFailedWorkflowsNow ==
    /\ ~inTick /\ inTick' = TRUE /\ ticked' = TRUE
    /\ list' = {e \in recentFailures({}) : failedAt[e] = now}
    /\ UNCHANGED <<world, now, started, slips, failedAt, markedAt, childVars,
                   filedAt>>

(* The check that ends a tick, and the cap on its result.                  *)
CheckFailedWorkflows ==
    /\ ~inTick /\ inTick' = TRUE /\ ticked' = TRUE
    /\ \E unread \in unreadable :
         \E found \in upTo(QueryCap, recentFailures(unread)) :
           /\ list' \in upTo(MaxPostMortems, found)
           /\ Slip(list' \cap unread)
    /\ UNCHANGED <<world, now, started, failedAt, markedAt, childVars,
                   filedAt>>

(* A tick that is throttled, or whose scan failed, returns before that.    *)
ThrottledTick ==
    /\ Throttling
    /\ ~inTick /\ ticked' = TRUE
    /\ UNCHANGED <<world, now, list, inTick, started, slips, failedAt, markedAt,
                   childVars, filedAt>>

Mark(w) == markedAt' = [markedAt EXCEPT ![w] = now]

(* The identity of a child workflow does not matter.                       *)
newChild ==
    CHOOSE c \in Children :
        child[c] = "unborn" \/ \A d \in Children : child[d] # "unborn"

(* Mutant of SpawnPostMortem: the marker is left to the child.             *)
SpawnPostMortemUnmarked(e, c) ==
    /\ inTick /\ e \in list
    /\ child[c] = "unborn" /\ c = newChild
    /\ list' = list \ {e}
    /\ child' = [child EXCEPT ![c] = "record"]
    /\ about' = [about EXCEPT ![c] = e]
    /\ started' = [started EXCEPT ![e] = @ + 1]
    /\ UNCHANGED <<world, now, ticked, inTick, slips, failedAt, markedAt, cause,
                   filedAt>>

(* FetchFailureContextActivity, which leaves the marker, and the start of  *)
(* the child workflow.                                                     *)
SpawnPostMortem(e, c) ==
    /\ inTick /\ e \in list
    /\ child[c] = "unborn" /\ c = newChild
    /\ list' = list \ {e}
    /\ \/ Mark(WfOf[e]) /\ UNCHANGED slips
       \/ "marker" \in Faults /\ UNCHANGED markedAt /\ Slip({e})
    /\ child' = [child EXCEPT ![c] = "record"]
    /\ about' = [about EXCEPT ![c] = e]
    /\ started' = [started EXCEPT ![e] = @ + 1]
    /\ UNCHANGED <<world, now, ticked, inTick, failedAt, cause, filedAt>>

(* The activity fails, before or after it left the marker, or the child    *)
(* does not start: the loop goes on with the next failure.                 *)
SkipFailure(e) ==
    /\ inTick /\ e \in list
    /\ list' = list \ {e}
    /\ \/ "fetch" \in Faults /\ UNCHANGED markedAt
       \/ Faults \cap {"fetch", "start"} # {} /\ Mark(WfOf[e])
    /\ UNCHANGED <<world, now, ticked, inTick, started, slips, failedAt,
                   childVars, filedAt>>

EndCheck ==
    /\ inTick /\ list = {}
    /\ inTick' = FALSE
    /\ UNCHANGED <<world, now, ticked, list, started, slips, failedAt, markedAt,
                   childVars, filedAt>>

----------------------------------------------------------------------------
(* A post-mortem.                                                          *)

Goto(c, s) == child' = [child EXCEPT ![c] = s]

(* Its own health event names the workflow ID too (best effort).           *)
RecordHealthEvent(c) ==
    /\ child[c] = "record"
    /\ Mark(WfOf[about[c]]) \/ ("marker" \in Faults /\ UNCHANGED markedAt)
    /\ Goto(c, "investigate")
    /\ UNCHANGED <<world, now, checkVars, failedAt, about, cause, filedAt>>

(* InvestigateFailureActivity: a root cause, or nothing actionable.        *)
InvestigateFailure(c) ==
    /\ child[c] = "investigate"
    /\ \/ Goto(c, "check") /\ \E k \in Causes : cause' = [cause EXCEPT ![c] = k]
       \/ Goto(c, "done") /\ UNCHANGED cause
    /\ UNCHANGED <<world, now, checkVars, failedAt, markedAt, about, filedAt>>

(* FileAntibodyActivity: the dedup query, which may fail as well,          *)
FileAntibody(c) ==
    /\ child[c] = "check"
    /\ \/ Goto(c, IF within(filedAt[cause[c]], MarkerFor) THEN "done" ELSE "create")
       \/ "lookup" \in Faults /\ Goto(c, "create")
    /\ UNCHANGED <<world, now, checkVars, failedAt, markedAt, about, cause,
                   filedAt>>

(* the new task (an error ends the activity),                              *)
CreateAntibodyTask(c) ==
    /\ child[c] = "create"
    /\ Goto(c, "file") \/ ("create" \in Faults /\ Goto(c, "done"))
    /\ UNCHANGED <<world, now, checkVars, failedAt, markedAt, about, cause,
                   filedAt>>

(* and the health event the query looks for.                               *)
MarkAntibody(c) ==
    /\ child[c] = "file"
    /\ \/ filedAt' = [filedAt EXCEPT ![cause[c]] = now]
       \/ "marker" \in Faults /\ UNCHANGED filedAt
    /\ Goto(c, "done")
    /\ UNCHANGED <<world, now, checkVars, failedAt, markedAt, about, cause>>

PMNext ==
    \/ Advance \/ CheckFailedWorkflows \/ ThrottledTick \/ EndCheck
    \/ \E e \in Execs :
         \/ Fail(e) \/ SkipFailure(e)
         \/ \E c \in Children : SpawnPostMortem(e, c)
    \/ \E c \in Children :
         \/ RecordHealthEvent(c) \/ InvestigateFailure(c) \/ FileAntibody(c)
         \/ CreateAntibodyTask(c) \/ MarkAntibody(c)

PMSpec == PMInit /\ [][PMNext]_pmVars

----------------------------------------------------------------------------
(* Properties.                                                             *)

(* Type invariant.                                                         *)
PMTypeOK ==
    /\ world \in Worlds
    /\ now \in 0..MaxTime /\ ticked \in BOOLEAN /\ inTick \in BOOLEAN
    /\ failedAt \in [Execs -> Nat \cup {Never}]
    /\ markedAt \in [WfIDs -> Nat \cup {Never}]
    /\ list \subseteq Execs
    /\ started \in [Execs -> Nat] /\ slips \in [Execs -> Nat]
    /\ child \in [Children -> {"unborn", "record", "investigate", "check",
                               "create", "file", "done"}]
    /\ about \in [Children -> Execs]
    /\ cause \in [Children -> Causes]
    /\ filedAt \in [Causes -> Nat \cup {Never}]

(* No failed execution is investigated twice by itself: every further      *)
(* investigation takes one more marker that could not be written or one    *)
(* more look-up that failed.  Where these work, the marker, which outlives *)
(* the search window, is there before the next tick asks, whatever the     *)
(* children do meanwhile and however long the tick takes.                  *)
InvestigatedOnce == \A e \in Execs : started[e] <= 1 + slips[e]

(* "Remaining failures will be picked up on subsequent ticks via dedup"    *)
(* (workflow_dispatcher.go:247): a failure that has left the search window *)
(* was investigated, or is about to be.                                    *)
AllInvestigated ==
    \A e \in Execs :
        (failedAt[e] # Never /\ now - failedAt[e] >= RecentFor) =>
            started[e] > 0 \/ e \in list

(* That is so if ticks are not throttled, markers are written, contexts    *)
(* fetched and children started, no workflow ID is part of another one,    *)
(* and the ticks of a search window can handle all the failures: a tick    *)
(* that hits its cap leaves the others to the ticks after it.              *)
FailuresInvestigated ==
    (/\ ~Throttling /\ Faults \subseteq {"create"}
     /\ \A e, f \in Execs : WfOf[f] \in Containing[WfOf[e]] => e = f
     /\ Cardinality(Execs) <= MaxPostMortems * (RecentFor - 1))
    => AllInvestigated

=============================================================================
