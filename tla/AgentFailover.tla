---------------------------- MODULE AgentFailover ----------------------------
(***************************************************************************)
(* runAgentWithFailover (internal/temporal/agent_cli.go): an activity that *)
(* wants an answer of a language model tries the agents of a chain in      *)
(* turn.  Agents that fail repeatedly are left out by a circuit breaker,   *)
(* whose counts live in the memory of the process and are shared by all    *)
(* activities; for exhausted agents a block with a deadline is kept in the *)
(* store (internal/store/safety.go) to survive restarts.                   *)
(***************************************************************************)
EXTENDS Integers, SequencesExt

CONSTANTS
    Agents,        \* the agents of the tiers
    Tiers,         \* tiers.Fast, tiers.Balanced, tiers.Premium: sequences
    Codex,         \* the agent of a chain without agents
    Calls,         \* activities that run at the same time
    Threshold      \* agentCircuitBreakerThreshold (3)

VARIABLES
    failures,      \* globalFailureTracker.failures
    block,         \* safety_blocks of type exhausted:<agent>
    bootBlocked,   \* agents that were blocked when the process started
    answered,      \* those that gave an answer since then (history)
    call           \* the activities

failoverVars == <<failures, block, bootBlocked, answered, call>>

TierNames == {"fast", "balanced", "premium"}

ASSUME FailoverAssumption ==
    /\ Threshold \in Nat \ {0} /\ Codex \in Agents
    /\ Tiers \in [TierNames -> Seq(Agents)]

(* blind: did the look-up of the agent's block fail (history)?             *)
NoCall == [pc |-> "idle", chain |-> <<>>, blind |-> FALSE]

FailoverInit ==
    /\ failures = [a \in Agents |-> 0]
    /\ block = [a \in Agents |-> "none"]
    /\ bootBlocked = {} /\ answered = {}
    /\ call = [c \in Calls |-> NoCall]

(* EscalationChain: the tiers from the given one on, every agent once.     *)
EscalationChain(tier) ==
    LET all == CASE tier = "fast" -> Tiers["fast"] \o Tiers["balanced"]
                                       \o Tiers["premium"]
                 [] tier = "balanced" -> Tiers["balanced"] \o Tiers["premium"]
                 [] tier = "premium" -> Tiers["premium"]
        addUnique(chain, a) == IF Contains(chain, a) THEN chain
                                                     ELSE Append(chain, a)
    IN  IF all = <<>> THEN <<Codex>> ELSE FoldLeft(addUnique, <<>>, all)

isCircuitOpen(a) == failures[a] >= Threshold

agent(c) == Head(call[c].chain)

CallAt(c, p) == call[c].pc = p

CallGoto(c, p) == call' = [call EXCEPT ![c].pc = p]

NextAgent(c) ==
    call' = [call EXCEPT ![c].pc = "look", ![c].chain = Tail(@),
                         ![c].blind = FALSE]

(* An activity asks for an answer.                                         *)
StartCall(c) ==
    /\ CallAt(c, "idle")
    /\ \E tier \in TierNames :
         call' = [call EXCEPT ![c] = [NoCall EXCEPT !.pc = "look",
                                        !.chain = EscalationChain(tier)]]
    /\ UNCHANGED <<failures, block, bootBlocked, answered>>

(* Mutant of rehydrated: the persisted block is not looked at.             *)
notRehydrated(a) == failures

(* An active block of a closed circuit opens it again: as many failures as *)
(* the threshold are recorded.                                             *)
rehydrated(a) ==
    IF ~isCircuitOpen(a) /\ block[a] = "active"
    THEN [failures EXCEPT ![a] = Threshold] ELSE failures

(* GetBlock; its error is taken for no block, which makes a difference if  *)
(* there is one.                                                           *)
LookAtBlock(c) ==
    /\ CallAt(c, "look") /\ call[c].chain # <<>>
    /\ \/ failures' = rehydrated(agent(c)) /\ CallGoto(c, "check")
       \/ /\ ~isCircuitOpen(agent(c)) /\ block[agent(c)] = "active"
          /\ UNCHANGED failures
          /\ call' = [call EXCEPT ![c].pc = "check", ![c].blind = TRUE]
    /\ UNCHANGED <<block, bootBlocked, answered>>

(* The circuit breaker: skip the agent, or run its command.                *)
CheckCircuit(c) ==
    /\ CallAt(c, "check")
    /\ IF isCircuitOpen(agent(c)) THEN NextAgent(c)
                                  ELSE CallGoto(c, "run")
    /\ UNCHANGED <<failures, block, bootBlocked, answered>>

(* The command of an agent gives an answer, or an error, whose output may  *)
(* tell of a limit.  The working directory is made if it is missing.       *)
runCLI == {"answer", "error", "limit"}

IsModelExhausted(output) == output = "limit"

(* An answer: the count starts again.                                      *)
RunSucceeds(c) ==
    /\ CallAt(c, "run") /\ "answer" \in runCLI
    /\ failures' = [failures EXCEPT ![agent(c)] = 0]
    /\ answered' = answered \cup ({agent(c)} \cap bootBlocked)
    /\ call' = [call EXCEPT ![c] = NoCall]
    /\ UNCHANGED <<block, bootBlocked>>

(* An error.  Bound: failures are counted up to the threshold.             *)
RunFails(c) ==
    /\ CallAt(c, "run")
    /\ LET a == agent(c)
           n == IF isCircuitOpen(a) THEN failures[a] ELSE failures[a] + 1
       IN  /\ failures' = [failures EXCEPT ![a] = n]
           /\ \E output \in runCLI \ {"answer"} :
                IF n >= Threshold /\ IsModelExhausted(output)
                  THEN CallGoto(c, "persist")
                  ELSE NextAgent(c)
    /\ UNCHANGED <<block, bootBlocked, answered>>

(* SetBlockWithMetadata, best effort: six hours from now.                  *)
PersistBlock(c) ==
    /\ CallAt(c, "persist")
    /\ \/ block' = [block EXCEPT ![agent(c)] = "active"]
       \/ UNCHANGED block
    /\ NextAgent(c)
    /\ UNCHANGED <<failures, bootBlocked, answered>>

(* The chain is at its end: the last error, or no agent is available.      *)
AllExhausted(c) ==
    /\ CallAt(c, "look") /\ call[c].chain = <<>>
    /\ call' = [call EXCEPT ![c] = NoCall]
    /\ UNCHANGED <<failures, block, bootBlocked, answered>>

(* Time passes the deadline of a block; the row stays.                     *)
BlockExpires(a) ==
    /\ block[a] = "active"
    /\ block' = [block EXCEPT ![a] = "expired"]
    /\ bootBlocked' = bootBlocked \ {a}
    /\ UNCHANGED <<failures, answered, call>>

(* A new process: its memory is empty, the store is what it was.           *)
Boot ==
    /\ failures' = [a \in Agents |-> 0]
    /\ bootBlocked' = {a \in Agents : block[a] = "active"}
    /\ answered' = {}
    /\ call' = [c \in Calls |-> NoCall]
    /\ UNCHANGED block

(* The process is gone, and its memory and activities with it.             *)
Gone ==
    /\ failures' = [a \in Agents |-> 0]
    /\ bootBlocked' = {} /\ answered' = {}
    /\ call' = [c \in Calls |-> NoCall]
    /\ UNCHANGED block

CallStep(c) ==
    \/ LookAtBlock(c) \/ CheckCircuit(c) \/ RunSucceeds(c) \/ RunFails(c)
    \/ PersistBlock(c) \/ AllExhausted(c)

----------------------------------------------------------------------------
(* The persisted block opens the circuit of a new process, whatever other  *)
(* activities do meanwhile: it runs an agent that was exhausted when it    *)
(* started, and whose block has not expired, only in an activity whose own *)
(* look-up of the block failed, or, between the look-up and the check of   *)
(* another, once such an activity got an answer and closed the circuit.    *)
BlockSurvivesRestart ==
    \A c \in Calls : CallAt(c, "run") /\ agent(c) \in bootBlocked =>
                       call[c].blind \/ agent(c) \in answered

=============================================================================
