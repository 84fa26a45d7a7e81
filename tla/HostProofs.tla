----------------------------- MODULE HostProofs -----------------------------
(***************************************************************************)
(* Theorems about Host, for every number of processes, crashes, commands   *)
(* and concurrent activities, and every set of agents and tiers.           *)
(***************************************************************************)
EXTENDS Host, FiniteSetTheorems, TLAPS

----------------------------------------------------------------------------
(* Agents and their blocks.                                                *)

(* An activity, whatever its chain of agents is.                           *)
IsCall(x) == x \in [pc : {x.pc}, chain : {x.chain}, blind : {x.blind}]

(* May the activity c run an agent that was blocked at the start?          *)
excused(c) == call[c].blind = TRUE \/ agent(c) \in answered

(* An agent that was blocked at the start is still blocked, its circuit is *)
(* open as soon as an activity has looked, and no activity runs it, unless *)
(* it is excused.                                                          *)
FailoverInv ==
    /\ failures \in [Agents -> Nat]
    /\ block \in [Agents -> {"none", "active", "expired"}]
    /\ call = [c \in Calls |-> call[c]]
    /\ \A c \in Calls : IsCall(call[c])
    /\ \A a \in bootBlocked : a \in Agents /\ block[a] = "active"
    /\ \A c \in Calls :
         /\ CallAt(c, "check") /\ agent(c) \in bootBlocked =>
              isCircuitOpen(agent(c)) \/ excused(c)
         /\ CallAt(c, "run") /\ agent(c) \in bootBlocked => excused(c)

(* One activity is changed.                                                *)
LEMMA OneCall ==
    ASSUME FailoverInv, NEW c \in Calls, NEW x, IsCall(x),
           call' = [call EXCEPT ![c] = x]
    PROVE  /\ call' = [d \in Calls |-> call'[d]]
           /\ \A d \in Calls : IsCall(call'[d])
           /\ call'[c] = x
           /\ \A d \in Calls \ {c} : call'[d] = call[d]
  BY DEF FailoverInv, IsCall

(* ... by CallGoto.                                                        *)
LEMMA GotoCall ==
    ASSUME FailoverInv, NEW c \in Calls, NEW p, CallGoto(c, p)
    PROVE  /\ call' = [d \in Calls |-> call'[d]]
           /\ \A d \in Calls : IsCall(call'[d])
           /\ call'[c].pc = p /\ call'[c].chain = call[c].chain
           /\ call'[c].blind = call[c].blind
           /\ \A d \in Calls \ {c} : call'[d] = call[d]
<1> DEFINE x == [call[c] EXCEPT !.pc = p]
<1>1. /\ IsCall(x) /\ x.pc = p /\ x.chain = call[c].chain
      /\ x.blind = call[c].blind
  BY DEF FailoverInv, IsCall
<1>2. call' = [call EXCEPT ![c] = x]
  BY DEF CallGoto, FailoverInv
<1> HIDE DEF x
<1> QED
  BY <1>1, <1>2, OneCall

(* ... by NextAgent.                                                       *)
LEMMA NextCall ==
    ASSUME FailoverInv, NEW c \in Calls, NextAgent(c)
    PROVE  /\ call' = [d \in Calls |-> call'[d]]
           /\ \A d \in Calls : IsCall(call'[d])
           /\ call'[c].pc = "look"
           /\ \A d \in Calls \ {c} : call'[d] = call[d]
<1> DEFINE x(ch) == [call[c] EXCEPT !.pc = "look", !.chain = ch, !.blind = FALSE]
           tail == Tail(call[c].chain)
<1>1. ASSUME NEW ch PROVE IsCall(x(ch)) /\ x(ch).pc = "look"
  BY DEF FailoverInv, IsCall
<1>2. call' = [call EXCEPT ![c] = x(tail)]
  BY DEF NextAgent, FailoverInv
<1> HIDE DEF x, tail
<1> QED
  BY <1>1, <1>2, OneCall

(* An activity that waits for nothing.                                     *)
LEMMA IdleCall == IsCall(NoCall) /\ NoCall.pc = "idle"
  BY DEF IsCall, NoCall

(* Counts only go up, except that of an agent that gave an answer, and the *)
(* steps of an activity keep FailoverInv.                                  *)
LEMMA CallsKeepFailoverInv ==
    ASSUME FailoverInv, NEW c \in Calls, StartCall(c) \/ CallStep(c)
    PROVE  FailoverInv'
<1> USE FailoverAssumption
<1>1. CASE StartCall(c)
  <2>1. PICK ch : call' = [call EXCEPT ![c] =
                     [NoCall EXCEPT !.pc = "look", !.chain = ch]]
    BY <1>1 DEF StartCall
  <2> DEFINE x == [NoCall EXCEPT !.pc = "look", !.chain = ch]
  <2>2. IsCall(x) /\ x.pc = "look"
    BY DEF IsCall, NoCall
  <2>3. UNCHANGED <<failures, block, bootBlocked, answered>>
    BY <1>1 DEF StartCall
  <2>4. call' = [call EXCEPT ![c] = x]
    BY <2>1
  <2> HIDE DEF x
  <2> QED
    BY <2>2, <2>3, <2>4, OneCall
    DEF FailoverInv, CallAt, agent, isCircuitOpen, excused
<1>2. CASE LookAtBlock(c)
  <2>1. UNCHANGED <<block, bootBlocked, answered>>
    BY <1>2 DEF LookAtBlock
  <2>2. CASE failures' = rehydrated(agent(c)) /\ CallGoto(c, "check")
    <3>1. /\ failures' \in [Agents -> Nat]
          /\ \A a \in Agents : failures[a] >= Threshold => failures'[a] >= Threshold
          /\ agent(c) \in bootBlocked => failures'[agent(c)] >= Threshold
      <4> DEFINE a == agent(c)
      <4>1. CASE failures' = failures /\ (isCircuitOpen(a) \/ block[a] # "active")
        BY <4>1 DEF isCircuitOpen, FailoverInv
      <4>2. CASE failures' = [failures EXCEPT ![a] = Threshold]
        <5>1. failures' = [b \in Agents |-> IF b = a THEN Threshold ELSE failures[b]]
          BY <4>2, Zenon DEF FailoverInv
        <5> QED
          BY <5>1 DEF FailoverInv
      <4> QED
        BY <2>2, <4>1, <4>2 DEF rehydrated
    <3>2. ASSUME NEW d \in Calls, call'[d].pc = "check",
                 Head(call'[d].chain) \in bootBlocked
          PROVE  \/ failures'[Head(call'[d].chain)] >= Threshold
                 \/ call'[d].blind = TRUE
                 \/ Head(call'[d].chain) \in answered
      <4>1. CASE d = c
        BY <2>2, <3>1, <3>2, <4>1, GotoCall DEF agent
      <4>2. CASE d # c
        <5>1. call'[d] = call[d]
          BY <2>2, <4>2, GotoCall
        <5>2. /\ agent(d) \in Agents
              /\ failures[agent(d)] >= Threshold \/ excused(d)
          BY <3>2, <5>1 DEF FailoverInv, CallAt, agent, isCircuitOpen
        <5> QED
          BY <3>1, <5>1, <5>2 DEF agent, FailoverInv, excused
      <4> QED
        BY <4>1, <4>2
    <3> QED
      BY <2>1, <2>2, <3>1, <3>2, GotoCall
      DEF FailoverInv, CallAt, agent, isCircuitOpen, excused
  <2>3. CASE /\ UNCHANGED failures
             /\ call' = [call EXCEPT ![c].pc = "check", ![c].blind = TRUE]
    <3> DEFINE x == [call[c] EXCEPT !.pc = "check", !.blind = TRUE]
    <3>1. IsCall(x) /\ x.pc = "check" /\ x.blind = TRUE
      BY DEF FailoverInv, IsCall
    <3>2. call' = [call EXCEPT ![c] = x]
      BY <2>3 DEF FailoverInv
    <3> HIDE DEF x
    <3> QED
      BY <2>1, <2>3, <3>1, <3>2, OneCall
      DEF FailoverInv, CallAt, agent, isCircuitOpen, excused
  <2> QED
    BY <1>2, <2>2, <2>3 DEF LookAtBlock
<1>3. CASE CheckCircuit(c)
  <2>1. UNCHANGED <<failures, block, bootBlocked, answered>>
    BY <1>3 DEF CheckCircuit
  <2>2. CASE NextAgent(c)
    BY <2>1, <2>2, NextCall DEF FailoverInv, CallAt, agent, isCircuitOpen, excused
  <2>3. CASE CallGoto(c, "run") /\ ~isCircuitOpen(agent(c))
    BY <1>3, <2>1, <2>3, GotoCall
    DEF CheckCircuit, FailoverInv, CallAt, agent, isCircuitOpen, excused
  <2> QED
    BY <1>3, <2>2, <2>3 DEF CheckCircuit
<1>4. CASE RunSucceeds(c)
  <2>1. /\ failures' \in [Agents -> Nat]
        /\ \A a \in Agents \ {agent(c)} : failures'[a] = failures[a]
    BY <1>4 DEF RunSucceeds, FailoverInv
  <2>2. call' = [call EXCEPT ![c] = NoCall] /\ UNCHANGED <<block, bootBlocked>>
    BY <1>4 DEF RunSucceeds
  <2>3. /\ answered \subseteq answered'
        /\ agent(c) \in bootBlocked => agent(c) \in answered'
    BY <1>4 DEF RunSucceeds
  <2>4. /\ call' = [d \in Calls |-> call'[d]]
        /\ \A d \in Calls : IsCall(call'[d])
        /\ call'[c].pc = "idle"
        /\ \A d \in Calls \ {c} : call'[d] = call[d]
    BY <2>2, OneCall, IdleCall
  <2>5. ASSUME NEW d \in Calls, d # c, agent(d) \in bootBlocked
        PROVE  /\ agent(d) \in Agents
               /\ excused(d) \/ agent(d) = agent(c) => excused(d)'
               /\ isCircuitOpen(agent(d)) /\ agent(d) # agent(c) =>
                    failures'[agent(d)] >= Threshold
    <3>1. agent(d) \in Agents /\ call'[d] = call[d]
      BY <2>4, <2>5 DEF FailoverInv
    <3> QED
      BY <2>1, <2>3, <2>5, <3>1 DEF excused, agent, isCircuitOpen
  <2>6. ASSUME NEW d \in Calls
        PROVE  /\ CallAt(d, "check")' /\ agent(d)' \in bootBlocked =>
                    isCircuitOpen(agent(d))' \/ excused(d)'
               /\ CallAt(d, "run")' /\ agent(d)' \in bootBlocked => excused(d)'
    <3>1. CASE d = c
      BY <2>4, <3>1 DEF CallAt
    <3>2. CASE d # c
      <4>1. call'[d] = call[d] /\ agent(d)' = agent(d)
        BY <2>4, <3>2 DEF agent
      <4>2. CallAt(d, "check")' = CallAt(d, "check") /\ CallAt(d, "run")' = CallAt(d, "run")
        BY <4>1 DEF CallAt
      <4>3. isCircuitOpen(agent(d))' <=> failures'[agent(d)] >= Threshold
        BY <4>1 DEF isCircuitOpen
      <4> QED
        BY <2>5, <3>2, <4>1, <4>2, <4>3 DEF FailoverInv
    <3> QED
      BY <3>1, <3>2
  <2> QED
    BY <2>1, <2>2, <2>4, <2>6 DEF FailoverInv
<1>5. CASE RunFails(c)
  <2>1. /\ failures' \in [Agents -> Nat]
        /\ \A a \in Agents : failures'[a] >= failures[a]
    <3> DEFINE a == agent(c)
               n == IF isCircuitOpen(a) THEN failures[a] ELSE failures[a] + 1
    <3>1. failures' = [failures EXCEPT ![a] = n]
      BY <1>5 DEF RunFails
    <3>2. a \in Agents => n \in Nat /\ n >= failures[a]
      BY DEF FailoverInv
    <3> HIDE DEF n
    <3>3. failures' = [b \in Agents |-> IF b = a THEN n ELSE failures[b]]
      BY <3>1, Zenon DEF FailoverInv
    <3> QED
      BY <3>2, <3>3 DEF FailoverInv
  <2>2. UNCHANGED <<block, bootBlocked, answered>>
    BY <1>5 DEF RunFails
  <2>3. \A d \in Calls :
          CallAt(d, "check") /\ agent(d) \in bootBlocked =>
            failures'[agent(d)] >= Threshold \/ excused(d)
    <3> SUFFICES ASSUME NEW d \in Calls, CallAt(d, "check"),
                        agent(d) \in bootBlocked, ~excused(d)
                 PROVE  failures'[agent(d)] >= Threshold
      OBVIOUS
    <3>1. agent(d) \in Agents /\ failures[agent(d)] >= Threshold
      BY DEF FailoverInv, isCircuitOpen
    <3> QED
      BY <2>1, <3>1 DEF FailoverInv
  <2>4. CallGoto(c, "persist") \/ NextAgent(c)
    BY <1>5 DEF RunFails
  <2>5. /\ call' = [d \in Calls |-> call'[d]]
        /\ \A d \in Calls : IsCall(call'[d])
        /\ \A d \in Calls : call'[d].pc \in {"check", "run"} => call'[d] = call[d]
    BY <2>4, GotoCall, NextCall
  <2> QED
    BY <2>1, <2>2, <2>3, <2>5
    DEF FailoverInv, CallAt, agent, isCircuitOpen, excused
<1>6. CASE PersistBlock(c)
  <2>1. /\ block' \in [Agents -> {"none", "active", "expired"}]
        /\ \A a \in Agents : block[a] = "active" => block'[a] = "active"
    BY <1>6 DEF PersistBlock, FailoverInv
  <2>2. NextAgent(c) /\ UNCHANGED <<failures, bootBlocked, answered>>
    BY <1>6 DEF PersistBlock
  <2> QED
    BY <2>1, <2>2, NextCall DEF FailoverInv, CallAt, agent, isCircuitOpen, excused
<1>7. CASE AllExhausted(c)
  BY <1>7, OneCall, IdleCall
  DEF AllExhausted, FailoverInv, CallAt, agent, isCircuitOpen, excused
<1> QED
  BY <1>1, <1>2, <1>3, <1>4, <1>5, <1>6, <1>7 DEF CallStep

(* A start or an end of a worker, and the end of a block, keep it too.     *)
LEMMA HostKeepsFailoverInv ==
    ASSUME FailoverInv,
           KeepsMemory \/ Gone \/ Boot \/ \E a \in Agents : BlockExpires(a)
    PROVE  FailoverInv'
<1>1. CASE KeepsMemory
  BY <1>1
  DEF KeepsMemory, failoverVars, FailoverInv, CallAt, agent, isCircuitOpen, excused
<1>2. CASE Gone
  BY <1>2, IdleCall DEF Gone, FailoverInv, CallAt
<1>3. CASE Boot
  BY <1>3, IdleCall DEF Boot, FailoverInv, CallAt
<1>4. ASSUME NEW a \in Agents, BlockExpires(a) PROVE FailoverInv'
  BY <1>4 DEF BlockExpires, FailoverInv, CallAt, agent, isCircuitOpen, excused
<1> QED
  BY <1>1, <1>2, <1>3, <1>4

(* FailoverInv is inductive.                                               *)
LEMMA FailoverInvInductive ==
    /\ Init => FailoverInv
    /\ FailoverInv /\ [Next]_vars => FailoverInv'
<1>1. Init => FailoverInv
  BY IdleCall DEF Init, FailoverInit, FailoverInv, CallAt
<1>2. [Next]_vars =>
        \/ KeepsMemory \/ Gone \/ Boot \/ \E a \in Agents : BlockExpires(a)
        \/ \E c \in Calls : StartCall(c) \/ CallStep(c)
  BY DEF vars, Next, ProcessStep, CallsNext, AcquireRead, AcquireWrite,
         UpdateDispatchStatus, RemovePIDFile, WorkerExits, FindNothing,
         FindAndTerm, KillSurvivors, RemoveStaleFile, Rebuild, CheckHealth,
         Launch, NoteRescue, RescueOver, AgentStep, AgentStops, AgentStarts,
         AgentGivesUp, RecordDispatch,
         Crash, Command, Cron, WindowSlides, LosesMemory, KeepsMemory
<1> QED
  BY <1>1, <1>2, CallsKeepFailoverInv, HostKeepsFailoverInv

(* However many activities share the circuit breakers, and however often   *)
(* chum is stopped, killed and started: an agent whose block was there     *)
(* when the worker started is not run before the block expires, except     *)
(* where a look-up of the block failed.                                    *)
THEOREM BlocksSurvive == Spec => []BlockSurvivesRestart
<1>1. FailoverInv => BlockSurvivesRestart
  BY DEF FailoverInv, BlockSurvivesRestart, excused
<1> QED
  BY <1>1, FailoverInvInductive, PTL DEF Spec

----------------------------------------------------------------------------
(* Processes.                                                              *)

Kinds == {"none", "worker", "stop", "restart", "watchdog", "agent"}

Pcs ==
    {"dead", "read", "write", "serve", "recording", "closing", "closed",
     "find", "kill", "clean", "build", "check", "launch", "note", "wait",
     "fix", "stopping"}

Records ==
    [kind : Kinds, pc : Pcs, targets : SUBSET Pids, child : Pids \cup {None}]

(* The domains of the process table and of chum.pid.                       *)
ProcInv ==
    /\ proc \in [Pids -> Records]
    /\ pidFile \in Pids \cup {None}
    /\ \A p \in Pids : proc[p].kind = "none" <=> proc[p].pc = "dead"
    /\ \A p \in Pids : proc[p].kind = "worker" => proc[p].child = None

(* p is in the middle of starting or stopping chum.                        *)
busyAt(p) ==
    \/ proc[p].kind \in {"stop", "restart"}
    \/ proc[p].kind = "worker" /\ proc[p].pc \in {"read", "write"}
    \/ proc[p].kind = "agent" /\ proc[p].pc = "stopping"

(* p is a worker that has written the pid file and not yet removed it.     *)
holds(p) ==
    proc[p].kind = "worker" /\ proc[p].pc \in {"serve", "recording", "closing"}

(* The process q was started by the rescue agent p to stop chum.           *)
stopsFor(p, q) == proc[p].kind = "agent" /\ proc[p].child = q

(* Who holds the pid file is the one it names; nobody starts or stops chum *)
(* beside another, except for a rescue agent and the process it waits for; *)
(* a worker that has found the file free finds nobody serving; after the   *)
(* signals only closing workers are left, after the kills none.            *)
InstanceInv ==
    /\ \A p \in Pids : holds(p) => pidFile = p
    /\ \A p, q \in Pids :
         busyAt(p) /\ busyAt(q) /\ p # q => stopsFor(p, q) \/ stopsFor(q, p)
    /\ \A p \in Pids :
         (proc[p].kind = "agent" /\ proc[p].child \in Pids) =>
            proc[proc[p].child].kind \in {"none", "stop"}
    /\ \A p, q \in Pids : At(p, "worker", "write") => ~holds(q)
    /\ \A p, q \in Pids :
         (proc[p].kind \in {"stop", "restart"} /\ proc[q].kind = "worker") =>
            /\ proc[p].pc = "kill" =>
                 q \in proc[p].targets /\ proc[q].pc \in {"closing", "closed"}
            /\ proc[p].pc \notin {"clean", "build"}

----------------------------------------------------------------------------
(* What the three ways to change a process do to its fields.               *)

(* The process p goes on, and keeps its kind and whom it waits for.        *)
GoesOn(p, c) ==
    /\ proc' \in [Pids -> Records]
    /\ \A q \in Pids \ {p} : proc'[q] = proc[q]
    /\ proc'[p].kind = proc[p].kind /\ proc'[p].pc = c
    /\ proc'[p].child = proc[p].child /\ proc'[p].targets = proc[p].targets

(* The process p is gone.                                                  *)
IsGone(p) ==
    /\ proc' \in [Pids -> Records]
    /\ \A q \in Pids \ {p} : proc'[q] = proc[q]
    /\ proc'[p].kind = "none" /\ proc'[p].pc = "dead"

(* The process p is new.                                                   *)
IsNew(p, k, c) ==
    /\ free(p)
    /\ proc' \in [Pids -> Records]
    /\ \A q \in Pids \ {p} : proc'[q] = proc[q]
    /\ proc'[p].kind = k /\ proc'[p].pc = c /\ proc'[p].child = None

(* Goto, Ends and a new Process have these effects.                        *)
LEMMA ProcessEffects ==
    ASSUME ProcInv, NEW p \in Pids
    PROVE  /\ \A c \in Pcs : Goto(p, c) => GoesOn(p, c)
           /\ Ends(p) => IsGone(p)
           /\ \A k \in Kinds, c \in Pcs :
                /\ Process(k, c) \in Records
                /\ Process(k, c).kind = k /\ Process(k, c).pc = c
                /\ Process(k, c).child = None
           /\ \A k \in Kinds, c \in Pcs :
                free(p) /\ proc' = [proc EXCEPT ![p] = Process(k, c)] =>
                  IsNew(p, k, c)
<1>1. ASSUME NEW c \in Pcs, Goto(p, c) PROVE GoesOn(p, c)
  <2> DEFINE x == [proc[p] EXCEPT !.pc = c]
  <2>1. /\ x \in Records /\ x.kind = proc[p].kind /\ x.pc = c
        /\ x.child = proc[p].child /\ x.targets = proc[p].targets
    BY DEF ProcInv, Records
  <2>2. proc' = [proc EXCEPT ![p] = x]
    BY <1>1 DEF Goto, ProcInv
  <2> HIDE DEF x
  <2> QED
    BY <2>1, <2>2 DEF ProcInv, GoesOn
<1>2. Dead \in Records /\ Dead.kind = "none" /\ Dead.pc = "dead"
  BY DEF Dead, Records, Kinds, Pcs
<1>3. ASSUME Ends(p) PROVE IsGone(p)
  BY <1>2, <1>3 DEF Ends, ProcInv, IsGone
<1>4. ASSUME NEW k \in Kinds, NEW c \in Pcs
      PROVE  /\ Process(k, c) \in Records
             /\ Process(k, c).kind = k /\ Process(k, c).pc = c
             /\ Process(k, c).child = None
  BY DEF Process, Dead, Records
<1>5. ASSUME NEW k \in Kinds, NEW c \in Pcs, free(p),
             proc' = [proc EXCEPT ![p] = Process(k, c)]
      PROVE  IsNew(p, k, c)
  BY <1>4, <1>5 DEF ProcInv, IsNew
<1> QED
  BY <1>1, <1>3, <1>4, <1>5

(* The conjunct of Host's busy, by process.                                *)
LEMMA BusyAt == busy <=> \E p \in Pids : busyAt(p)
  BY DEF busy, busyAt, At

(* The steps that leave the process table and the pid file alone.          *)
LEMMA QuietStep ==
    ASSUME ProcInv, InstanceInv, UNCHANGED <<proc, pidFile>>
    PROVE  ProcInv' /\ InstanceInv'
  BY DEF ProcInv, InstanceInv, busyAt, holds, stopsFor, At

(* A process that ends, pid file or not, takes nothing from the others.    *)
LEMMA GoneStep ==
    ASSUME ProcInv, InstanceInv, NEW p \in Pids, IsGone(p), UNCHANGED pidFile
    PROVE  ProcInv' /\ InstanceInv'
  BY DEF ProcInv, InstanceInv, busyAt, holds, stopsFor, At, IsGone

(* A process that goes on in a way that changes none of these.             *)
LEMMA PlainStep ==
    ASSUME ProcInv, InstanceInv, NEW p \in Pids, NEW c \in Pcs, GoesOn(p, c),
           UNCHANGED pidFile,
           \/ proc[p].kind = "watchdog" /\ c # "dead"
           \/ At(p, "worker", "serve") /\ c = "recording"
           \/ At(p, "worker", "recording") /\ c = "serve"
    PROVE  ProcInv' /\ InstanceInv'
  BY DEF ProcInv, InstanceInv, busyAt, holds, stopsFor, At, GoesOn

(* A new process that is not in the way of anyone.                         *)
LEMMA NewStep ==
    ASSUME ProcInv, InstanceInv, NEW p \in Pids, NEW k \in Kinds, NEW c \in Pcs,
           IsNew(p, k, c), UNCHANGED pidFile,
           \/ k = "watchdog" /\ c = "check"
           \/ k = "agent" /\ c = "fix"
           \/ ~busy /\ k = "worker" /\ c = "read"
           \/ ~busy /\ k \in {"stop", "restart"} /\ c = "find"
    PROVE  ProcInv' /\ InstanceInv'
<1>1. /\ ~alive(p)
      /\ \A q \in Pids : p # proc[q].child
  BY DEF IsNew, free, unused
<1>2. ProcInv'
  BY DEF ProcInv, IsNew
<1>3. \A q \in Pids : holds(q)' => holds(q) /\ q # p
  BY DEF IsNew, holds
<1>4. \A q \in Pids \ {p} : busyAt(q)' => busyAt(q)
  BY DEF IsNew, busyAt
<1>5. busyAt(p)' => ~busy
  BY DEF IsNew, busyAt
<1>6. \A q \in Pids : holds(q)' => pidFile' = q
  BY <1>3 DEF InstanceInv
<1>7. ASSUME NEW q \in Pids, NEW r \in Pids, busyAt(q)', busyAt(r)', q # r
      PROVE  stopsFor(q, r)' \/ stopsFor(r, q)'
  <2>1. q # p /\ r # p /\ busyAt(q) /\ busyAt(r)
    BY <1>4, <1>5, <1>7, BusyAt
  <2> QED
    BY <1>7, <2>1 DEF InstanceInv, stopsFor, IsNew
<1>8. ASSUME NEW q \in Pids, proc'[q].kind = "agent", proc'[q].child \in Pids
      PROVE  proc'[proc'[q].child].kind \in {"none", "stop"}
  <2>1. q # p
    BY <1>8, HostAssumption DEF IsNew
  <2> QED
    BY <1>1, <1>8, <2>1 DEF InstanceInv, IsNew
<1>9. \A q, r \in Pids : At(q, "worker", "write")' => ~holds(r)'
  BY <1>3 DEF InstanceInv, IsNew, At
<1>10. ASSUME NEW q \in Pids, NEW r \in Pids,
              proc'[q].kind \in {"stop", "restart"}, proc'[r].kind = "worker"
       PROVE  /\ proc'[q].pc = "kill" =>
                   r \in proc'[q].targets /\ proc'[r].pc \in {"closing", "closed"}
              /\ proc'[q].pc \notin {"clean", "build"}
  <2>1. CASE q = p
    BY <2>1, <1>10 DEF IsNew
  <2>2. CASE q # p
    <3>1. proc'[q] = proc[q] /\ busyAt(q)
      BY <1>10, <2>2 DEF IsNew, busyAt
    <3>2. r # p
      BY <1>10, <3>1, BusyAt DEF IsNew
    <3> QED
      BY <1>10, <3>1, <3>2 DEF InstanceInv, IsNew
  <2> QED
    BY <2>1, <2>2
<1> QED
  BY <1>2, <1>6, <1>7, <1>8, <1>9, <1>10 DEF InstanceInv

(* The last process that was starting or stopping chum makes way for a     *)
(* worker.                                                                 *)
LEMMA Replace ==
    ASSUME ProcInv, InstanceInv, NEW p \in Pids, NEW q \in Pids,
           alive(p), free(q), \A r \in Pids : busyAt(r) => r = p,
           proc' = [proc EXCEPT ![p] = Dead, ![q] = Process("worker", "read")],
           UNCHANGED pidFile
    PROVE  ProcInv' /\ InstanceInv'
<1>1. p # q /\ \A r \in Pids : proc[r].child # q
  BY DEF free, unused
<1>2. /\ Dead \in Records /\ Dead.kind = "none" /\ Dead.pc = "dead"
      /\ Process("worker", "read") \in Records
      /\ Process("worker", "read").kind = "worker"
      /\ Process("worker", "read").pc = "read"
      /\ Process("worker", "read").child = None
  <2>1. "worker" \in Kinds /\ "read" \in Pcs
    BY DEF Kinds, Pcs
  <2>2. Dead \in Records /\ Dead.kind = "none" /\ Dead.pc = "dead"
    BY DEF Dead, Records, Kinds, Pcs
  <2> QED
    BY <2>1, <2>2, ProcessEffects
<1>3. /\ proc' \in [Pids -> Records]
      /\ proc'[p].kind = "none" /\ proc'[p].pc = "dead"
      /\ proc'[q].kind = "worker" /\ proc'[q].pc = "read"
      /\ proc'[q].child = None
      /\ \A r \in Pids \ {p, q} : proc'[r] = proc[r]
  BY <1>1, <1>2 DEF ProcInv
<1>4. ProcInv'
  BY <1>3 DEF ProcInv
<1>5. \A r \in Pids : /\ busyAt(r)' => r = q
                      /\ holds(r)' => holds(r)
                      /\ proc'[r].kind \notin {"stop", "restart"}
                      /\ ~At(r, "worker", "write")'
  BY <1>3 DEF busyAt, holds, At
<1>6. \A r \in Pids :
        (proc'[r].kind = "agent" /\ proc'[r].child \in Pids) =>
           proc'[proc'[r].child].kind \in {"none", "stop"}
  BY <1>1, <1>3 DEF InstanceInv
<1> QED
  BY <1>4, <1>5, <1>6 DEF InstanceInv

(* A watchdog starts an agent, an agent the process that stops chum.       *)
LEMMA Spawn ==
    ASSUME ProcInv, InstanceInv, NEW p \in Pids, NEW q \in Pids, free(q),
           NEW c \in Pcs, NEW k \in Kinds, NEW d \in Pcs,
           \/ At(p, "watchdog", "launch") /\ c = "note" /\ k = "agent" /\ d = "fix"
           \/ /\ At(p, "agent", "fix") /\ ~busy
              /\ c = "stopping" /\ k = "stop" /\ d = "find",
           proc' = [proc EXCEPT ![p].pc = c, ![p].child = q, ![q] = Process(k, d)],
           UNCHANGED pidFile
    PROVE  ProcInv' /\ InstanceInv'
<1> DEFINE x == [proc[p] EXCEPT !.pc = c, !.child = q]
<1>1. p # q /\ \A r \in Pids : proc[r].child # q
  BY DEF free, unused, alive, At
<1>2. /\ x \in Records /\ x.kind = proc[p].kind /\ x.pc = c /\ x.child = q
  <2>1. proc[p] \in Records
    BY DEF ProcInv
  <2> QED
    BY <2>1 DEF Records
<1>3. /\ Process(k, d) \in Records
      /\ Process(k, d).kind = k /\ Process(k, d).pc = d
      /\ Process(k, d).child = None
  BY ProcessEffects
<1>4. proc' = [proc EXCEPT ![p] = x, ![q] = Process(k, d)]
  BY <1>1 DEF ProcInv
<1> HIDE DEF x
<1>5. /\ proc' \in [Pids -> Records]
      /\ proc'[p].kind = proc[p].kind /\ proc'[p].pc = c /\ proc'[p].child = q
      /\ proc'[q].kind = k /\ proc'[q].pc = d /\ proc'[q].child = None
      /\ \A r \in Pids \ {p, q} : proc'[r] = proc[r]
  BY <1>1, <1>2, <1>3, <1>4 DEF ProcInv
<1>6. ProcInv'
  BY <1>5 DEF ProcInv, At
<1>7. \A r \in Pids : /\ holds(r)' => holds(r) /\ r \notin {p, q}
                      /\ At(r, "worker", "write")' =>
                           At(r, "worker", "write") /\ r \notin {p, q}
                      /\ proc'[r].kind = "worker" => r \notin {p, q}
  BY <1>5 DEF holds, At
<1>8. ASSUME NEW r \in Pids, NEW s \in Pids, busyAt(r)', busyAt(s)', r # s
      PROVE  stopsFor(r, s)' \/ stopsFor(s, r)'
  <2>1. \A u \in Pids \ {p, q} : busyAt(u)' => busyAt(u)
    BY <1>5 DEF busyAt
  <2>2. CASE At(p, "watchdog", "launch") /\ k = "agent" /\ d = "fix"
    <3>1. ~busyAt(p)' /\ ~busyAt(q)'
      BY <1>5, <2>2 DEF busyAt, At
    <3> QED
      BY <1>5, <1>8, <2>1, <3>1 DEF InstanceInv, stopsFor
  <2>3. CASE At(p, "agent", "fix") /\ ~busy
    <3>1. r \in {p, q} /\ s \in {p, q}
      BY <1>8, <2>1, <2>3, BusyAt
    <3> QED
      BY <1>5, <1>8, <2>3, <3>1 DEF stopsFor, At
  <2> QED
    BY <2>2, <2>3
<1>9. ASSUME NEW r \in Pids, proc'[r].kind = "agent", proc'[r].child \in Pids
      PROVE  proc'[proc'[r].child].kind \in {"none", "stop"}
  <2>1. CASE r = p
    BY <1>5, <1>9, <2>1 DEF At
  <2>2. CASE r = q
    BY <1>5, <1>9, <2>2, HostAssumption
  <2>3. CASE r \notin {p, q}
    <3>1. proc'[r] = proc[r] /\ proc[r].child # q
      BY <1>1, <1>5, <2>3
    <3>2. proc[proc[r].child].kind \in {"none", "stop"} /\ proc[r].child # p
      BY <1>9, <3>1 DEF InstanceInv, At
    <3> QED
      BY <1>5, <1>9, <3>1, <3>2
  <2> QED
    BY <2>1, <2>2, <2>3
<1>10. ASSUME NEW r \in Pids, NEW s \in Pids,
              proc'[r].kind \in {"stop", "restart"}, proc'[s].kind = "worker"
       PROVE  /\ proc'[r].pc = "kill" =>
                   s \in proc'[r].targets /\ proc'[s].pc \in {"closing", "closed"}
              /\ proc'[r].pc \notin {"clean", "build"}
  <2>1. CASE r = q
    BY <1>5, <1>10, <2>1
  <2>2. CASE r # q
    BY <1>5, <1>7, <1>10, <2>2 DEF InstanceInv, At
  <2> QED
    BY <2>1, <2>2
<1>11. \A r, s \in Pids : At(r, "worker", "write")' => ~holds(s)'
  BY <1>7 DEF InstanceInv
<1>12. \A r \in Pids : holds(r)' => pidFile' = r
  BY <1>7 DEF InstanceInv
<1> QED
  BY <1>6, <1>8, <1>9, <1>10, <1>11, <1>12 DEF InstanceInv

(* A stop or a restart finds, or has left, no worker.                      *)
LEMMA DownStep ==
    ASSUME ProcInv, InstanceInv, NEW p \in Pids,
           proc[p].kind \in {"stop", "restart"},
           \A q \in Pids : proc[q].kind # "worker",
           proc' = [proc EXCEPT ![p] = ChumIsDown(p)],
           pidFile' \in {pidFile, None}
    PROVE  ProcInv' /\ InstanceInv'
<1>1. CASE proc[p].kind = "stop"
  <2>1. Ends(p)
    BY <1>1 DEF Ends, ChumIsDown
  <2> QED
    BY <1>1, <2>1, ProcessEffects
    DEF ProcInv, InstanceInv, busyAt, holds, stopsFor, At, IsGone
<1>2. CASE proc[p].kind = "restart"
  <2>1. proc' = [proc EXCEPT ![p] = [proc[p] EXCEPT !.pc = "build"]]
    BY <1>2 DEF ChumIsDown
  <2>2. Goto(p, "build")
    BY <2>1 DEF Goto, ProcInv
  <2>3. GoesOn(p, "build")
    BY <2>2, ProcessEffects DEF Pcs
  <2> QED
    BY <1>2, <2>3 DEF ProcInv, InstanceInv, busyAt, holds, stopsFor, At, GoesOn
<1> QED
  BY <1>1, <1>2

(* Where commands do not overlap, ProcInv and InstanceInv are inductive.   *)
LEMMA InstanceInvInductive ==
    /\ Init => ProcInv /\ InstanceInv
    /\ ~world.overlap /\ ProcInv /\ InstanceInv /\ [Next]_vars
         => ProcInv' /\ InstanceInv'
<1> DEFINE Goal == ProcInv' /\ InstanceInv'
<1>1. Init => ProcInv /\ InstanceInv
  <2>1. Dead \in Records /\ Dead.kind = "none" /\ Dead.pc = "dead"
    BY DEF Dead, Records, Kinds, Pcs
  <2> QED
    BY <2>1 DEF Init, ProcInv, InstanceInv, busyAt, holds, At
<1>2. ASSUME ~world.overlap, ProcInv, InstanceInv, [Next]_vars
      PROVE  Goal
  <2> USE <1>2
  <2>1. CASE UNCHANGED vars
    BY <2>1, QuietStep DEF vars, hostVars
  <2>2. ASSUME NEW p \in Pids, AcquireRead(p) PROVE Goal
    <3>1. CASE Ends(p)
      BY <2>2, <3>1, ProcessEffects, GoneStep DEF AcquireRead
    <3>2. CASE ~heldBy(pidFile) /\ Goto(p, "write")
      <4>1. GoesOn(p, "write") /\ At(p, "worker", "read") /\ UNCHANGED pidFile
        BY <2>2, <3>2, ProcessEffects DEF AcquireRead, Pcs
      <4>2. \A q \in Pids : ~holds(q)
        BY <3>2, HostAssumption DEF heldBy, alive, holds, InstanceInv
      <4> QED
        BY <4>1, <4>2
        DEF ProcInv, InstanceInv, busyAt, holds, stopsFor, At, GoesOn
    <3> QED
      BY <2>2, <3>1, <3>2 DEF AcquireRead
  <2>3. ASSUME NEW p \in Pids, AcquireWrite(p) PROVE Goal
    <3>1. GoesOn(p, "serve") /\ At(p, "worker", "write") /\ pidFile' = p
      BY <2>3, ProcessEffects DEF AcquireWrite, Pcs
    <3> QED
      BY <3>1 DEF ProcInv, InstanceInv, busyAt, holds, stopsFor, At, GoesOn
  <2>4. ASSUME NEW p \in Pids, RecordDispatch(p) \/ UpdateDispatchStatus(p)
        PROVE  Goal
    BY <2>4, ProcessEffects, PlainStep
    DEF RecordDispatch, UpdateDispatchStatus, Pcs
  <2>5. ASSUME NEW p \in Pids, RemovePIDFile(p) PROVE Goal
    <3>1. GoesOn(p, "closed") /\ At(p, "worker", "closing") /\ pidFile' = None
      BY <2>5, ProcessEffects DEF RemovePIDFile, Pcs
    <3> QED
      BY <3>1 DEF ProcInv, InstanceInv, busyAt, holds, stopsFor, At, GoesOn
  <2>6. ASSUME NEW p \in Pids,
               WorkerExits(p) \/ Crash(p) \/ RescueOver(p) \/ AgentGivesUp(p)
        PROVE  Goal
    BY <2>6, ProcessEffects, GoneStep
    DEF WorkerExits, Crash, RescueOver, AgentGivesUp
  <2>7. ASSUME NEW p \in Pids, FindAndTerm(p) PROVE Goal
    <3> DEFINE targets == findChumProcesses(p)
               x == [proc[p] EXCEPT !.pc = "kill", !.targets = targets]
    <3>1. /\ proc[p].kind \in {"stop", "restart"} /\ proc[p].pc = "find"
          /\ UNCHANGED pidFile
          /\ proc' = [q \in Pids |-> IF q = p THEN x
                                     ELSE IF q \in targets THEN terminated(q)
                                     ELSE proc[q]]
      BY <2>7 DEF FindAndTerm
    <3>2. /\ x \in Records /\ x.kind = proc[p].kind /\ x.pc = "kill"
          /\ x.targets = targets /\ x.child = proc[p].child
      BY DEF ProcInv, Records, Pcs, findChumProcesses
    <3>3. ASSUME NEW q \in Pids
          PROVE  \/ terminated(q) = proc[q] /\ proc[q].pc \in {"closing", "closed"}
                 \/ /\ serving(q) /\ terminated(q) \in Records
                    /\ terminated(q).kind = "worker"
                    /\ terminated(q).pc = "closing"
                    /\ terminated(q).child = proc[q].child
                 \/ /\ terminated(q) \in Records
                    /\ terminated(q).kind = "none" /\ terminated(q).pc = "dead"
      <4>1. Dead \in Records /\ Dead.kind = "none" /\ Dead.pc = "dead"
        BY DEF Dead, Records, Kinds, Pcs
      <4>2. /\ [proc[q] EXCEPT !.pc = "closing"] \in Records
            /\ [proc[q] EXCEPT !.pc = "closing"].pc = "closing"
            /\ [proc[q] EXCEPT !.pc = "closing"].kind = proc[q].kind
            /\ [proc[q] EXCEPT !.pc = "closing"].child = proc[q].child
        BY DEF ProcInv, Records, Pcs
      <4>3. serving(q) => proc[q].kind = "worker" /\ proc[q].pc \notin {"closing", "closed"}
        BY DEF serving
      <4>4. CASE serving(q)
        BY <4>2, <4>3, <4>4 DEF terminated
      <4>5. CASE ~serving(q) /\ proc[q].pc \in {"closing", "closed"}
        BY <4>5 DEF terminated
      <4>6. CASE ~serving(q) /\ proc[q].pc \notin {"closing", "closed"}
        BY <4>1, <4>6 DEF terminated
      <4> QED
        BY <4>4, <4>5, <4>6
    <3>4. /\ targets \subseteq Pids \ {p}
          /\ \A q \in Pids \ {p} : proc[q].kind = "worker" => q \in targets
      BY HostAssumption DEF findChumProcesses, ProcInv, alive, isChum
    <3> HIDE DEF x, targets
    <3>5. /\ proc'[p] = x
          /\ \A q \in targets : proc'[q] = terminated(q)
          /\ \A q \in Pids \ {p} : q \notin targets => proc'[q] = proc[q]
      BY <3>1, <3>4
    <3>6. ProcInv'
      <4>1. \A q \in Pids \ {p} :
              /\ proc'[q] \in Records
              /\ proc'[q].kind = "none" <=> proc'[q].pc = "dead"
              /\ proc'[q].kind = "worker" => proc'[q].child = None
        BY <3>3, <3>4, <3>5 DEF ProcInv, serving
      <4> QED
        BY <3>1, <3>2, <3>5, <4>1 DEF ProcInv
    <3>7. \A q \in Pids \ {p} :
            proc'[q].kind = "worker" =>
              /\ q \in targets /\ proc'[q].pc \in {"closing", "closed"}
              /\ proc'[q].pc = "closing" => holds(q)
      <4> SUFFICES ASSUME NEW q \in Pids \ {p}, proc'[q].kind = "worker"
                   PROVE  /\ q \in targets /\ proc'[q].pc \in {"closing", "closed"}
                          /\ proc'[q].pc = "closing" => holds(q)
        OBVIOUS
      <4>1. q \in targets
        BY <3>4, <3>5
      <4> QED
        BY <3>3, <3>5, <4>1 DEF holds, serving
    <3>8. \A q \in Pids \ {p} : proc'[q].kind # "worker" =>
            proc'[q] = proc[q] \/ proc'[q].kind = "none"
      BY <3>3, <3>5 DEF serving
    <3>9. \A q \in Pids : holds(q)' => pidFile' = q
      BY <3>1, <3>2, <3>5, <3>7 DEF holds, InstanceInv
    <3>10. \A q \in Pids \ {p} : busyAt(q)' => proc'[q] = proc[q]
      BY <3>7, <3>8 DEF busyAt
    <3>11. ASSUME NEW q \in Pids, NEW r \in Pids, busyAt(q)', busyAt(r)', q # r
           PROVE  stopsFor(q, r)' \/ stopsFor(r, q)'
      <4>1. busyAt(p) /\ (q # p => busyAt(q)) /\ (r # p => busyAt(r))
        BY <3>1, <3>10, <3>11 DEF busyAt
      <4>2. stopsFor(q, r) \/ stopsFor(r, q)
        BY <3>11, <4>1 DEF InstanceInv
      <4> QED
        BY <3>2, <3>5, <3>10, <3>11, <4>2 DEF stopsFor
    <3>12. ASSUME NEW q \in Pids, proc'[q].kind = "agent", proc'[q].child \in Pids
           PROVE  proc'[proc'[q].child].kind \in {"none", "stop"}
      <4>1. q # p /\ proc'[q] = proc[q]
        BY <3>1, <3>2, <3>5, <3>8, <3>12
      <4>2. proc[proc[q].child].kind \in {"none", "stop"}
        BY <3>12, <4>1 DEF InstanceInv
      <4>3. CASE proc[q].child = p
        BY <3>2, <3>5, <4>1, <4>2, <4>3
      <4>4. CASE proc[q].child # p
        <5>1. proc'[proc[q].child].kind # "worker"
          BY <3>3, <3>5, <3>12, <4>1, <4>2, <4>4 DEF serving
        <5> QED
          BY <3>8, <3>12, <4>1, <4>2, <4>4, <5>1
      <4> QED
        BY <4>3, <4>4
    <3>13. \A q, r \in Pids : At(q, "worker", "write")' => ~holds(r)'
      BY <3>1, <3>2, <3>5, <3>7 DEF At
    <3>14. ASSUME NEW q \in Pids, NEW r \in Pids,
                  proc'[q].kind \in {"stop", "restart"}, proc'[r].kind = "worker"
           PROVE  /\ proc'[q].pc = "kill" =>
                       r \in proc'[q].targets /\ proc'[r].pc \in {"closing", "closed"}
                  /\ proc'[q].pc \notin {"clean", "build"}
      <4>1. q = p
        <5> SUFFICES ASSUME q # p PROVE FALSE
          OBVIOUS
        <5>1. busyAt(p) /\ busyAt(q) /\ proc[q].kind \in {"stop", "restart"}
          BY <3>1, <3>8, <3>14 DEF busyAt
        <5> QED
          BY <3>1, <5>1 DEF InstanceInv, stopsFor
      <4>2. r # p
        BY <3>1, <3>2, <3>5, <3>14
      <4> QED
        BY <3>2, <3>5, <3>7, <3>14, <4>1, <4>2
    <3> QED
      BY <3>6, <3>9, <3>11, <3>12, <3>13, <3>14 DEF InstanceInv
  <2>8. ASSUME NEW p \in Pids, KillSurvivors(p) PROVE Goal
    <3> DEFINE x == [proc[p] EXCEPT !.pc = "clean", !.targets = {}]
    <3>1. /\ proc[p].kind \in {"stop", "restart"} /\ proc[p].pc = "kill"
          /\ UNCHANGED pidFile
          /\ proc' = [q \in Pids |-> IF q = p THEN x
                                     ELSE IF q \in survivors(p) THEN Dead
                                     ELSE proc[q]]
      BY <2>8 DEF KillSurvivors
    <3>2. /\ x \in Records /\ x.kind = proc[p].kind /\ x.pc = "clean"
          /\ x.child = proc[p].child
      <4>1. proc[p] \in Records
        BY DEF ProcInv
      <4> QED
        BY <4>1 DEF Records, Pcs
    <3>3. Dead \in Records /\ Dead.kind = "none" /\ Dead.pc = "dead"
      BY DEF Dead, Records, Kinds, Pcs
    <3> HIDE DEF x
    <3>4. ProcInv' /\ \A q \in Pids \ {p} :
                        proc'[q] = proc[q] \/ proc'[q].kind = "none"
      BY <3>1, <3>2, <3>3 DEF ProcInv
    <3>5. \A q \in Pids : proc'[q].kind # "worker"
      BY <3>1, <3>2, <3>3 DEF ProcInv, InstanceInv, survivors, alive
    <3>6. proc'[p] = x
      BY <3>1
    <3>7. \A q, r \in Pids :
            busyAt(q)' /\ busyAt(r)' /\ q # r => stopsFor(q, r)' \/ stopsFor(r, q)'
      BY <3>1, <3>2, <3>4, <3>6 DEF InstanceInv, busyAt, stopsFor
    <3>8. \A q \in Pids :
            (proc'[q].kind = "agent" /\ proc'[q].child \in Pids) =>
               proc'[proc'[q].child].kind \in {"none", "stop"}
      BY <3>1, <3>2, <3>4, <3>6 DEF InstanceInv
    <3> QED
      BY <3>4, <3>5, <3>7, <3>8 DEF InstanceInv, holds, At
  <2>9. ASSUME NEW p \in Pids, RemoveStaleFile(p) PROVE Goal
    <3>1. /\ proc[p].kind \in {"stop", "restart"} /\ proc[p].pc = "clean"
          /\ pidFile' = None
      BY <2>9 DEF RemoveStaleFile
    <3>2. \A q \in Pids : proc[q].kind # "worker"
      BY <3>1 DEF InstanceInv
    <3> QED
      BY <2>9, <3>1, <3>2, DownStep DEF RemoveStaleFile
  <2>10. ASSUME NEW p \in Pids, Rebuild(p) PROVE Goal
    <3>1. CASE Ends(p)
      BY <2>10, <3>1, ProcessEffects, GoneStep DEF Rebuild
    <3>2. ASSUME NEW q \in Pids, free(q),
                 proc' = [proc EXCEPT ![p] = Dead,
                                      ![q] = Process("worker", "read")]
          PROVE  Goal
      <4>1. At(p, "restart", "build") /\ UNCHANGED pidFile
        BY <2>10 DEF Rebuild
      <4>2. ASSUME NEW r \in Pids, busyAt(r) PROVE r = p
        BY <4>1, <4>2 DEF InstanceInv, busyAt, stopsFor, At
      <4>3. alive(p)
        BY <4>1 DEF At, alive
      <4> QED
        BY <3>2, <4>1, <4>2, <4>3, Replace
    <3> QED
      BY <2>10, <3>1, <3>2 DEF Rebuild
  <2>11. ASSUME NEW p \in Pids, Command(p) PROVE Goal
    BY <2>11, ProcessEffects, NewStep DEF Command, StartsWorker, Kinds, Pcs
  <2>12. ASSUME NEW p \in Pids, Cron(p) PROVE Goal
    <3>1. /\ free(p) /\ proc' = [proc EXCEPT ![p] = Process("watchdog", "check")]
          /\ UNCHANGED pidFile
      BY <2>12 DEF Cron
    <3>2. "watchdog" \in Kinds /\ "check" \in Pcs
      BY DEF Kinds, Pcs
    <3>3. IsNew(p, "watchdog", "check")
      BY <3>1, <3>2, ProcessEffects
    <3> QED
      BY <3>1, <3>2, <3>3, NewStep
  <2>13. ASSUME NEW p \in Pids, CheckHealth(p) PROVE Goal
    <3>1. CASE Ends(p)
      BY <2>13, <3>1, ProcessEffects, GoneStep DEF CheckHealth
    <3>2. CASE Goto(p, "launch")
      BY <2>13, <3>2, ProcessEffects, PlainStep DEF CheckHealth, At, Pcs
    <3> QED
      BY <2>13, <3>1, <3>2 DEF CheckHealth
  <2>14. ASSUME NEW p \in Pids, Launch(p) PROVE Goal
    <3>1. PICK q \in Pids :
            free(q) /\ proc' = [proc EXCEPT ![p].pc = "note", ![p].child = q,
                                            ![q] = Process("agent", "fix")]
      BY <2>14 DEF Launch
    <3>2. At(p, "watchdog", "launch") /\ UNCHANGED pidFile
      BY <2>14 DEF Launch
    <3>3. "note" \in Pcs /\ "fix" \in Pcs /\ "agent" \in Kinds
      BY DEF Pcs, Kinds
    <3> QED
      BY <3>1, <3>2, <3>3, Spawn
  <2>15. ASSUME NEW p \in Pids, NoteRescue(p) PROVE Goal
    BY <2>15, ProcessEffects, PlainStep DEF NoteRescue, At, Pcs
  <2>16. ASSUME NEW p \in Pids, AgentStops(p) PROVE Goal
    <3>1. PICK q \in Pids :
            free(q) /\ proc' = [proc EXCEPT ![p].pc = "stopping", ![p].child = q,
                                            ![q] = Process("stop", "find")]
      BY <2>16 DEF AgentStops
    <3>2. At(p, "agent", "fix") /\ ~busy /\ UNCHANGED pidFile
      BY <2>16 DEF AgentStops
    <3>3. "stopping" \in Pcs /\ "find" \in Pcs /\ "stop" \in Kinds
      BY DEF Pcs, Kinds
    <3> QED
      BY <3>1, <3>2, <3>3, Spawn
  <2>17. ASSUME NEW p \in Pids, FindNothing(p) PROVE Goal
    <3>1. /\ proc[p].kind \in {"stop", "restart"} /\ UNCHANGED pidFile
          /\ \A q \in Pids : proc[q].kind # "worker"
      BY <2>17, HostAssumption
      DEF FindNothing, findChumProcesses, ProcInv, alive, isChum
    <3> QED
      BY <2>17, <3>1, DownStep DEF FindNothing
  <2>18. ASSUME NEW p \in Pids, AgentStarts(p) PROVE Goal
    <3>1. PICK q \in Pids :
            free(q) /\ proc' = [proc EXCEPT ![p] = Dead,
                                            ![q] = Process("worker", "read")]
      BY <2>18 DEF AgentStarts
    <3>2. /\ At(p, "agent", "stopping") /\ ~alive(proc[p].child)
          /\ UNCHANGED pidFile
      BY <2>18 DEF AgentStarts
    <3>3. ASSUME NEW r \in Pids, busyAt(r) PROVE r = p
      <4> SUFFICES ASSUME r # p PROVE FALSE
        OBVIOUS
      <4>1. busyAt(p) /\ alive(r)
        BY <3>2, <3>3 DEF busyAt, At, ProcInv, alive
      <4>2. proc[r].kind = "agent" /\ proc[r].child = p
        BY <3>2, <3>3, <4>1 DEF InstanceInv, stopsFor
      <4> QED
        BY <3>2, <4>2 DEF InstanceInv, At
    <3>4. alive(p)
      BY <3>2 DEF At, alive
    <3> QED
      BY <3>1, <3>2, <3>3, <3>4, Replace
  <2>19. CASE WindowSlides \/ CallsNext
    BY <2>19, QuietStep DEF WindowSlides, CallsNext, hostVars
  <2> QED
    BY <2>1, <2>2, <2>3, <2>4, <2>5, <2>6, <2>7, <2>8, <2>9, <2>10, <2>11,
       <2>12, <2>13, <2>14, <2>15, <2>16, <2>17, <2>18, <2>19
    DEF Next, ProcessStep, AgentStep
<1> QED
  BY <1>1, <1>2

(* Circumstances do not change.                                            *)
LEMMA WorldIsFixed == [Next]_vars => UNCHANGED world
  BY DEF vars, Next, ProcessStep, CallsNext, AcquireRead, AcquireWrite,
         UpdateDispatchStatus, RemovePIDFile, WorkerExits, FindNothing,
         FindAndTerm, KillSurvivors, RemoveStaleFile, Rebuild, CheckHealth,
         Launch, NoteRescue, RescueOver, AgentStep, AgentStops, AgentStarts,
         AgentGivesUp, RecordDispatch,
         Crash, Command, Cron, WindowSlides, Env

(* However many processes crash at whatever point, one worker serves at a  *)
(* time, as long as commands wait for each other: the pid file, which      *)
(* anybody may remove, is only ever removed when no worker serves.         *)
THEOREM OneServes == Spec => []OneInstance
<1> DEFINE IInv == ~world.overlap => ProcInv /\ InstanceInv
<1>1. IInv => OneInstance
  <2> SUFFICES ASSUME ProcInv, InstanceInv PROVE Cardinality(Serving) <= 1
    BY DEF OneInstance
  <2>1. Serving \subseteq {pidFile}
    BY DEF InstanceInv, Serving, serving, holds
  <2>2. /\ IsFiniteSet({pidFile}) /\ Cardinality({pidFile}) = 1
    BY FS_Singleton
  <2>3. Cardinality(Serving) <= Cardinality({pidFile})
    BY <2>1, <2>2, FS_Subset
  <2> QED
    BY <2>2, <2>3
<1>2. Init => IInv
  BY InstanceInvInductive
<1>3. IInv /\ [Next]_vars => IInv'
  BY InstanceInvInductive, WorldIsFixed
<1> QED
  BY <1>1, <1>2, <1>3, PTL DEF Spec

=============================================================================
