-------------------------------- MODULE Host --------------------------------
(***************************************************************************)
(* The processes of a host that runs chum (cmd/chum): the worker that      *)
(* serves tasks, "chum stop" and "chum restart", the watchdog that cron    *)
(* starts, and the rescue agent the watchdog launches, which stops chum    *)
(* and starts it again.  They meet in two files that hold a process        *)
(* identifier, and in the dispatches table.                                *)
(*                                                                         *)
(* Processes die at any time, a bounded number of times.  The pid of a     *)
(* dead process is given to a new one only when nothing refers to it.      *)
(***************************************************************************)
EXTENDS AgentFailover

CONSTANTS
    Pids,          \* process identifiers
    Burning,       \* failures in 30 minutes that are critical (5)
    Repeating,     \* equal failures that are critical (3)
    MaxCrashes,    \* bound: processes that die by themselves
    Worlds,        \* the circumstances
    None

VARIABLES
    proc,          \* the process table
    pidFile,       \* chum.pid
    rescueFile,    \* /tmp/chum-rescue.pid
    recent,        \* dispatches of the last 30 minutes, by status
    orphans,       \* is there a dispatch that is "running" for ever?
    crashes,       \* how often a process died
    commands,      \* commands the operator gave
    world

hostVars == <<proc, pidFile, rescueFile, recent, orphans>>
vars == <<hostVars, failoverVars, crashes, commands, world>>

ASSUME HostAssumption ==
    /\ Pids \subseteq Nat \ {0} /\ None = 0
    /\ Burning \in Nat \ {0} /\ Repeating \in 1..Burning
    /\ MaxCrashes \in Nat
    /\ Worlds \subseteq [overlap : BOOLEAN, calls : BOOLEAN, commands : Nat]

Dead == [kind |-> "none", pc |-> "dead", targets |-> {}, child |-> None]

Process(kind, pc) == [Dead EXCEPT !.kind = kind, !.pc = pc]

Init ==
    /\ FailoverInit
    /\ proc = [p \in Pids |-> Dead]
    /\ pidFile = None /\ rescueFile = None
    /\ recent = [completed |-> 0, failed |-> 0] /\ orphans = FALSE
    /\ crashes = 0 /\ commands = 0
    /\ world \in Worlds

alive(p) == proc[p].pc # "dead"

At(p, kind, pc) == proc[p].kind = kind /\ proc[p].pc = pc

serving(p) == proc[p].kind = "worker" /\ proc[p].pc \in {"serve", "recording"}

Serving == {p \in Pids : serving(p)}

(* A pid that the kernel may give to a new process, and the one it gives.  *)
unused(p) ==
    /\ ~alive(p) /\ p \notin {pidFile, rescueFile}
    /\ \A q \in Pids : p \notin proc[q].targets /\ p # proc[q].child

free(p) == unused(p) /\ \A q \in Pids : q < p => ~unused(q)

Goto(p, pc) == proc' = [proc EXCEPT ![p].pc = pc]

Ends(p) == proc' = [proc EXCEPT ![p] = Dead]

(* The activities of a worker end with it.                                 *)
KeepsMemory == UNCHANGED failoverVars

LosesMemory(stops) == IF stops THEN Gone ELSE KeepsMemory

Env == UNCHANGED <<crashes, commands, world>>

----------------------------------------------------------------------------
(* The worker.                                                             *)

(* An exec of the chum binary as a worker.                                 *)
StartsWorker(p) == free(p) /\ proc' = [proc EXCEPT ![p] = Process("worker", "read")]

(* Mutant of heldBy: the file is overwritten, whoever runs.                *)
neverHeld(file) == FALSE

(* Mutant of heldBy: a file is taken for a running process.                *)
fileExists(file) == file # None

(* The process of a pid file is asked for with signal 0.                   *)
heldBy(file) == file # None /\ alive(file)

(* acquirePIDFile reads: another live instance is a reason to give up.     *)
AcquireRead(p) ==
    /\ At(p, "worker", "read")
    /\ IF heldBy(pidFile) THEN Ends(p) ELSE Goto(p, "write")
    /\ KeepsMemory /\ Env
    /\ UNCHANGED <<pidFile, rescueFile, recent, orphans>>

(* ... and writes.  From here on the worker serves.                        *)
AcquireWrite(p) ==
    /\ At(p, "worker", "write")
    /\ pidFile' = p
    /\ Goto(p, "serve")
    /\ Boot /\ Env
    /\ UNCHANGED <<rescueFile, recent, orphans>>

(* RecordOutcomeActivity inserts a dispatch, whose status is "running" ... *)
RecordDispatch(p) ==
    /\ At(p, "worker", "serve") /\ ~world.calls
    /\ Goto(p, "recording")
    /\ KeepsMemory /\ Env
    /\ UNCHANGED <<pidFile, rescueFile, recent, orphans>>

(* ... and then updates it; an error is only logged.  Bound: the window is *)
(* counted as far as the verdict tells counts apart.                       *)
Told == [completed |-> 1, failed |-> Burning]

UpdateDispatchStatus(p) ==
    /\ At(p, "worker", "recording")
    /\ Goto(p, "serve")
    /\ \/ /\ \E s \in {"completed", "failed"} :
               recent' = [recent EXCEPT ![s] = IF @ < Told[s] THEN @ + 1 ELSE @]
          /\ UNCHANGED orphans
       \/ orphans' = TRUE /\ UNCHANGED recent
    /\ KeepsMemory /\ Env
    /\ UNCHANGED <<pidFile, rescueFile>>

(* Half an hour without dispatches goes by.                                *)
WindowSlides ==
    /\ recent' = [completed |-> 0, failed |-> 0]
    /\ KeepsMemory /\ Env
    /\ UNCHANGED <<proc, pidFile, rescueFile, orphans>>

(* SIGTERM or SIGINT of a worker that serves: main returns and its         *)
(* deferred calls run; among them os.Remove of the pid file.               *)
RemovePIDFile(p) ==
    /\ At(p, "worker", "closing")
    /\ pidFile' = None /\ Goto(p, "closed")
    /\ KeepsMemory /\ Env
    /\ UNCHANGED <<rescueFile, recent, orphans>>

WorkerExits(p) ==
    /\ At(p, "worker", "closed") /\ Ends(p)
    /\ KeepsMemory /\ Env
    /\ UNCHANGED <<pidFile, rescueFile, recent, orphans>>

(* What SIGTERM makes of a process: a worker that has installed its        *)
(* handler closes, everything else dies.                                   *)
terminated(p) ==
    CASE serving(p) -> [proc[p] EXCEPT !.pc = "closing"]
      [] proc[p].pc \in {"closing", "closed"} -> proc[p]
      [] OTHER -> Dead

(* A crash, SIGKILL by the kernel, or a reboot of one process.             *)
Crash(p) ==
    /\ crashes < MaxCrashes /\ alive(p)
    /\ crashes' = crashes + 1
    /\ Ends(p)
    /\ orphans' = (orphans \/ At(p, "worker", "recording"))
    /\ LosesMemory(serving(p))
    /\ UNCHANGED <<pidFile, rescueFile, recent, commands, world>>

----------------------------------------------------------------------------
(* chum stop and chum restart.                                             *)

isChum(p) == proc[p].kind \in {"worker", "stop", "restart", "watchdog"}

(* What becomes of a stop or a restart when chum is down.  (Stop also      *)
(* terminates the workflows that run; restart builds and starts.)          *)
ChumIsDown(p) ==
    IF proc[p].kind = "stop" THEN Dead ELSE [proc[p] EXCEPT !.pc = "build"]

(* All processes of chum, except for itself and its parent.                *)
findChumProcesses(p) ==
    {q \in Pids \ {p} : alive(q) /\ isChum(q) /\ proc[q].child # p}

(* Nothing is found: the pid file, if there is one, stays.                 *)
FindNothing(p) ==
    /\ proc[p].kind \in {"stop", "restart"} /\ proc[p].pc = "find"
    /\ findChumProcesses(p) = {}
    /\ proc' = [proc EXCEPT ![p] = ChumIsDown(p)]
    /\ KeepsMemory /\ Env
    /\ UNCHANGED <<pidFile, rescueFile, recent, orphans>>

(* SIGTERM to all that are found.                                          *)
FindAndTerm(p) ==
    /\ proc[p].kind \in {"stop", "restart"} /\ proc[p].pc = "find"
    /\ LET targets == findChumProcesses(p)
       IN  /\ targets # {}
           /\ proc' = [q \in Pids |->
                IF q = p THEN [proc[p] EXCEPT !.pc = "kill", !.targets = targets]
                ELSE IF q \in targets THEN terminated(q) ELSE proc[q]]
           /\ orphans' = (orphans \/ \E q \in targets : At(q, "worker", "recording"))
           /\ LosesMemory(targets \cap Serving # {})
    /\ Env
    /\ UNCHANGED <<pidFile, rescueFile, recent>>

survivors(p) == {q \in proc[p].targets : alive(q)}

(* After some seconds, SIGKILL to those that are left ...                  *)
KillSurvivors(p) ==
    /\ proc[p].kind \in {"stop", "restart"} /\ proc[p].pc = "kill"
    /\ proc' = [q \in Pids |->
         IF q = p THEN [proc[p] EXCEPT !.pc = "clean", !.targets = {}]
         ELSE IF q \in survivors(p) THEN Dead ELSE proc[q]]
    /\ KeepsMemory /\ Env
    /\ UNCHANGED <<pidFile, rescueFile, recent, orphans>>

(* ... and os.Remove of the pid file, whoever wrote it.                    *)
RemoveStaleFile(p) ==
    /\ proc[p].kind \in {"stop", "restart"} /\ proc[p].pc = "clean"
    /\ pidFile' = None
    /\ proc' = [proc EXCEPT ![p] = ChumIsDown(p)]
    /\ KeepsMemory /\ Env
    /\ UNCHANGED <<rescueFile, recent, orphans>>

(* rebuildBinary: a failed build is the end, with nothing running.         *)
Rebuild(p) ==
    /\ At(p, "restart", "build")
    /\ \/ Ends(p)
       \/ \E q \in Pids : /\ free(q)
                          /\ proc' = [proc EXCEPT ![p] = Dead,
                                                  ![q] = Process("worker", "read")]
    /\ KeepsMemory /\ Env
    /\ UNCHANGED <<pidFile, rescueFile, recent, orphans>>

(* Is somebody in the middle of starting or stopping chum?                 *)
busy ==
    \E p \in Pids : \/ proc[p].kind \in {"stop", "restart"}
                    \/ proc[p].kind = "worker" /\ proc[p].pc \in {"read", "write"}
                    \/ At(p, "agent", "stopping")

(* An operator, or systemd after a crash, gives a command.  Bound: a       *)
(* number of them, and one more per crash.                                 *)
Command(p) ==
    /\ commands < world.commands + crashes /\ free(p)
    /\ world.overlap \/ ~busy
    /\ commands' = commands + 1
    /\ \/ StartsWorker(p)
       \/ \E kind \in {"stop", "restart"} :
            proc' = [proc EXCEPT ![p] = Process(kind, "find")]
    /\ KeepsMemory
    /\ UNCHANGED <<pidFile, rescueFile, recent, orphans, crashes, world>>

----------------------------------------------------------------------------
(* The watchdog and the rescue agent.                                      *)

(* runHealthCheck: what the dispatches of the last 30 minutes, and all     *)
(* that are still "running", say.  same: the failures have one summary.    *)
verdict(same) ==
    LET running == IF orphans \/ \E p \in Pids : At(p, "worker", "recording")
                   THEN 1 ELSE 0
        dispatches == recent.completed + recent.failed
        stuck == dispatches = 0 /\ running = 0
    IN  CASE stuck -> "critical"
          [] recent.completed = 0 /\ recent.failed >= Burning -> "critical"
          [] recent.completed = 0 /\ recent.failed >= Repeating /\ same -> "critical"
          [] recent.completed = 0 /\ recent.failed > 0 -> "degraded"
          [] OTHER -> "healthy"

(* cron starts a watchdog.  Timing: its period is minutes, so the last one  *)
(* has launched or given up by then, and who was starting or stopping chum *)
(* has done so; a rescue agent that is still fixing may take longer.       *)
(* Bound: pids are left for what the watchdog brings about.                *)
Cron(p) ==
    /\ free(p) /\ ~world.calls /\ ~busy
    /\ Cardinality({q \in Pids : unused(q)}) >= 3
    /\ \A q \in Pids : proc[q].kind = "watchdog" => proc[q].pc = "wait"
    /\ proc' = [proc EXCEPT ![p] = Process("watchdog", "check")]
    /\ KeepsMemory /\ Env
    /\ UNCHANGED <<pidFile, rescueFile, recent, orphans>>

(* The verdict, and the check for a rescue agent that runs already.        *)
CheckHealth(p) ==
    /\ At(p, "watchdog", "check")
    /\ \E same \in BOOLEAN :
         IF verdict(same) # "critical" \/ heldBy(rescueFile)
         THEN Ends(p) /\ UNCHANGED rescueFile
         ELSE Goto(p, "launch") /\ rescueFile' = None
    /\ KeepsMemory /\ Env
    /\ UNCHANGED <<pidFile, recent, orphans>>

(* launchRescueAgent starts the agent ...  (A start that fails counts as a *)
(* crash of the watchdog.)                                                 *)
Launch(p) ==
    /\ At(p, "watchdog", "launch")
    /\ \E q \in Pids : /\ free(q)
                       /\ proc' = [proc EXCEPT ![p].pc = "note", ![p].child = q,
                                               ![q] = Process("agent", "fix")]
    /\ KeepsMemory /\ Env
    /\ UNCHANGED <<pidFile, rescueFile, recent, orphans>>

(* ... writes its pid ...                                                  *)
NoteRescue(p) ==
    /\ At(p, "watchdog", "note")
    /\ rescueFile' = proc[p].child /\ Goto(p, "wait")
    /\ KeepsMemory /\ Env
    /\ UNCHANGED <<pidFile, recent, orphans>>

(* ... and waits for it, whoever else is rescuing by then.                 *)
RescueOver(p) ==
    /\ At(p, "watchdog", "wait") /\ ~alive(proc[p].child)
    /\ rescueFile' = None /\ Ends(p)
    /\ KeepsMemory /\ Env
    /\ UNCHANGED <<pidFile, recent, orphans>>

(* The rescue agent works off its prompt: fix, stop, start.  Nothing makes *)
(* it do so, and nothing limits its time.                                  *)
AgentStops(p) ==
    /\ At(p, "agent", "fix") /\ (world.overlap \/ ~busy)
    /\ \E q \in Pids : /\ free(q)
                       /\ proc' = [proc EXCEPT ![p].pc = "stopping", ![p].child = q,
                                               ![q] = Process("stop", "find")]
    /\ KeepsMemory /\ Env
    /\ UNCHANGED <<pidFile, rescueFile, recent, orphans>>

AgentStarts(p) ==
    /\ At(p, "agent", "stopping") /\ ~alive(proc[p].child)
    /\ \E q \in Pids : /\ free(q)
                       /\ proc' = [proc EXCEPT ![p] = Dead,
                                               ![q] = Process("worker", "read")]
    /\ KeepsMemory /\ Env
    /\ UNCHANGED <<pidFile, rescueFile, recent, orphans>>

(* It cannot diagnose, or its fix does not pass: it writes its findings    *)
(* and ends.                                                               *)
AgentGivesUp(p) ==
    /\ \/ At(p, "agent", "fix")
       \/ At(p, "agent", "stopping") /\ ~alive(proc[p].child)
    /\ Ends(p)
    /\ KeepsMemory /\ Env
    /\ UNCHANGED <<pidFile, rescueFile, recent, orphans>>

----------------------------------------------------------------------------
ProcessStep(p) ==
    \/ AcquireRead(p) \/ AcquireWrite(p) \/ UpdateDispatchStatus(p)
    \/ RemovePIDFile(p) \/ WorkerExits(p)
    \/ FindNothing(p) \/ FindAndTerm(p) \/ KillSurvivors(p)
    \/ RemoveStaleFile(p) \/ Rebuild(p)
    \/ CheckHealth(p) \/ Launch(p) \/ NoteRescue(p) \/ RescueOver(p)

AgentStep(p) == AgentStops(p) \/ AgentStarts(p) \/ AgentGivesUp(p)

(* Activities run in the worker that serves.                               *)
CallsNext ==
    /\ world.calls /\ Serving # {}
    /\ \/ \E c \in Calls : StartCall(c) \/ CallStep(c)
       \/ \E a \in Agents : BlockExpires(a)
    /\ UNCHANGED <<hostVars, crashes, commands, world>>

Next ==
    \/ \E p \in Pids : \/ ProcessStep(p) \/ AgentStep(p) \/ RecordDispatch(p)
                       \/ Crash(p) \/ Command(p) \/ Cron(p)
    \/ WindowSlides \/ CallsNext

(* The processes of chum go on, cron goes on, time goes on.  Operators and *)
(* the rescue agent need not act, and nothing need be dispatched.          *)
Spec ==
    /\ Init /\ [][Next]_vars
    /\ \A p \in Pids : WF_vars(ProcessStep(p))
    /\ WF_vars(\E p \in Pids : Cron(p))
    /\ WF_vars(WindowSlides)

----------------------------------------------------------------------------
(* Properties.                                                             *)

(* One worker serves at a time, although workers crash and leave their pid *)
(* file, close slowly, and remove a file they may no longer own.  Where    *)
(* commands that start and stop chum overlap it does not hold.             *)
OneInstance == ~world.overlap => Cardinality(Serving) <= 1

(* After crashes, failed builds and stops, the watchdog brings chum back,  *)
(* or sends for help again and again: no pid file that a killed process    *)
(* leaves behind is in the way of a start or of a rescue.  What keeps chum *)
(* down is rescue agents that give up, one that never ends, or a dispatch  *)
(* that was left "running", which the watchdog takes for work in progress  *)
(* for ever.                                                               *)
ChumComesBack ==
    ~world.calls =>
      \/ []<>(Serving # {} \/ orphans)
      \/ []<><<\E p \in Pids : AgentGivesUp(p)>>_vars
      \/ \E p \in Pids : <>[](proc[p].kind = "agent")

=============================================================================
