--------------------------- MODULE AgentSupervisor ---------------------------
(***************************************************************************)
(* orchestrator/agent-supervisor.js: one parent process keeps a worker     *)
(* process per slot running.  It restarts a worker that exited, after a    *)
(* growing delay, kills one that no longer reports, and on close() asks    *)
(* all of them to stop and waits until they have.                          *)
(*                                                                         *)
(* A slot's workers share one AGENT_ID: the primary server cannot tell two *)
(* of them apart, so no two may run at a time.                             *)
(*                                                                         *)
(* The parent learns of a worker's end by its "exit" event, which comes    *)
(* some time after the process ended; a message the worker sent before may *)
(* be read after that.  What only the health page shows (status, labels,   *)
(* pids, the last error) is left out.                                      *)
(***************************************************************************)
EXTENDS Naturals, FiniteSets

CONSTANTS Slot,           \* the worker slots
          None,           \* no timer
          InitialBackoff, \* backoff.initialMs,
          MaxBackoff,     \*   maxMs and
          StableTicks,    \*   stabilityThresholdMs, in clock ticks
          WatchdogTicks,  \* workerWatchdogMs
          ShutdownTicks,  \* shutdownTimeoutMs
          MaxRestarts     \* bound: a worker restarted this often stays well

ASSUME AgentSupervisorAssumption ==
  /\ None \notin Nat
  /\ InitialBackoff \in Nat \ {0} /\ MaxBackoff \in Nat /\ InitialBackoff <= MaxBackoff
  /\ StableTicks \in Nat \ {0} /\ WatchdogTicks \in Nat \ {0} /\ ShutdownTicks \in Nat
  /\ MaxRestarts \in Nat

VARIABLES alive,        \* how many processes of slot s the system runs
          health,       \* how the worker forked last behaves
          child,        \* slot.child # null
          silent,       \* ticks since slot.lastStateAt
          ran,          \* ticks since slot.startedAt
          unread,       \* a message of the slot's dead worker is not yet read
          backoff,      \* slot.lastBackoffMs
          timer,        \* ticks until the slot's restart timer fires, or None
          restarts,     \* slot.restarts
          shuttingDown, \* close() was called
          awaited,      \* the slots whose "exit" close() awaits
          killIn,       \* ticks until close() kills the slot's child, or None
          closed        \* close() resolved

workerVars == <<alive, health, child, silent, ran, unread>>
restartVars == <<backoff, timer, restarts>>
closeVars == <<shuttingDown, awaited, killIn, closed>>
vars == <<workerVars, restartVars, closeVars>>

(* "ok" workers report; "mute" ones are stuck and do not even see SIGTERM; *)
(* "draining" ones got it, stopped reporting and finish their job; a       *)
(* "failed" one was never started: its child emits "error" and no "exit".  *)
Health == {"ok", "mute", "draining", "failed"}

TypeOK == /\ alive \in [Slot -> Nat]
          /\ health \in [Slot -> Health]
          /\ child \in [Slot -> BOOLEAN]
          /\ silent \in [Slot -> 0..WatchdogTicks + 1]
          /\ ran \in [Slot -> 0..StableTicks]
          /\ unread \in [Slot -> BOOLEAN]
          /\ backoff \in [Slot -> {0} \cup InitialBackoff..MaxBackoff]
          /\ timer \in [Slot -> {None} \cup 0..MaxBackoff]
          /\ restarts \in [Slot -> Nat]
          /\ shuttingDown \in BOOLEAN
          /\ awaited \subseteq Slot
          /\ killIn \in [Slot -> {None} \cup 0..ShutdownTicks]
          /\ closed \in BOOLEAN

-----------------------------------------------------------------------------
(* spawnSlot, which start() calls for every slot: a worker is forked, or   *)
(* the fork fails.                                                         *)

Forks(s, h) == /\ alive' = [alive EXCEPT ![s] = IF h = "failed" THEN @ ELSE @ + 1]
               /\ health' = [health EXCEPT ![s] = h]
               /\ child' = [child EXCEPT ![s] = TRUE]
               /\ silent' = [silent EXCEPT ![s] = 0]
               /\ ran' = [ran EXCEPT ![s] = 0]
               /\ UNCHANGED unread

SpawnSlot(s) == IF shuttingDown THEN UNCHANGED workerVars
                                ELSE \E h \in {"ok", "failed"} : Forks(s, h)

Init == /\ health \in [Slot -> {"ok", "failed"}]
        /\ alive = [s \in Slot |-> IF health[s] = "failed" THEN 0 ELSE 1]
        /\ child = [s \in Slot |-> TRUE]
        /\ silent = [s \in Slot |-> 0]
        /\ ran = [s \in Slot |-> 0]
        /\ unread = [s \in Slot |-> FALSE]
        /\ backoff = [s \in Slot |-> 0]
        /\ timer = [s \in Slot |-> None]
        /\ restarts = [s \in Slot |-> 0]
        /\ shuttingDown = FALSE
        /\ awaited = {}
        /\ killIn = [s \in Slot |-> None]
        /\ closed = FALSE

-----------------------------------------------------------------------------
(* The worker processes.                                                   *)

Runs(s) == alive[s] > 0

(* The state message of every second, read at once. *)
Report(s) == /\ Runs(s) /\ health[s] = "ok"
             /\ silent[s] > 0
             /\ silent' = [silent EXCEPT ![s] = 0]
             /\ UNCHANGED <<alive, health, child, ran, unread, restartVars, closeVars>>

(* The process of slot s ends.  Unless it was stuck, a message is on its   *)
(* way: the report of the last second, or what a draining worker publishes *)
(* right before its process.exit.                                          *)
Ends(s) == /\ alive' = [alive EXCEPT ![s] = 0]
           /\ unread' = [unread EXCEPT ![s] = @ \/ health[s] # "mute"]
           /\ UNCHANGED <<health, child, silent, ran>>

Crash(s) == /\ Runs(s) /\ restarts[s] < MaxRestarts
            /\ Ends(s)
            /\ UNCHANGED <<restartVars, closeVars>>

(* Its event loop is blocked; or somebody else sends it SIGTERM. *)
Degrade(s, h) == /\ Runs(s) /\ health[s] = "ok" /\ restarts[s] < MaxRestarts
                 /\ health' = [health EXCEPT ![s] = h]
                 /\ UNCHANGED <<alive, child, silent, ran, unread, restartVars, closeVars>>

Drained(s) == /\ Runs(s) /\ health[s] = "draining"
              /\ Ends(s)
              /\ UNCHANGED <<restartVars, closeVars>>

(* handleWorkerMessage is bound to the slot, not to the child: what a dead *)
(* worker said still counts as a sign of life, of its successor even.      *)
LateMessage(s) == /\ unread[s]
                  /\ unread' = [unread EXCEPT ![s] = FALSE]
                  /\ silent' = [silent EXCEPT ![s] = 0]
                  /\ UNCHANGED <<alive, health, child, ran, restartVars, closeVars>>

-----------------------------------------------------------------------------
(* Restarts.                                                               *)

(* Mutant: the delay is doubled without a limit. *)
BackoffUnlimited(last, stable) == IF last = 0 \/ stable THEN InitialBackoff ELSE last * 2

NextBackoff(last, stable) == IF last = 0 \/ stable THEN InitialBackoff
                             ELSE IF last * 2 < MaxBackoff THEN last * 2 ELSE MaxBackoff

(* handleWorkerExit, and with it the listener close() has added. *)
HandleWorkerExit(s) ==
  /\ child[s] /\ ~Runs(s) /\ health[s] # "failed"
  /\ child' = [child EXCEPT ![s] = FALSE]
  /\ awaited' = awaited \ {s}
  /\ killIn' = [killIn EXCEPT ![s] = None]
  /\ IF shuttingDown
     THEN UNCHANGED restartVars
     ELSE LET delay == NextBackoff(backoff[s], ran[s] = StableTicks) IN
          /\ restarts' = [restarts EXCEPT ![s] = @ + 1]
          /\ backoff' = [backoff EXCEPT ![s] = delay]
          /\ timer' = [timer EXCEPT ![s] = delay]
  /\ UNCHANGED <<alive, health, silent, ran, unread, shuttingDown, closed>>

(* Mutant: the timer is not done with once it fired. *)
RestartRepeats(s) == /\ timer[s] = 0
                     /\ SpawnSlot(s)
                     /\ UNCHANGED <<restartVars, closeVars>>

RestartDue(s) == /\ timer[s] = 0
                 /\ timer' = [timer EXCEPT ![s] = None]
                 /\ SpawnSlot(s)
                 /\ UNCHANGED <<backoff, restarts, closeVars>>

(* runWatchdog kills every child that was silent for too long. *)
Unresponsive(s) == child[s] /\ silent[s] > WatchdogTicks

(* Mutants: the watchdog drops the child it kills; it sends SIGTERM.       *)
WatchdogForgets == /\ ~shuttingDown
                   /\ \E s \in Slot : Unresponsive(s) /\ Runs(s)
                   /\ alive' = [s \in Slot |-> IF Unresponsive(s) THEN 0 ELSE alive[s]]
                   /\ child' = [s \in Slot |-> child[s] /\ ~Unresponsive(s)]
                   /\ UNCHANGED <<health, silent, ran, unread, restartVars, closeVars>>

WatchdogTerminates ==
  LET obeys(s) == Unresponsive(s) /\ Runs(s) /\ health[s] # "mute" IN
  /\ ~shuttingDown
  /\ \E s \in Slot : obeys(s)
  /\ alive' = [s \in Slot |-> IF obeys(s) THEN 0 ELSE alive[s]]
  /\ UNCHANGED <<health, child, silent, ran, unread, restartVars, closeVars>>

RunWatchdog == /\ ~shuttingDown
               /\ \E s \in Slot : Unresponsive(s) /\ Runs(s)
               /\ alive' = [s \in Slot |-> IF Unresponsive(s) THEN 0 ELSE alive[s]]
               /\ UNCHANGED <<health, child, silent, ran, unread, restartVars, closeVars>>

-----------------------------------------------------------------------------
(* close().                                                                *)

(* Mutant: only the children that report are waited for. *)
ReportingChildren == {s \in Slot : child[s] /\ health[s] = "ok"}

Children == {s \in Slot : child[s]}

Close == /\ ~shuttingDown
         /\ shuttingDown' = TRUE
         /\ timer' = [s \in Slot |-> None]
         /\ awaited' = Children
         /\ killIn' = [s \in Slot |-> IF s \in Children THEN ShutdownTicks ELSE None]
         /\ health' = [s \in Slot |-> IF child[s] /\ health[s] = "ok" THEN "draining" ELSE health[s]]
         /\ UNCHANGED <<alive, child, silent, ran, unread, backoff, restarts, closed>>

(* Mutant: a child that does not stop is sent SIGTERM once more. *)
TerminateAgain(s) == /\ killIn[s] = 0
                     /\ killIn' = [killIn EXCEPT ![s] = None]
                     /\ alive' = [alive EXCEPT ![s] = IF health[s] = "mute" THEN @ ELSE 0]
                     /\ UNCHANGED <<health, child, silent, ran, unread, restartVars,
                                    shuttingDown, awaited, closed>>

(* The child did not stop in time. *)
KillChild(s) == /\ killIn[s] = 0
                /\ killIn' = [killIn EXCEPT ![s] = None]
                /\ alive' = [alive EXCEPT ![s] = 0]
                /\ UNCHANGED <<health, child, silent, ran, unread, restartVars,
                               shuttingDown, awaited, closed>>

(* Every awaited exit came: the parent itself exits next. *)
CloseResolves == /\ shuttingDown /\ awaited = {} /\ ~closed
                 /\ closed' = TRUE
                 /\ UNCHANGED <<workerVars, restartVars, shuttingDown, awaited, killIn>>

-----------------------------------------------------------------------------
CountDown(t) == IF t = None \/ t = 0 THEN t ELSE t - 1
CountUp(n, cap) == IF n < cap THEN n + 1 ELSE n

(* A worker that is well reports many times before the watchdog's limit. *)
InTime(s) == Runs(s) /\ health[s] = "ok" => silent[s] < WatchdogTicks

Tick == /\ ~closed
        /\ \A s \in Slot : InTime(s)
        /\ silent' = [s \in Slot |-> CountUp(silent[s], WatchdogTicks + 1)]
        /\ ran' = [s \in Slot |-> CountUp(ran[s], StableTicks)]
        /\ timer' = [s \in Slot |-> CountDown(timer[s])]
        /\ killIn' = [s \in Slot |-> CountDown(killIn[s])]
        /\ UNCHANGED <<alive, health, child, unread, backoff, restarts, shuttingDown, awaited, closed>>

WorkerStep(s) == \/ Report(s)
                 \/ Crash(s)
                 \/ \E h \in {"mute", "draining"} : Degrade(s, h)
                 \/ Drained(s)

SupervisorStep(s) == \/ LateMessage(s)
                     \/ HandleWorkerExit(s)
                     \/ RestartDue(s)
                     \/ KillChild(s)

Next == \/ ~closed /\ \E s \in Slot : WorkerStep(s) \/ SupervisorStep(s)
        \/ RunWatchdog
        \/ Close
        \/ CloseResolves
        \/ Tick

Spec == Init /\ [][Next]_vars

-----------------------------------------------------------------------------
(* Invariants.                                                             *)

(* No two workers with one AGENT_ID: a slot is forked again only when its  *)
(* process is gone, whoever ended it, and is handed to one timer only.     *)
OneProcessPerSlot == \A s \in Slot : alive[s] <= 1

(* Nobody is forgotten: a running process is a child that the watchdog and *)
(* close() reach, and until close() a slot without a child has a timer.    *)
NoSlotForgotten == \A s \in Slot : /\ Runs(s) => child[s]
                                   /\ ~shuttingDown => (~child[s] <=> timer[s] # None)

(* close() resolves, and lets the parent exit, only when no worker is left *)
(* behind to poll on without a parent.                                     *)
NoOrphans == closed => \A s \in Slot : ~Runs(s)

-----------------------------------------------------------------------------
(* Liveness: the parent's event loop runs what is due, time passes, and a  *)
(* worker that drains finishes its job or is killed.                       *)
Fairness == /\ \A s \in Slot : /\ WF_vars(Report(s))
                               /\ WF_vars(HandleWorkerExit(s))
                               /\ WF_vars(RestartDue(s))
                               /\ WF_vars(KillChild(s))
            /\ WF_vars(RunWatchdog)
            /\ WF_vars(CloseResolves)
            /\ WF_vars(Tick)

LiveSpec == Spec /\ Fairness

Serves(s) == Runs(s) /\ health[s] = "ok"

(* A slot whose worker crashed, hangs or was told to stop by somebody else *)
(* is served again; only a fork that fails leaves it dead for good.        *)
SlotsComeBack ==
  \A s \in Slot : ~Serves(s) ~> Serves(s) \/ health[s] = "failed" \/ shuttingDown

(* close() resolves, whatever the workers do, unless a fork had failed:    *)
(* that child's "exit" never comes.                                        *)
CloseFinishes == shuttingDown ~> closed \/ \E s \in Slot : health[s] = "failed"
=============================================================================
