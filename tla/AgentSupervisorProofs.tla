----------------------- MODULE AgentSupervisorProofs -----------------------
(***************************************************************************)
(* Proofs about AgentSupervisor.  What keeps two workers of a slot apart   *)
(* is that slot.child is only cleared by the exit of its process, and that *)
(* a slot has a child or a timer but never both; what keeps close() from   *)
(* leaving a worker behind is that it clears the timers and awaits every   *)
(* child in the same step in which it forbids new ones.                    *)
(***************************************************************************)
EXTENDS AgentSupervisor, TLAPS

(* One slot, before and after close(). *)
SlotOK(s) == /\ alive[s] <= 1
             /\ alive[s] > 0 => child[s]
             /\ ~shuttingDown => (~child[s] <=> timer[s] # None)
             /\ shuttingDown => timer[s] = None
             /\ shuttingDown /\ child[s] => s \in awaited

IInv == /\ TypeOK
        /\ \A s \in Slot : SlotOK(s)
        /\ closed => shuttingDown /\ awaited = {}

LEMMA InitIsIInv == Init => IInv
<1> SUFFICES ASSUME Init PROVE IInv
  OBVIOUS
<1> USE AgentSupervisorAssumption DEF Init
<1>1. TypeOK
  <2>1. alive \in [Slot -> Nat] /\ health \in [Slot -> Health]
    BY DEF Health
  <2>2. 0 \in 0..WatchdogTicks + 1 /\ 0 \in 0..StableTicks
    OBVIOUS
  <2>3. QED
    BY <2>1, <2>2 DEF TypeOK
<1>2. ASSUME NEW s \in Slot PROVE SlotOK(s)
  BY DEF SlotOK
<1>3. QED
  BY <1>1, <1>2 DEF IInv

LEMMA NextBackoffInRange ==
  ASSUME NEW last \in {0} \cup InitialBackoff..MaxBackoff, NEW stable \in BOOLEAN
  PROVE  NextBackoff(last, stable) \in InitialBackoff..MaxBackoff
BY AgentSupervisorAssumption DEF NextBackoff

(* What only the worker itself does leaves its slot in order. *)
LEMMA WorkerKeepsIInv ==
  ASSUME IInv, NEW s \in Slot, WorkerStep(s) \/ LateMessage(s)
  PROVE  IInv'
<1> USE AgentSupervisorAssumption
<1>1. UNCHANGED <<restartVars, closeVars, child>>
  BY DEF WorkerStep, Report, LateMessage, Crash, Drained, Degrade, Ends
<1>2. \A t \in Slot : alive'[t] = alive[t] \/ alive'[t] = 0
  BY DEF WorkerStep, Report, LateMessage, Crash, Drained, Degrade, Ends, IInv, TypeOK
<1>3. TypeOK'
  <2>1. CASE Report(s) \/ LateMessage(s)
    <3>1. 0 \in 0..WatchdogTicks + 1
      OBVIOUS
    <3>2. silent' \in [Slot -> 0..WatchdogTicks + 1] /\ unread' \in [Slot -> BOOLEAN]
      BY <2>1, <3>1 DEF Report, LateMessage, IInv, TypeOK
    <3>3. UNCHANGED <<alive, health, ran>>
      BY <2>1 DEF Report, LateMessage
    <3>4. QED
      BY <1>1, <3>2, <3>3 DEF restartVars, closeVars, IInv, TypeOK
  <2>2. CASE Ends(s)
    <3>1. (unread[s] \/ health[s] = "ok") \in BOOLEAN
      OBVIOUS
    <3>2. unread' \in [Slot -> BOOLEAN]
      BY <2>2, <3>1 DEF Ends, IInv, TypeOK
    <3>3. QED
      BY <1>1, <2>2, <3>2 DEF Ends, restartVars, closeVars, IInv, TypeOK
  <2>3. CASE \E h \in {"mute", "draining"} : Degrade(s, h)
    BY <1>1, <2>3 DEF Degrade, Health, restartVars, closeVars, IInv, TypeOK
  <2>4. QED
    BY <2>1, <2>2, <2>3 DEF WorkerStep, Crash, Drained
<1>4. ASSUME NEW t \in Slot PROVE SlotOK(t)'
  BY <1>1, <1>2 DEF restartVars, closeVars, IInv, TypeOK, SlotOK
<1>5. QED
  BY <1>1, <1>3, <1>4 DEF closeVars, IInv

LEMMA ExitKeepsIInv == ASSUME IInv, NEW s \in Slot, HandleWorkerExit(s) PROVE IInv'
<1> USE AgentSupervisorAssumption DEF HandleWorkerExit, Runs
<1> DEFINE delay == NextBackoff(backoff[s], ran[s] = StableTicks)
<1>1. delay \in InitialBackoff..MaxBackoff
  BY NextBackoffInRange DEF IInv, TypeOK
<1> HIDE DEF delay
<1>2. IF shuttingDown THEN UNCHANGED <<backoff, timer, restarts>>
      ELSE /\ restarts' = [restarts EXCEPT ![s] = @ + 1]
           /\ backoff' = [backoff EXCEPT ![s] = delay]
           /\ timer' = [timer EXCEPT ![s] = delay]
  BY DEF delay, restartVars
<1>3. delay \in 0..MaxBackoff /\ delay # None
  BY <1>1
<1>4. TypeOK'
  BY <1>1, <1>2, <1>3 DEF IInv, TypeOK
<1>5. ASSUME NEW t \in Slot PROVE SlotOK(t)'
  BY <1>2, <1>3 DEF IInv, TypeOK, SlotOK
<1>6. QED
  BY <1>4, <1>5 DEF IInv

LEMMA RestartKeepsIInv == ASSUME IInv, NEW s \in Slot, RestartDue(s) PROVE IInv'
<1> USE AgentSupervisorAssumption DEF RestartDue, closeVars
<1>1. ~shuttingDown /\ ~child[s] /\ alive[s] = 0
  BY DEF IInv, TypeOK, SlotOK
<1>2. PICK h \in {"ok", "failed"} : Forks(s, h)
  BY <1>1 DEF SpawnSlot
<1>3. TypeOK'
  BY <1>2 DEF Forks, Health, IInv, TypeOK
<1>4. ASSUME NEW t \in Slot PROVE SlotOK(t)'
  BY <1>1, <1>2 DEF Forks, IInv, TypeOK, SlotOK
<1>5. QED
  BY <1>3, <1>4 DEF IInv

LEMMA KillKeepsIInv ==
  ASSUME IInv, RunWatchdog \/ \E s \in Slot : KillChild(s)
  PROVE  IInv'
<1> USE AgentSupervisorAssumption
<1>1. CASE RunWatchdog
  BY <1>1 DEF RunWatchdog, restartVars, closeVars, IInv, TypeOK, SlotOK
<1>2. CASE \E s \in Slot : KillChild(s)
  BY <1>2 DEF KillChild, restartVars, IInv, TypeOK, SlotOK
<1>3. QED
  BY <1>1, <1>2

LEMMA CloseKeepsIInv == ASSUME IInv, Close \/ CloseResolves PROVE IInv'
<1> USE AgentSupervisorAssumption
<1>1. CASE Close
  <2>1. TypeOK'
    BY <1>1 DEF Close, Children, Health, IInv, TypeOK
  <2>2. ASSUME NEW s \in Slot PROVE SlotOK(s)'
    BY <1>1 DEF Close, Children, IInv, TypeOK, SlotOK
  <2>3. QED
    BY <1>1, <2>1, <2>2 DEF Close, IInv
<1>2. CASE CloseResolves
  BY <1>2 DEF CloseResolves, workerVars, restartVars, IInv, TypeOK, SlotOK
<1>3. QED
  BY <1>1, <1>2

LEMMA CountersStayInRange ==
  ASSUME NEW cap \in Nat
  PROVE  /\ \A n \in 0..cap : CountUp(n, cap) \in 0..cap
         /\ \A t \in {None} \cup 0..cap :
              CountDown(t) \in {None} \cup 0..cap /\ (CountDown(t) = None <=> t = None)
BY AgentSupervisorAssumption DEF CountUp, CountDown

LEMMA TickKeepsIInv == ASSUME IInv, Tick PROVE IInv'
<1> USE AgentSupervisorAssumption DEF Tick
<1>1. WatchdogTicks + 1 \in Nat
  OBVIOUS
<1>2. TypeOK'
  BY <1>1, CountersStayInRange DEF IInv, TypeOK
<1>3. ASSUME NEW s \in Slot PROVE SlotOK(s)'
  BY CountersStayInRange DEF IInv, TypeOK, SlotOK
<1>4. QED
  BY <1>2, <1>3 DEF IInv

LEMMA NextKeepsIInv == IInv /\ [Next]_vars => IInv'
<1> SUFFICES ASSUME IInv, [Next]_vars PROVE IInv'
  OBVIOUS
<1>1. ASSUME NEW s \in Slot, WorkerStep(s) \/ SupervisorStep(s) PROVE IInv'
  BY <1>1, WorkerKeepsIInv, ExitKeepsIInv, RestartKeepsIInv, KillKeepsIInv DEF SupervisorStep
<1>2. CASE RunWatchdog
  BY <1>2, KillKeepsIInv
<1>3. CASE Close \/ CloseResolves
  BY <1>3, CloseKeepsIInv
<1>4. CASE Tick
  BY <1>4, TickKeepsIInv
<1>5. CASE UNCHANGED vars
  BY <1>5 DEF vars, workerVars, restartVars, closeVars, IInv, TypeOK, SlotOK
<1>6. QED
  BY <1>1, <1>2, <1>3, <1>4, <1>5 DEF Next

LEMMA AlwaysIInv == Spec => []IInv
BY InitIsIInv, NextKeepsIInv, PTL DEF Spec

(* The supervisor's fields keep their types; the restart delay, which      *)
(* doubles with every exit, stays between its two limits.                  *)
THEOREM SupervisorTypeCorrect == Spec => []TypeOK
<1>1. IInv => TypeOK
  BY DEF IInv
<1>2. QED
  BY <1>1, AlwaysIInv, PTL

(* A slot never has two processes, which would share one AGENT_ID. *)
THEOREM OneProcess == Spec => []OneProcessPerSlot
<1>1. IInv => OneProcessPerSlot
  BY DEF IInv, SlotOK, OneProcessPerSlot
<1>2. QED
  BY <1>1, AlwaysIInv, PTL

(* Every process has its child handle, every slot a child or a timer. *)
THEOREM NothingForgotten == Spec => []NoSlotForgotten
<1>1. IInv => NoSlotForgotten
  BY DEF IInv, SlotOK, NoSlotForgotten, Runs
<1>2. QED
  BY <1>1, AlwaysIInv, PTL

(* When close() resolves, no worker runs any more. *)
THEOREM CloseLeavesNoOrphans == Spec => []NoOrphans
<1>1. IInv => NoOrphans
  BY DEF IInv, SlotOK, NoOrphans, Runs
<1>2. QED
  BY <1>1, AlwaysIInv, PTL
=============================================================================
