-------------------------- MODULE AgentFleetProofs --------------------------
(***************************************************************************)
(* Proofs about JobQueue and AgentFleet, for any finite sets of jobs and   *)
(* agents, any lease length and stale window, any answers of the capacity  *)
(* provider and any number of faults.                                      *)
(*                                                                         *)
(* The inductive invariant of the queue is IInv: a job is in exactly one   *)
(* place and its worker is the one that has it.  Every operation first     *)
(* sweeps the lapsed leases and then works on the swept state, so the      *)
(* proof goes in two stages: the sweep preserves the invariant             *)
(* (SweepKeepsOwned), and each elementary move (append, take, end)         *)
(* preserves it from any state that satisfies it.  Owned states the        *)
(* invariant of an arbitrary such state.                                   *)
(*                                                                         *)
(* Every step of the fleet is a step of the queue or leaves it alone, so   *)
(* whatever is proved of JobQueue!Spec holds of the fleet, and IInv may be *)
(* used throughout.  Two arguments follow.  Until the first fault          *)
(* everything is Peaceful: no lease lapses, every upload is awaited, and   *)
(* whatever drain leaves to the agents is Covered by some that poll.  And  *)
(* in general the runs of a job beside the one that is entitled to it are  *)
(* a Debt, of strays that lost their lease and ghosts of uploads nobody    *)
(* awaits, which only faults increase.                                     *)
(***************************************************************************)
EXTENDS AgentFleet, FiniteSetTheorems, SequenceTheorems, TLAPS

-----------------------------------------------------------------------------
(* The queue.                                                              *)

IInv == TypeOK /\ ExactlyOneOwner /\ WorkerIsOwner

(* The invariant, of the state with status s, workers w, queue q, lease    *)
(* holders h and local job l.                                              *)
Typed(s, w, q, h, l) == /\ s \in [Job -> Status]
                        /\ w \in [Job -> Worker \cup {None}]
                        /\ q \in Seq(Job)
                        /\ h \in [Job -> Agent \cup {None}]
                        /\ l \in Job \cup {None}

Queued(q, j) == \E i \in 1..Len(q) : q[i] = j

Distinct(q) == \A i, k \in 1..Len(q) : q[i] = q[k] => i = k

Placed(s, w, q, h, l, j) ==
  /\ s[j] = "queued" <=> Queued(q, j)
  /\ s[j] = "running" <=> (l = j \/ h[j] # None)
  /\ ~(l = j /\ h[j] # None)
  /\ l = j => w[j] = LocalMain
  /\ h[j] # None => w[j] = h[j]
  /\ s[j] \in {"absent", "queued"} => w[j] = None
  /\ s[j] \in {"running"} \cup Terminal => w[j] \in Worker

Owned(s, w, q, h, l) == /\ Typed(s, w, q, h, l)
                        /\ Distinct(q)
                        /\ \A j \in Job : Placed(s, w, q, h, l, j)

LEMMA IInvIsOwned == IInv <=> TypeOK /\ Owned(status, worker, queue, holder, local)
<1> SUFFICES ASSUME TypeOK
             PROVE  ExactlyOneOwner /\ WorkerIsOwner <=> Owned(status, worker, queue, holder, local)
  BY DEF IInv
<1>1. Typed(status, worker, queue, holder, local)
  BY DEF TypeOK, Typed
<1>2. DOMAIN queue = 1..Len(queue)
  BY DEF TypeOK
<1>3. NoDuplicates <=> Distinct(queue)
  BY <1>2 DEF NoDuplicates, Distinct
<1>4. \A j \in Job : j \in ToSet(queue) <=> Queued(queue, j)
  BY <1>2 DEF ToSet, Queued
<1>5. (\A j \in Job : Placed(status, worker, queue, holder, local, j)) =>
        /\ \A j \in Job : /\ status[j] = "queued" <=> Queued(queue, j)
                          /\ status[j] = "running" <=> (local = j \/ holder[j] # None)
                          /\ ~(local = j /\ holder[j] # None)
        /\ WorkerIsOwner
  BY DEF Placed, WorkerIsOwner
<1>6. ASSUME \A j \in Job : /\ status[j] = "queued" <=> Queued(queue, j)
                            /\ status[j] = "running" <=> (local = j \/ holder[j] # None)
                            /\ ~(local = j /\ holder[j] # None),
             WorkerIsOwner
      PROVE  \A j \in Job : Placed(status, worker, queue, holder, local, j)
  BY <1>6 DEF Placed, WorkerIsOwner
<1>7. QED
  BY <1>1, <1>3, <1>4, <1>5, <1>6 DEF ExactlyOneOwner, Owned

-----------------------------------------------------------------------------
(* Elementary moves.                                                       *)

LEMMA AppendKeepsOwned ==
  ASSUME NEW s, NEW w, NEW q, NEW h, NEW l, Owned(s, w, q, h, l),
         NEW j \in Job, s[j] = "absent"
  PROVE  Owned([s EXCEPT ![j] = "queued"], [w EXCEPT ![j] = None], Append(q, j), h, l)
<1> DEFINE s2 == [s EXCEPT ![j] = "queued"]
           w2 == [w EXCEPT ![j] = None]
           q2 == Append(q, j)
<1>0. Typed(s, w, q, h, l) /\ Distinct(q) /\ \A i \in Job : Placed(s, w, q, h, l, i)
  BY DEF Owned
<1>1. /\ q2 \in Seq(Job)
      /\ Len(q2) = Len(q) + 1
      /\ \A i \in 1..Len(q) : q2[i] = q[i]
      /\ q2[Len(q) + 1] = j
      /\ Len(q) \in Nat
  BY <1>0, AppendProperties, LenProperties DEF Typed
<1>2. ~Queued(q, j)
  BY <1>0 DEF Placed
<1>3. Typed(s2, w2, q2, h, l)
  BY <1>0, <1>1 DEF Typed, Status, Worker
<1>4. Distinct(q2)
  BY <1>0, <1>1, <1>2 DEF Distinct, Queued
<1>5. \A i \in Job : Queued(q2, i) <=> Queued(q, i) \/ i = j
  <2>1. 1..Len(q2) = 1..Len(q) \cup {Len(q) + 1}
    BY <1>1
  <2>2. QED
    BY <1>1, <2>1 DEF Queued
<1>6. ASSUME NEW i \in Job PROVE Placed(s2, w2, q2, h, l, i)
  BY <1>0, <1>5, JobQueueAssumption DEF Placed, Typed, Terminal, Worker
<1>7. QED
  BY <1>3, <1>4, <1>6 DEF Owned

(* The job at the head of the queue is handed out: to an agent under a     *)
(* lease, or to the local worker if that is free.                          *)
LEMMA HeadLeavesQueue ==
  ASSUME NEW q \in Seq(Job), q # <<>>, Distinct(q)
  PROVE  /\ Head(q) \in Job
         /\ Tail(q) \in Seq(Job)
         /\ Distinct(Tail(q))
         /\ Queued(q, Head(q))
         /\ \A i \in Job : Queued(Tail(q), i) <=> Queued(q, i) /\ i # Head(q)
<1>1. /\ Head(q) \in Job
      /\ Tail(q) \in Seq(Job)
      /\ Len(Tail(q)) = Len(q) - 1
      /\ \A i \in 1..Len(Tail(q)) : Tail(q)[i] = q[i + 1]
  BY HeadTailProperties
<1>2. Len(q) \in Nat /\ Len(q) >= 1 /\ Head(q) = q[1]
  OBVIOUS
<1>3. Distinct(Tail(q))
  <2>1. SUFFICES ASSUME NEW i \in 1..Len(Tail(q)), NEW k \in 1..Len(Tail(q)), Tail(q)[i] = Tail(q)[k]
                 PROVE  i = k
    BY DEF Distinct
  <2>2. i + 1 \in 1..Len(q) /\ k + 1 \in 1..Len(q) /\ q[i + 1] = q[k + 1]
    BY <1>1, <1>2, <2>1
  <2>3. i + 1 = k + 1
    BY <2>2 DEF Distinct
  <2>4. QED
    BY <2>3
<1>4. Queued(q, Head(q))
  BY <1>2 DEF Queued
<1>5. ASSUME NEW i \in Job
      PROVE  Queued(Tail(q), i) <=> Queued(q, i) /\ i # Head(q)
  <2>1. ASSUME NEW k \in 1..Len(Tail(q)), Tail(q)[k] = i
        PROVE  Queued(q, i) /\ i # Head(q)
    <3>1. k + 1 \in 1..Len(q) /\ 1 \in 1..Len(q) /\ q[k + 1] = i
      BY <1>1, <1>2, <2>1
    <3>2. q[1] # i
      BY <3>1 DEF Distinct
    <3>3. QED
      BY <1>2, <3>1, <3>2 DEF Queued
  <2>2. ASSUME NEW k \in 1..Len(q), q[k] = i, i # Head(q)
        PROVE  Queued(Tail(q), i)
    <3>1. k # 1 /\ k - 1 \in 1..Len(Tail(q)) /\ Tail(q)[k - 1] = q[k]
      BY <1>1, <1>2, <2>2
    <3>2. QED
      BY <2>2, <3>1 DEF Queued
  <2>3. QED
    BY <2>1, <2>2 DEF Queued
<1>6. QED
  BY <1>1, <1>3, <1>4, <1>5

LEMMA TakeKeepsOwned ==
  ASSUME NEW s, NEW w, NEW q, NEW h, NEW l, Owned(s, w, q, h, l), q # <<>>
  PROVE  /\ Head(q) \in Job
         /\ \A a \in Agent :
              Owned([s EXCEPT ![Head(q)] = "running"], [w EXCEPT ![Head(q)] = a], Tail(q),
                    [h EXCEPT ![Head(q)] = a], l)
         /\ l = None =>
              Owned([s EXCEPT ![Head(q)] = "running"], [w EXCEPT ![Head(q)] = LocalMain], Tail(q),
                    h, Head(q))
<1> DEFINE j == Head(q)
           s2 == [s EXCEPT ![j] = "running"]
<1>0. Typed(s, w, q, h, l) /\ Distinct(q) /\ \A i \in Job : Placed(s, w, q, h, l, i)
  BY DEF Owned
<1>1. /\ j \in Job
      /\ Tail(q) \in Seq(Job)
      /\ Distinct(Tail(q))
      /\ Queued(q, j)
      /\ \A i \in Job : Queued(Tail(q), i) <=> Queued(q, i) /\ i # j
  BY <1>0, HeadLeavesQueue DEF Typed
<1>2. s[j] = "queued" /\ l # j /\ h[j] = None
  BY <1>0, <1>1 DEF Placed
<1> HIDE DEF j
<1>3. ASSUME NEW a \in Agent
      PROVE  Owned(s2, [w EXCEPT ![j] = a], Tail(q), [h EXCEPT ![j] = a], l)
  <2>1. Typed(s2, [w EXCEPT ![j] = a], Tail(q), [h EXCEPT ![j] = a], l)
    BY <1>0, <1>1 DEF Typed, Status, Worker
  <2>2. ASSUME NEW i \in Job
        PROVE  Placed(s2, [w EXCEPT ![j] = a], Tail(q), [h EXCEPT ![j] = a], l, i)
    BY <1>0, <1>1, <1>2, JobQueueAssumption DEF Placed, Typed, Terminal, Worker
  <2>3. QED
    BY <1>1, <2>1, <2>2 DEF Owned
<1>4. ASSUME l = None
      PROVE  Owned(s2, [w EXCEPT ![j] = LocalMain], Tail(q), h, j)
  <2>1. Typed(s2, [w EXCEPT ![j] = LocalMain], Tail(q), h, j)
    BY <1>0, <1>1 DEF Typed, Status, Worker
  <2>2. ASSUME NEW i \in Job
        PROVE  Placed(s2, [w EXCEPT ![j] = LocalMain], Tail(q), h, j, i)
    BY <1>0, <1>1, <1>2, <1>4, JobQueueAssumption DEF Placed, Typed, Terminal, Worker
  <2>3. QED
    BY <1>1, <2>1, <2>2 DEF Owned
<1>5. QED
  BY <1>1, <1>3, <1>4 DEF j

(* A running job ends, by its lease's agent or by the local worker. *)
LEMMA EndKeepsOwned ==
  ASSUME NEW s, NEW w, NEW q, NEW h, NEW l, Owned(s, w, q, h, l),
         NEW outcome \in Terminal
  PROVE  /\ \A j \in Job, a \in Agent : h[j] = a =>
              Owned([s EXCEPT ![j] = outcome], [w EXCEPT ![j] = a], q, [h EXCEPT ![j] = None], l)
         /\ l # None => Owned([s EXCEPT ![l] = outcome], w, q, h, None)
<1>0. Typed(s, w, q, h, l) /\ Distinct(q) /\ \A i \in Job : Placed(s, w, q, h, l, i)
  BY DEF Owned
<1>1. ASSUME NEW j \in Job, NEW a \in Agent, h[j] = a
      PROVE  Owned([s EXCEPT ![j] = outcome], [w EXCEPT ![j] = a], q, [h EXCEPT ![j] = None], l)
  <2>1. Typed([s EXCEPT ![j] = outcome], [w EXCEPT ![j] = a], q, [h EXCEPT ![j] = None], l)
    BY <1>0 DEF Typed, Status, Worker, Terminal
  <2>2. h[j] # None /\ l # j
    BY <1>0, <1>1, JobQueueAssumption DEF Placed
  <2>3. ASSUME NEW i \in Job
        PROVE  Placed([s EXCEPT ![j] = outcome], [w EXCEPT ![j] = a], q, [h EXCEPT ![j] = None], l, i)
    BY <1>0, <1>1, <2>2, JobQueueAssumption DEF Placed, Typed, Terminal, Worker
  <2>4. QED
    BY <1>0, <2>1, <2>3 DEF Owned
<1>2. ASSUME l # None
      PROVE  Owned([s EXCEPT ![l] = outcome], w, q, h, None)
  <2>1. Typed([s EXCEPT ![l] = outcome], w, q, h, None)
    BY <1>0 DEF Typed, Status, Worker, Terminal
  <2>2. l \in Job /\ h[l] = None
    BY <1>0, <1>2 DEF Placed, Typed
  <2>3. ASSUME NEW i \in Job
        PROVE  Placed([s EXCEPT ![l] = outcome], w, q, h, None, i)
    BY <1>0, <1>2, <2>2, JobQueueAssumption DEF Placed, Typed, Terminal, Worker
  <2>4. QED
    BY <1>0, <2>1, <2>3 DEF Owned
<1>3. QED
  BY <1>1, <1>2

-----------------------------------------------------------------------------
(* The sweep.                                                              *)

(* A list of the elements of a finite set of jobs, each once. *)
LEMMA SetToSeqsProperties ==
  ASSUME NEW S \in SUBSET Job, NEW f \in SetToSeqs(S)
  PROVE  /\ f \in Seq(Job)
         /\ Distinct(f)
         /\ \A j \in Job : Queued(f, j) <=> j \in S
<1> DEFINE n == Cardinality(S)
<1>1. IsFiniteSet(S) /\ n \in Nat
  BY JobQueueAssumption, FS_Subset, FS_CardinalityType
<1>2. f \in [1..n -> S] /\ \A i, k \in 1..n : i # k => f[i] # f[k]
  BY DEF SetToSeqs
<1>3. f \in Seq(Job) /\ Len(f) = n
  BY <1>1, <1>2
<1>4. f \in Injection(1..n, S)
  BY <1>2 DEF Injection, IsInjective
<1>5. IsFiniteSet(1..n) /\ Cardinality(1..n) = n
  BY <1>1, FS_Interval
<1>6. f \in Surjection(1..n, S)
  BY <1>1, <1>4, <1>5, FS_Injection
<1>7. \A x \in S : \E i \in 1..n : f[i] = x
  BY <1>6 DEF Surjection
<1>8. QED
  BY <1>2, <1>3, <1>7 DEF Distinct, Queued

LEMMA ConcatQueues ==
  ASSUME NEW f \in Seq(Job), NEW q \in Seq(Job), Distinct(f), Distinct(q),
         \A j \in Job : ~(Queued(f, j) /\ Queued(q, j))
  PROVE  /\ f \o q \in Seq(Job)
         /\ Distinct(f \o q)
         /\ \A j \in Job : Queued(f \o q, j) <=> Queued(f, j) \/ Queued(q, j)
<1>1. /\ f \o q \in Seq(Job)
      /\ Len(f \o q) = Len(f) + Len(q)
      /\ \A i \in 1..(Len(f) + Len(q)) :
           (f \o q)[i] = IF i <= Len(f) THEN f[i] ELSE q[i - Len(f)]
  BY ConcatProperties
<1>2. /\ Len(f) \in Nat /\ Len(q) \in Nat
      /\ \A i \in 1..Len(f) : f[i] \in Job
      /\ \A i \in 1..Len(q) : q[i] \in Job
  BY LenProperties
<1>3. Distinct(f \o q)
  <2>1. SUFFICES ASSUME NEW i \in 1..(Len(f) + Len(q)), NEW k \in 1..(Len(f) + Len(q)),
                        (f \o q)[i] = (f \o q)[k], i < k
                 PROVE  FALSE
    BY <1>1, <1>2 DEF Distinct
  <2>2. CASE k <= Len(f)
    BY <1>1, <1>2, <2>1, <2>2 DEF Distinct
  <2>3. CASE i > Len(f)
    <3>1. i - Len(f) \in 1..Len(q) /\ k - Len(f) \in 1..Len(q) /\ q[i - Len(f)] = q[k - Len(f)]
      BY <1>1, <1>2, <2>1, <2>3
    <3>2. QED
      BY <1>2, <2>1, <3>1 DEF Distinct
  <2>4. CASE i <= Len(f) /\ k > Len(f)
    <3>1. i \in 1..Len(f) /\ k - Len(f) \in 1..Len(q) /\ f[i] = q[k - Len(f)]
      BY <1>1, <1>2, <2>1, <2>4
    <3>2. QED
      BY <1>2, <3>1 DEF Queued
  <2>5. QED
    BY <1>2, <2>2, <2>3, <2>4
<1>4. ASSUME NEW j \in Job
      PROVE  Queued(f \o q, j) <=> Queued(f, j) \/ Queued(q, j)
  <2>1. ASSUME NEW i \in 1..Len(f), f[i] = j PROVE Queued(f \o q, j)
    BY <1>1, <1>2, <2>1 DEF Queued
  <2>2. ASSUME NEW i \in 1..Len(q), q[i] = j PROVE Queued(f \o q, j)
    <3>1. i + Len(f) \in 1..Len(f \o q) /\ (f \o q)[i + Len(f)] = j
      BY <1>1, <1>2, <2>2
    <3>2. QED
      BY <3>1 DEF Queued
  <2>3. ASSUME NEW i \in 1..Len(f \o q), (f \o q)[i] = j
        PROVE  Queued(f, j) \/ Queued(q, j)
    <3>1. CASE i <= Len(f)
      BY <1>1, <1>2, <2>3, <3>1 DEF Queued
    <3>2. CASE i > Len(f)
      <4>1. i - Len(f) \in 1..Len(q) /\ q[i - Len(f)] = j
        BY <1>1, <1>2, <2>3, <3>2
      <4>2. QED
        BY <4>1 DEF Queued
    <3>3. QED
      BY <1>2, <3>1, <3>2
  <2>4. QED
    BY <2>1, <2>2, <2>3 DEF Queued
<1>5. QED
  BY <1>1, <1>3, <1>4

(* A lapsed lease always has a job to requeue: the sweep's guard on status *)
(* and worker never skips one.                                             *)
LEMMA EveryExpiredIsRequeued == IInv => Requeued = Expired
BY DEF IInv, TypeOK, ExactlyOneOwner, WorkerIsOwner, Requeued, Expired

(* The queue a sweep leaves: the requeued jobs, then those that waited. *)
LEMMA SweptQueue ==
  ASSUME IInv, NEW q \in QueuesR
  PROVE  /\ q \in Seq(Job)
         /\ Distinct(q)
         /\ \A j \in Job : Queued(q, j) <=> j \in Requeued \/ Queued(queue, j)
<1>1. PICK front \in SetToSeqs(Requeued) : q = front \o RemoveFromQueue(queue, Requeued)
  BY DEF QueuesR
<1>2. Requeued \in SUBSET Job
  BY DEF Requeued, Expired
<1>3. /\ front \in Seq(Job)
      /\ Distinct(front)
      /\ \A j \in Job : Queued(front, j) <=> j \in Requeued
  BY <1>2, SetToSeqsProperties
<1>4. Owned(status, worker, queue, holder, local)
  BY IInvIsOwned
<1>5. \A j \in Requeued : ~Queued(queue, j)
  BY <1>4 DEF Owned, Placed, Requeued, Expired
<1>6. queue \in Seq(Job) /\ Distinct(queue) /\ DOMAIN queue = 1..Len(queue)
  BY <1>4, LenProperties DEF Owned, Typed
<1>7. RemoveFromQueue(queue, Requeued) = queue
  BY <1>5, <1>6 DEF RemoveFromQueue, ToSet, Queued
<1>8. QED
  BY <1>1, <1>3, <1>5, <1>6, <1>7, ConcatQueues

LEMMA SweepKeepsOwned ==
  ASSUME IInv, NEW q \in QueuesR
  PROVE  Owned(StatusR, WorkerR, q, HolderR, local)
<1>1. Typed(status, worker, queue, holder, local)
  BY IInvIsOwned DEF Owned
<1>2. /\ q \in Seq(Job)
      /\ Distinct(q)
      /\ \A j \in Job : Queued(q, j) <=> j \in Requeued \/ Queued(queue, j)
  BY SweptQueue
<1>3. Typed(StatusR, WorkerR, q, HolderR, local)
  BY <1>1, <1>2 DEF Typed, StatusR, WorkerR, HolderR, Status, Worker
<1>4. ASSUME NEW j \in Job
      PROVE  Placed(StatusR, WorkerR, q, HolderR, local, j)
  <2>1. Placed(status, worker, queue, holder, local, j)
    BY IInvIsOwned DEF Owned
  <2>2. CASE j \in Requeued
    <3>1. j \in Expired /\ holder[j] # None
      BY <2>2 DEF Requeued, Expired
    <3>2. local # j
      BY <2>1, <3>1 DEF Placed
    <3>3. StatusR[j] = "queued" /\ WorkerR[j] = None /\ HolderR[j] = None /\ Queued(q, j)
      BY <1>2, <2>2, <3>1 DEF StatusR, WorkerR, HolderR
    <3>4. QED
      BY <3>2, <3>3 DEF Placed, Terminal
  <2>3. CASE j \notin Requeued
    <3>1. j \notin Expired
      BY <2>3, EveryExpiredIsRequeued
    <3>2. /\ StatusR[j] = status[j] /\ WorkerR[j] = worker[j] /\ HolderR[j] = holder[j]
          /\ Queued(q, j) <=> Queued(queue, j)
      BY <1>2, <2>3, <3>1 DEF StatusR, WorkerR, HolderR
    <3>3. QED
      BY <2>1, <3>2 DEF Placed
  <2>4. QED
    BY <2>2, <2>3
<1>5. QED
  BY <1>2, <1>3, <1>4 DEF Owned

-----------------------------------------------------------------------------
(* Every step preserves the invariant.                                     *)

LEMMA IInvIsOwnedPrime == IInv' <=> (TypeOK /\ Owned(status, worker, queue, holder, local))'
BY IInvIsOwned, PTL

(* The fields outside Owned. *)
RestOK == /\ detail \in [Job -> Detail]
          /\ lease \in [Job -> 0..LeaseTicks]
          /\ drainPending \in BOOLEAN
          /\ capacitySeen \in Nat

LEMMA OwnedSuffices ==
  ASSUME Owned(status', worker', queue', holder', local'), RestOK'
  PROVE  IInv'
BY IInvIsOwnedPrime DEF TypeOK, RestOK, Owned, Typed

LEMMA SweptDetail == ASSUME IInv PROVE DetailR \in [Job -> Detail]
BY DEF IInv, TypeOK, DetailR, Detail

LEMMA RecoverKeepsIInv == ASSUME IInv, RecoverExpiredRemoteClaims PROVE IInv'
<1> USE DEF RecoverExpiredRemoteClaims, Recover
<1>1. Owned(status', worker', queue', holder', local')
  BY SweepKeepsOwned
<1>2. RestOK'
  BY SweptDetail DEF IInv, TypeOK, RestOK
<1>3. QED
  BY <1>1, <1>2, OwnedSuffices

LEMMA EnqueueKeepsIInv == ASSUME IInv, NEW j \in Job, Enqueue(j) PROVE IInv'
<1> USE DEF Enqueue
<1>1. PICK q \in QueuesR : queue' = Append(q, j)
  OBVIOUS
<1>2. StatusR[j] = "absent"
  BY DEF StatusR, Requeued
<1>3. Owned(status', worker', queue', holder', local')
  BY <1>1, <1>2, SweepKeepsOwned, AppendKeepsOwned
<1>4. RestOK'
  BY SweptDetail DEF IInv, TypeOK, RestOK, Detail
<1>5. QED
  BY <1>3, <1>4, OwnedSuffices

LEMMA DrainKeepsIInv == ASSUME IInv, NEW capacity \in Capacities, Drain(capacity) PROVE IInv'
<1>1. RestOK'
  BY SweptDetail, JobQueueAssumption DEF Drain, IInv, TypeOK, RestOK, Detail
<1>2. PICK q \in QueuesR :
        IF DrainRests(q, capacity)
        THEN queue' = q /\ status' = StatusR /\ worker' = WorkerR /\ local' = local
        ELSE /\ queue' = Tail(q)
             /\ status' = [StatusR EXCEPT ![Head(q)] = "running"]
             /\ worker' = [WorkerR EXCEPT ![Head(q)] = LocalMain]
             /\ local' = Head(q)
  BY DEF Drain
<1>3. holder' = HolderR
  BY DEF Drain
<1>4. Owned(StatusR, WorkerR, q, HolderR, local)
  BY SweepKeepsOwned
<1>5. Owned(status', worker', queue', holder', local')
  <2>1. CASE DrainRests(q, capacity)
    BY <1>2, <1>3, <1>4, <2>1
  <2>2. CASE ~DrainRests(q, capacity)
    <3>1. local = None /\ q # <<>>
      BY <2>2 DEF DrainRests
    <3>2. Owned([StatusR EXCEPT ![Head(q)] = "running"], [WorkerR EXCEPT ![Head(q)] = LocalMain],
                Tail(q), HolderR, Head(q))
      BY <1>4, <3>1, TakeKeepsOwned
    <3>3. QED
      BY <1>2, <1>3, <2>2, <3>2
  <2>3. QED
    BY <2>1, <2>2
<1>6. QED
  BY <1>1, <1>5, OwnedSuffices

LEMMA ClaimKeepsIInv == ASSUME IInv, NEW a \in Agent, ClaimNextRemoteJob(a) PROVE IInv'
<1>1. PICK q \in QueuesR : /\ q # <<>>
                           /\ queue' = Tail(q)
                           /\ status' = [StatusR EXCEPT ![Head(q)] = "running"]
                           /\ worker' = [WorkerR EXCEPT ![Head(q)] = a]
                           /\ detail' = [DetailR EXCEPT ![Head(q)] = "claimed"]
                           /\ holder' = [HolderR EXCEPT ![Head(q)] = a]
                           /\ lease' = [lease EXCEPT ![Head(q)] = LeaseTicks]
  BY DEF ClaimNextRemoteJob
<1>2. local' = local /\ drainPending' = TRUE /\ capacitySeen' = capacitySeen
  BY DEF ClaimNextRemoteJob
<1>3. Owned(StatusR, WorkerR, q, HolderR, local)
  BY SweepKeepsOwned
<1>4. Head(q) \in Job /\ Owned(status', worker', queue', holder', local')
  BY <1>1, <1>2, <1>3, TakeKeepsOwned
<1>5. RestOK'
  BY <1>1, <1>2, <1>4, SweptDetail, JobQueueAssumption DEF IInv, TypeOK, RestOK, Detail
<1>6. QED
  BY <1>4, <1>5, OwnedSuffices

LEMMA HeartbeatKeepsIInv ==
  ASSUME IInv, NEW j \in Job, NEW a \in Agent, HeartbeatRemoteJob(j, a)
  PROVE  IInv'
<1> USE DEF HeartbeatRemoteJob, Accepted
<1>1. Owned(StatusR, WorkerR, queue', HolderR, local)
  BY SweepKeepsOwned
<1>2. HolderR[j] # None
  BY JobQueueAssumption
<1>3. StatusR[j] = "running" /\ WorkerR[j] # None /\ StatusR \in [Job -> Status]
      /\ WorkerR \in [Job -> Worker \cup {None}]
  BY <1>1, <1>2, JobQueueAssumption DEF Owned, Placed, Typed
<1>4. status' = StatusR /\ worker' = WorkerR
  BY <1>3 DEF MergeWorker
<1>5. Owned(status', worker', queue', holder', local')
  BY <1>1, <1>4
<1>6. RestOK'
  BY SweptDetail, JobQueueAssumption DEF IInv, TypeOK, RestOK, Detail
<1>7. QED
  BY <1>5, <1>6, OwnedSuffices

LEMMA CompleteKeepsIInv ==
  ASSUME IInv, NEW j \in Job, NEW a \in Agent, NEW outcome \in Terminal,
         CompleteRemoteJob(j, a, outcome)
  PROVE  IInv'
<1> USE DEF CompleteRemoteJob, Accepted
<1>1. Owned(StatusR, WorkerR, queue', HolderR, local)
  BY SweepKeepsOwned
<1>2. Owned(status', worker', queue', holder', local')
  BY <1>1, EndKeepsOwned
<1>3. RestOK'
  BY SweptDetail, JobQueueAssumption DEF IInv, TypeOK, RestOK, Detail, Terminal
<1>4. QED
  BY <1>2, <1>3, OwnedSuffices

LEMMA LocalEndKeepsIInv ==
  ASSUME IInv, LocalThrow \/ \E outcome \in Terminal : LocalFinish(outcome)
  PROVE  IInv'
<1>1. Owned(status, worker, queue, holder, local)
  BY IInvIsOwned
<1>2. PICK outcome \in Terminal : (LocalThrow /\ outcome = "failed") \/ LocalFinish(outcome)
  BY DEF Terminal
<1>3. /\ local # None
      /\ status' = [status EXCEPT ![local] = outcome]
      /\ detail' = [detail EXCEPT ![local] = outcome]
      /\ local' = None /\ queue' = queue /\ lease' = lease
      /\ drainPending' = TRUE /\ capacitySeen' = capacitySeen
  BY <1>2 DEF LocalThrow, LocalFinish
<1>4. local \in Job /\ holder[local] = None /\ worker[local] = LocalMain
  BY <1>1, <1>3 DEF Owned, Placed, Typed
<1>5. holder' = holder /\ worker' = worker
  BY <1>1, <1>2, <1>4, JobQueueAssumption DEF Owned, Typed, LocalThrow, LocalFinish, MergeWorker
<1>6. Owned(status', worker', queue', holder', local')
  BY <1>1, <1>3, <1>5, EndKeepsOwned
<1>7. RestOK'
  BY <1>3, <1>4 DEF IInv, TypeOK, RestOK, Detail
<1>8. QED
  BY <1>6, <1>7, OwnedSuffices

LEMMA LocalProgressKeepsIInv == ASSUME IInv, LocalProgress PROVE IInv'
<1> USE DEF LocalProgress
<1>1. Owned(status, worker, queue, holder, local)
  BY IInvIsOwned
<1>2. local \in Job /\ status[local] = "running" /\ worker[local] = LocalMain
  BY <1>1 DEF Owned, Placed, Typed
<1>3. status' = status /\ worker' = worker
  BY <1>1, <1>2, JobQueueAssumption DEF Owned, Typed, MergeWorker
<1>4. RestOK'
  BY <1>2 DEF IInv, TypeOK, RestOK, Detail
<1>5. QED
  BY <1>1, <1>3, <1>4, OwnedSuffices

LEMMA TickKeepsIInv == ASSUME IInv, Tick PROVE IInv'
<1> USE DEF Tick
<1>1. Owned(status', worker', queue', holder', local')
  BY IInvIsOwned
<1>2. RestOK'
  BY JobQueueAssumption DEF IInv, TypeOK, RestOK
<1>3. QED
  BY <1>1, <1>2, OwnedSuffices

LEMMA QuietKeepsIInv == ASSUME IInv, RequestDrain \/ UNCHANGED vars PROVE IInv'
<1>1. Owned(status', worker', queue', holder', local')
  BY IInvIsOwned DEF RequestDrain, vars
<1>2. RestOK'
  BY DEF RequestDrain, vars, IInv, TypeOK, RestOK
<1>3. QED
  BY <1>1, <1>2, OwnedSuffices

LEMMA NextKeepsIInv == IInv /\ [Next]_vars => IInv'
<1> SUFFICES ASSUME IInv, [Next]_vars PROVE IInv'
  OBVIOUS
<1>1. CASE \E j \in Job : Enqueue(j)
  BY <1>1, EnqueueKeepsIInv
<1>2. CASE RequestDrain \/ UNCHANGED vars
  BY <1>2, QuietKeepsIInv
<1>3. CASE RecoverExpiredRemoteClaims
  BY <1>3, RecoverKeepsIInv
<1>4. CASE \E capacity \in Capacities : Drain(capacity)
  BY <1>4, DrainKeepsIInv
<1>5. CASE LocalProgress
  BY <1>5, LocalProgressKeepsIInv
<1>6. CASE LocalThrow \/ \E outcome \in Terminal : LocalFinish(outcome)
  BY <1>6, LocalEndKeepsIInv
<1>7. ASSUME NEW a \in Agent, AgentCall(a) PROVE IInv'
  <2>1. CASE ClaimNextRemoteJob(a)
    BY <2>1, ClaimKeepsIInv
  <2>2. CASE \E j \in Job : HeartbeatRemoteJob(j, a)
    BY <2>2, HeartbeatKeepsIInv
  <2>3. CASE \E j \in Job, outcome \in Terminal : CompleteRemoteJob(j, a, outcome)
    BY <2>3, CompleteKeepsIInv
  <2>4. CASE \E j \in Job, snapshot \in Terminal \cup {None} : FailRemoteJob(j, a, snapshot)
    <3>1. \E j \in Job, outcome \in Terminal : CompleteRemoteJob(j, a, outcome)
      BY <2>4 DEF FailRemoteJob, Terminal
    <3>2. QED
      BY <3>1, CompleteKeepsIInv
  <2>5. QED
    BY <1>7, <2>1, <2>2, <2>3, <2>4 DEF AgentCall
<1>8. CASE Tick
  BY <1>8, TickKeepsIInv
<1>9. QED
  BY <1>1, <1>2, <1>3, <1>4, <1>5, <1>6, <1>7, <1>8 DEF Next

LEMMA InitIsIInv == Init => IInv
<1> SUFFICES ASSUME Init PROVE IInv
  OBVIOUS
<1>1. TypeOK
  <2>1. queue \in Seq(Job)
    BY EmptySeq DEF Init
  <2>2. 0 \in 0..LeaseTicks
    BY JobQueueAssumption
  <2>3. QED
    BY <2>1, <2>2 DEF Init, TypeOK, Status, Detail
<1>2. ExactlyOneOwner
  BY JobQueueAssumption DEF Init, ExactlyOneOwner, NoDuplicates, ToSet
<1>3. WorkerIsOwner
  BY JobQueueAssumption DEF Init, WorkerIsOwner, Terminal
<1>4. QED
  BY <1>1, <1>2, <1>3 DEF IInv

LEMMA AlwaysIInv == Spec => []IInv
BY InitIsIInv, NextKeepsIInv, PTL DEF Spec

(* Every field of the queue keeps its type. *)
THEOREM TypeCorrect == Spec => []TypeOK
<1>1. IInv => TypeOK
  BY DEF IInv
<1>2. QED
  BY <1>1, AlwaysIInv, PTL

(* Every job is in exactly one place: none is lost, none runs twice. *)
THEOREM OneOwner == Spec => []ExactlyOneOwner
<1>1. IInv => ExactlyOneOwner
  BY DEF IInv
<1>2. QED
  BY <1>1, AlwaysIInv, PTL

(* The worker shown for a job is the one that has it. *)
THEOREM WorkerCorrect == Spec => []WorkerIsOwner
<1>1. IInv => WorkerIsOwner
  BY DEF IInv
<1>2. QED
  BY <1>1, AlwaysIInv, PTL

-----------------------------------------------------------------------------
(* What one step may do to one job.                                        *)

Keeps(i) == /\ status'[i] = status[i] /\ worker'[i] = worker[i] /\ holder'[i] = holder[i]
            /\ \/ detail'[i] = detail[i]
               \/ status[i] = "running" /\ detail'[i] = "reported"

Submits(i) == /\ status[i] = "absent"
              /\ status'[i] = "queued" /\ worker'[i] = None
              /\ detail'[i] = "queued_waiting_for_worker"

Requeues(i) == /\ i \in Requeued
               /\ status'[i] = "queued" /\ worker'[i] = None
               /\ detail'[i] = "queued_waiting_for_worker"

Starts(i) == /\ status[i] = "queued" \/ i \in Requeued
             /\ status'[i] = "running" /\ worker'[i] \in Worker
             /\ detail'[i] = "claimed"

Ends(i) == /\ i \notin Expired
           /\ status[i] = "running"
           /\ status'[i] \in Terminal /\ worker'[i] = worker[i] /\ holder'[i] = None
           /\ detail'[i] = status'[i]

Move(i) == Keeps(i) \/ Submits(i) \/ Requeues(i) \/ Starts(i) \/ Ends(i)

(* After the sweep a job is either as before or back in the queue. *)
LEMMA SweptJob ==
  ASSUME IInv, NEW i \in Job
  PROVE  \/ /\ i \in Requeued
            /\ StatusR[i] = "queued" /\ WorkerR[i] = None /\ HolderR[i] = None
            /\ DetailR[i] = "queued_waiting_for_worker"
         \/ /\ i \notin Expired
            /\ StatusR[i] = status[i] /\ WorkerR[i] = worker[i] /\ HolderR[i] = holder[i]
            /\ DetailR[i] = detail[i]
BY EveryExpiredIsRequeued DEF StatusR, WorkerR, HolderR, DetailR

LEMMA SweepFunctions ==
  ASSUME IInv
  PROVE  /\ DOMAIN StatusR = Job /\ DOMAIN WorkerR = Job
         /\ DOMAIN HolderR = Job /\ DOMAIN DetailR = Job
BY DEF StatusR, WorkerR, HolderR, DetailR

LEMMA EnqueueMoves == ASSUME IInv, NEW j \in Job, Enqueue(j), NEW i \in Job PROVE Move(i)
<1>1. i # j => /\ status'[i] = StatusR[i] /\ worker'[i] = WorkerR[i]
               /\ holder'[i] = HolderR[i] /\ detail'[i] = DetailR[i]
  BY SweepFunctions DEF Enqueue
<1>2. i = j => Submits(i)
  BY SweepFunctions DEF Enqueue, Submits
<1>3. QED
  BY <1>1, <1>2, SweptJob DEF Move, Keeps, Requeues

LEMMA RecoverMoves == ASSUME IInv, RecoverExpiredRemoteClaims, NEW i \in Job PROVE Move(i)
BY SweptJob DEF RecoverExpiredRemoteClaims, Recover, Move, Keeps, Requeues

(* The head of the swept queue is a job that may be started. *)
LEMMA SweptHead ==
  ASSUME IInv, NEW q \in QueuesR, q # <<>>
  PROVE  Head(q) \in Job /\ (status[Head(q)] = "queued" \/ Head(q) \in Requeued)
<1>1. Owned(StatusR, WorkerR, q, HolderR, local) /\ Owned(status, worker, queue, holder, local)
  BY SweepKeepsOwned, IInvIsOwned
<1>2. Head(q) \in Job /\ Queued(q, Head(q))
  BY <1>1, HeadLeavesQueue DEF Owned, Typed
<1>3. StatusR[Head(q)] = "queued"
  BY <1>1, <1>2 DEF Owned, Placed
<1>4. QED
  BY <1>2, <1>3, SweptJob

LEMMA DrainMoves ==
  ASSUME IInv, NEW capacity \in Capacities, Drain(capacity), NEW i \in Job
  PROVE  Move(i)
<1>1. PICK q \in QueuesR :
        IF DrainRests(q, capacity)
        THEN status' = StatusR /\ worker' = WorkerR /\ detail' = DetailR
        ELSE /\ status' = [StatusR EXCEPT ![Head(q)] = "running"]
             /\ worker' = [WorkerR EXCEPT ![Head(q)] = LocalMain]
             /\ detail' = [DetailR EXCEPT ![Head(q)] = "claimed"]
  BY DEF Drain
<1>2. holder' = HolderR
  BY DEF Drain
<1>3. CASE DrainRests(q, capacity)
  BY <1>1, <1>2, <1>3, SweptJob DEF Move, Keeps, Requeues
<1>4. CASE ~DrainRests(q, capacity)
  <2>1. q # <<>>
    BY <1>4 DEF DrainRests
  <2>2. Head(q) \in Job /\ (status[Head(q)] = "queued" \/ Head(q) \in Requeued)
    BY <2>1, SweptHead
  <2>3. CASE i = Head(q)
    BY <1>1, <1>4, <2>2, <2>3, SweepFunctions DEF Move, Starts, Worker
  <2>4. CASE i # Head(q)
    <3>1. status'[i] = StatusR[i] /\ worker'[i] = WorkerR[i] /\ detail'[i] = DetailR[i]
      BY <1>1, <1>4, <2>4, SweepFunctions
    <3>2. QED
      BY <1>2, <3>1, SweptJob DEF Move, Keeps, Requeues
  <2>5. QED
    BY <2>3, <2>4
<1>5. QED
  BY <1>3, <1>4

LEMMA ClaimMoves ==
  ASSUME IInv, NEW a \in Agent, ClaimNextRemoteJob(a), NEW i \in Job
  PROVE  Move(i)
<1>1. PICK q \in QueuesR : /\ q # <<>>
                           /\ status' = [StatusR EXCEPT ![Head(q)] = "running"]
                           /\ worker' = [WorkerR EXCEPT ![Head(q)] = a]
                           /\ detail' = [DetailR EXCEPT ![Head(q)] = "claimed"]
                           /\ holder' = [HolderR EXCEPT ![Head(q)] = a]
  BY DEF ClaimNextRemoteJob
<1>2. Head(q) \in Job /\ (status[Head(q)] = "queued" \/ Head(q) \in Requeued)
  BY <1>1, SweptHead
<1>3. CASE i = Head(q)
  BY <1>1, <1>2, <1>3, SweepFunctions DEF Move, Starts, Worker
<1>4. CASE i # Head(q)
  <2>1. /\ status'[i] = StatusR[i] /\ worker'[i] = WorkerR[i]
        /\ holder'[i] = HolderR[i] /\ detail'[i] = DetailR[i]
    BY <1>1, <1>4, SweepFunctions
  <2>2. QED
    BY <2>1, SweptJob DEF Move, Keeps, Requeues
<1>5. QED
  BY <1>3, <1>4

LEMMA HeldJob ==
  ASSUME IInv, NEW j \in Job, NEW a \in Agent, HolderR[j] = a
  PROVE  j \notin Expired /\ status[j] = "running" /\ worker[j] = a /\ holder[j] = a
<1>1. HolderR[j] # None
  BY JobQueueAssumption
<1>2. j \notin Expired /\ holder[j] = a
  BY <1>1, SweptJob
<1>3. QED
  BY <1>1, <1>2 DEF IInv, ExactlyOneOwner, WorkerIsOwner

LEMMA HeartbeatMoves ==
  ASSUME IInv, NEW j \in Job, NEW a \in Agent, HeartbeatRemoteJob(j, a), NEW i \in Job
  PROVE  Move(i)
<1>1. j \notin Expired /\ status[j] = "running" /\ worker[j] = a /\ holder[j] = a /\ a # None
  BY HeldJob, JobQueueAssumption DEF HeartbeatRemoteJob, Accepted
<1>2. CASE i = j
  <2>1. WorkerR[i] = a /\ HolderR[i] = a
    BY <1>1, <1>2, SweptJob DEF Requeued
  <2>2. status'[i] = "running" /\ worker'[i] = a /\ holder'[i] = a /\ detail'[i] = "reported"
    BY <1>1, <1>2, <2>1, SweepFunctions DEF HeartbeatRemoteJob, MergeWorker
  <2>3. QED
    BY <1>1, <1>2, <2>2 DEF Move, Keeps
<1>3. CASE i # j
  <2>1. /\ status'[i] = StatusR[i] /\ worker'[i] = WorkerR[i]
        /\ holder'[i] = HolderR[i] /\ detail'[i] = DetailR[i]
    BY <1>3, SweepFunctions DEF HeartbeatRemoteJob
  <2>2. QED
    BY <2>1, SweptJob DEF Move, Keeps, Requeues
<1>4. QED
  BY <1>2, <1>3

LEMMA CompleteMoves ==
  ASSUME IInv, NEW j \in Job, NEW a \in Agent, NEW outcome \in Terminal,
         CompleteRemoteJob(j, a, outcome), NEW i \in Job
  PROVE  Move(i)
<1>1. j \notin Expired /\ status[j] = "running" /\ worker[j] = a
  BY HeldJob DEF CompleteRemoteJob, Accepted
<1>2. CASE i = j
  BY <1>1, <1>2, SweepFunctions DEF CompleteRemoteJob, Move, Ends
<1>3. CASE i # j
  <2>1. /\ status'[i] = StatusR[i] /\ worker'[i] = WorkerR[i]
        /\ holder'[i] = HolderR[i] /\ detail'[i] = DetailR[i]
    BY <1>3, SweepFunctions DEF CompleteRemoteJob
  <2>2. QED
    BY <2>1, SweptJob DEF Move, Keeps, Requeues
<1>4. QED
  BY <1>2, <1>3

LEMMA LocalMoves ==
  ASSUME IInv, LocalProgress \/ LocalThrow \/ (\E outcome \in Terminal : LocalFinish(outcome)),
         NEW i \in Job
  PROVE  Move(i)
<1>1. local # None
  BY DEF LocalProgress, LocalThrow, LocalFinish
<1>2. local \in Job /\ status[local] = "running" /\ worker[local] = LocalMain
        /\ holder[local] = None /\ local \notin Expired
  BY <1>1 DEF IInv, TypeOK, ExactlyOneOwner, WorkerIsOwner, Expired
<1>3. /\ DOMAIN status = Job /\ DOMAIN worker = Job /\ DOMAIN holder = Job /\ DOMAIN detail = Job
      /\ LocalMain # None
  BY JobQueueAssumption DEF IInv, TypeOK
<1>4. CASE LocalProgress
  BY <1>2, <1>3, <1>4 DEF LocalProgress, MergeWorker, Move, Keeps
<1>5. CASE LocalThrow
  BY <1>2, <1>3, <1>5 DEF LocalThrow, MergeWorker, Move, Keeps, Ends, Terminal
<1>6. CASE \E outcome \in Terminal : LocalFinish(outcome)
  BY <1>2, <1>3, <1>6 DEF LocalFinish, Move, Keeps, Ends
<1>7. QED
  BY <1>4, <1>5, <1>6

LEMMA EveryStepMoves == ASSUME IInv, [Next]_vars, NEW i \in Job PROVE Move(i)
<1>1. CASE \E j \in Job : Enqueue(j)
  BY <1>1, EnqueueMoves
<1>2. CASE RequestDrain \/ Tick \/ UNCHANGED vars
  BY <1>2 DEF RequestDrain, Tick, vars, Move, Keeps
<1>3. CASE RecoverExpiredRemoteClaims
  BY <1>3, RecoverMoves
<1>4. CASE \E capacity \in Capacities : Drain(capacity)
  BY <1>4, DrainMoves
<1>5. CASE LocalProgress \/ LocalThrow \/ (\E outcome \in Terminal : LocalFinish(outcome))
  BY <1>5, LocalMoves
<1>6. ASSUME NEW a \in Agent, AgentCall(a) PROVE Move(i)
  <2>1. CASE ClaimNextRemoteJob(a)
    BY <2>1, ClaimMoves
  <2>2. CASE \E j \in Job : HeartbeatRemoteJob(j, a)
    BY <2>2, HeartbeatMoves
  <2>3. CASE \/ \E j \in Job, outcome \in Terminal : CompleteRemoteJob(j, a, outcome)
             \/ \E j \in Job, snapshot \in Terminal \cup {None} : FailRemoteJob(j, a, snapshot)
    <3>1. \E j \in Job, outcome \in Terminal : CompleteRemoteJob(j, a, outcome)
      BY <2>3 DEF FailRemoteJob, Terminal
    <3>2. QED
      BY <3>1, CompleteMoves
  <2>4. QED
    BY <1>6, <2>1, <2>2, <2>3 DEF AgentCall
<1>7. QED
  BY <1>1, <1>2, <1>3, <1>4, <1>5, <1>6 DEF Next

-----------------------------------------------------------------------------
(* Theorems that follow from what a step may do to one job.                *)

(* An ended job is never reopened, reassigned or re-ended. *)
THEOREM EndedStaysEnded == Spec => TerminalIsFinal
<1>1. ASSUME IInv, [Next]_vars, NEW j \in Job, status[j] \in Terminal
      PROVE  status'[j] = status[j] /\ worker'[j] = worker[j]
  <2>1. Move(j)
    BY <1>1, EveryStepMoves
  <2>2. QED
    BY <1>1, <2>1 DEF Move, Keeps, Submits, Requeues, Requeued, Starts, Ends, Terminal
<1>2. IInv /\ [Next]_vars =>
        [\A j \in Job : status[j] \in Terminal => status'[j] = status[j] /\ worker'[j] = worker[j]]_vars
  BY <1>1
<1>3. QED
  BY <1>2, AlwaysIInv, PTL DEF Spec, TerminalIsFinal

(* Before its lease lapses only the agent that holds it ends a job; after  *)
(* that, the agent cannot.                                                 *)
THEOREM LeasesDecide == Spec => LeaseDecides
<1> DEFINE Decided(j) ==
      IF lease[j] > 0
      THEN \/ holder'[j] = holder[j] /\ status'[j] = "running"
           \/ holder'[j] = None /\ status'[j] \in Terminal /\ worker'[j] = holder[j]
      ELSE status'[j] \notin Terminal
<1>1. ASSUME IInv, [Next]_vars, NEW j \in Job, holder[j] # None
      PROVE  Decided(j)
  <2>1. Move(j)
    BY <1>1, EveryStepMoves
  <2>2. status[j] = "running" /\ worker[j] = holder[j] /\ lease[j] \in Nat
    BY <1>1, JobQueueAssumption DEF IInv, TypeOK, ExactlyOneOwner, WorkerIsOwner
  <2>3. j \in Expired <=> ~(lease[j] > 0)
    BY <1>1, <2>2 DEF Expired
  <2>4. CASE Keeps(j)
    BY <2>2, <2>4 DEF Keeps, Terminal
  <2>5. CASE Requeues(j) \/ Starts(j)
    BY <2>2, <2>3, <2>5 DEF Requeues, Starts, Requeued, Terminal
  <2>6. CASE Ends(j)
    BY <2>2, <2>3, <2>6 DEF Ends
  <2>7. QED
    BY <2>1, <2>2, <2>4, <2>5, <2>6 DEF Move, Submits
<1>2. IInv /\ [Next]_vars => [\A j \in Job : holder[j] # None => Decided(j)]_vars
  BY <1>1
<1>3. QED
  BY <1>2, AlwaysIInv, PTL DEF Spec, LeaseDecides

(* A job's detail never contradicts its status. *)
THEOREM DetailCorrect == Spec => []DetailFollowsStatus
<1>1. Init => DetailFollowsStatus
  BY DEF Init, DetailFollowsStatus, Terminal
<1>2. ASSUME IInv, DetailFollowsStatus, [Next]_vars, NEW j \in Job
      PROVE  /\ status'[j] = "queued" => detail'[j] = "queued_waiting_for_worker"
             /\ status'[j] = "running" => detail'[j] \in {"claimed", "reported"}
             /\ status'[j] \in Terminal => detail'[j] = status'[j]
  <2>1. Move(j)
    BY <1>2, EveryStepMoves
  <2>2. QED
    BY <1>2, <2>1 DEF Move, Keeps, Submits, Requeues, Starts, Ends, DetailFollowsStatus, Terminal
<1>3. IInv /\ DetailFollowsStatus /\ [Next]_vars => DetailFollowsStatus'
  BY <1>2 DEF DetailFollowsStatus
<1>4. QED
  BY <1>1, <1>3, AlwaysIInv, PTL DEF Spec

(* The queue implements what JobLifecycle promises of every job. *)
THEOREM Implements == Spec => LifecycleSpec
<1>1. Init => Lifecycle!Init
  BY DEF Init, Lifecycle!Init
<1>2. ASSUME IInv, [Next]_vars, NEW j \in Job PROVE Lifecycle!JobStep(j)
  <2>1. Move(j)
    BY <1>2, EveryStepMoves
  <2>2. CASE Keeps(j)
    BY <2>2 DEF Keeps, Lifecycle!JobStep, Lifecycle!Stays
  <2>3. CASE Submits(j)
    BY <2>3 DEF Submits, Lifecycle!JobStep, Lifecycle!Submitted
  <2>4. CASE Requeues(j)
    BY <2>4 DEF Requeues, Requeued, Lifecycle!JobStep, Lifecycle!GivenUp
  <2>5. CASE Starts(j)
    BY <2>5 DEF Starts, Requeued, Worker, Lifecycle!JobStep, Lifecycle!Started, Lifecycle!GivenUp
  <2>6. CASE Ends(j)
    BY <2>6 DEF Ends, Terminal, Lifecycle!JobStep, Lifecycle!EndedBy, Lifecycle!Ended
  <2>7. QED
    BY <2>1, <2>2, <2>3, <2>4, <2>5, <2>6 DEF Move
<1>3. ASSUME IInv', NEW i \in Job, NEW j \in Job,
             Lifecycle!RunsLocally(i)', Lifecycle!RunsLocally(j)'
      PROVE  i = j
  <2>1. status'[i] = "running" /\ worker'[i] = LocalMain
    BY <1>3 DEF Lifecycle!RunsLocally
  <2>2. status'[j] = "running" /\ worker'[j] = LocalMain
    BY <1>3 DEF Lifecycle!RunsLocally
  <2>3. \A k \in Job : holder'[k] # None => worker'[k] \in Agent
    BY <1>3 DEF IInv, TypeOK, WorkerIsOwner
  <2>4. local' = i /\ local' = j
    BY <1>3, <2>1, <2>2, <2>3, JobQueueAssumption DEF IInv, ExactlyOneOwner
  <2>5. QED
    BY <2>4
<1>4. IInv /\ IInv' /\ [Next]_vars => [Lifecycle!Next]_(Lifecycle!lifecycleVars)
  BY <1>2, <1>3 DEF Lifecycle!Next
<1>5. QED
  BY <1>1, <1>4, AlwaysIInv, PTL DEF Spec, LifecycleSpec, Lifecycle!Spec

-----------------------------------------------------------------------------
(* The wakeups of the local worker.                                        *)

(* A sweep that requeues nothing leaves the queue as it is. *)
LEMMA QuietSweep ==
  ASSUME IInv, Requeued = {}, NEW q \in QueuesR PROVE q = queue
<1>1. PICK front \in SetToSeqs({}) : q = front \o RemoveFromQueue(queue, Requeued)
  BY DEF QueuesR
<1>2. RemoveFromQueue(queue, Requeued) = queue
  BY DEF RemoveFromQueue
<1>3. front \in [1..0 -> {}]
  BY FS_EmptySet DEF SetToSeqs
<1>4. front = <<>>
  BY <1>3
<1>5. QED
  BY <1>1, <1>2, <1>4 DEF IInv, TypeOK

(* A drain that rests with no drain to follow found capacity for all that  *)
(* waits, unless the local worker is busy.                                 *)
LEMMA DrainWakes ==
  ASSUME IInv, NEW capacity \in Capacities, Drain(capacity)
  PROVE  NoLostWakeup'
<1> SUFFICES ASSUME ~drainPending', local' = None
             PROVE  Len(queue') <= capacitySeen'
  BY DEF NoLostWakeup
<1>1. Requeued = {} /\ capacitySeen' = capacity
  BY DEF Drain
<1>2. IF DrainRests(queue, capacity) THEN queue' = queue /\ local' = local
                                     ELSE local' = Head(queue)
  BY <1>1, QuietSweep DEF Drain
<1>3. CASE DrainRests(queue, capacity)
  <2>1. queue = <<>> \/ Len(queue) <= capacity
    BY <1>2, <1>3 DEF DrainRests
  <2>2. queue = <<>> => Len(queue) = 0
    OBVIOUS
  <2>3. capacity \in Nat
    BY JobQueueAssumption
  <2>4. QED
    BY <1>1, <1>2, <1>3, <2>1, <2>2, <2>3
<1>4. CASE ~DrainRests(queue, capacity)
  <2>1. queue # <<>> /\ queue \in Seq(Job)
    BY <1>4 DEF DrainRests, IInv, TypeOK
  <2>2. Head(queue) \in Job
    BY <2>1
  <2>3. QED
    BY <1>2, <1>4, <2>2, JobQueueAssumption
<1>5. QED
  BY <1>3, <1>4

(* The local worker is never left asleep beside work it should take. *)
THEOREM Wakeups == Spec => []NoLostWakeup
<1>1. Init => NoLostWakeup
  <2>1. Init => Len(queue) = 0 /\ capacitySeen = 0
    BY DEF Init
  <2>2. QED
    BY <2>1 DEF NoLostWakeup
<1>2. ASSUME IInv, NoLostWakeup, [Next]_vars PROVE NoLostWakeup'
  <2>1. CASE \E capacity \in Capacities : Drain(capacity)
    BY <1>2, <2>1, DrainWakes
  <2>2. CASE RecoverExpiredRemoteClaims
    BY <1>2, <2>2, QuietSweep DEF RecoverExpiredRemoteClaims, Recover, MicrotasksDone, NoLostWakeup
  <2>3. CASE \E a \in Agent, j \in Job : HeartbeatRemoteJob(j, a)
    BY <1>2, <2>3, QuietSweep DEF HeartbeatRemoteJob, MicrotasksDone, NoLostWakeup
  <2>4. CASE LocalProgress \/ Tick \/ UNCHANGED vars
    BY <1>2, <2>4 DEF LocalProgress, Tick, vars, NoLostWakeup
  <2>5. CASE drainPending'
    BY <2>5 DEF NoLostWakeup
  <2>6. QED
    BY <1>2, <2>1, <2>2, <2>3, <2>4, <2>5
       DEF Next, AgentCall, Enqueue, RequestDrain, LocalFinish, LocalThrow,
           ClaimNextRemoteJob, CompleteRemoteJob, FailRemoteJob
<1>3. QED
  BY <1>1, <1>2, AlwaysIInv, PTL DEF Spec

-----------------------------------------------------------------------------
(* The order of the queue.                                                 *)

(* FirstComeFirstServed, for the step from queue to r.                     *)
Follows(r) ==
  /\ \A x, y \in Job : Before(queue, x, y) => Before(r, x, y) \/ ~Queued(r, x)
  /\ \A x, y \in Job :
       Queued(queue, x) /\ Queued(r, x) /\ Queued(r, y) /\ ~Queued(queue, y) =>
         IF status[y] = "absent" THEN Before(r, x, y) ELSE Before(r, y, x)

LEMMA QueuedIsListed ==
  ASSUME NEW r \in Seq(Job), NEW x PROVE x \in ToSet(r) <=> Queued(r, x)
BY DEF ToSet, Queued

LEMMA BeforeInRange ==
  ASSUME NEW r \in Seq(Job), NEW x, NEW y
  PROVE  /\ Before(r, x, y) <=> \E i, k \in 1..Len(r) : i < k /\ r[i] = x /\ r[k] = y
         /\ Before(r, x, y) => Queued(r, x) /\ Queued(r, y)
         /\ Len(r) \in Nat
BY DEF Before, Queued

(* The sweep puts the jobs it requeues before all that wait. *)
LEMMA SweptFollows == ASSUME IInv, NEW q \in QueuesR PROVE Follows(q)
<1>1. PICK front \in SetToSeqs(Requeued) : q = front \o RemoveFromQueue(queue, Requeued)
  BY DEF QueuesR
<1>2. Requeued \in SUBSET Job /\ \A j \in Requeued : status[j] = "running"
  BY DEF Requeued, Expired
<1>3. front \in Seq(Job) /\ \A j \in Job : Queued(front, j) <=> j \in Requeued
  BY <1>2, SetToSeqsProperties
<1>4. Owned(status, worker, queue, holder, local)
  BY IInvIsOwned
<1>5. \A j \in Requeued : ~Queued(queue, j)
  BY <1>4 DEF Owned, Placed, Requeued, Expired
<1>6. queue \in Seq(Job) /\ DOMAIN queue = 1..Len(queue)
  BY <1>4, LenProperties DEF Owned, Typed
<1>7. RemoveFromQueue(queue, Requeued) = queue
  BY <1>5, <1>6 DEF RemoveFromQueue, ToSet, Queued
<1> DEFINE n == Len(front)
           m == Len(queue)
<1>8. /\ q \in Seq(Job) /\ Len(q) = n + m /\ n \in Nat /\ m \in Nat
      /\ \A i \in 1..(n + m) : q[i] = IF i <= n THEN front[i] ELSE queue[i - n]
  BY <1>1, <1>3, <1>6, <1>7, ConcatProperties, LenProperties
<1> HIDE DEF n, m
<1>9. \A i \in 1..n : i \in 1..Len(q) /\ q[i] = front[i]
  BY <1>8
<1>10. ASSUME NEW i \in 1..m PROVE n + i \in 1..Len(q) /\ q[n + i] = queue[i]
  <2>1. n + i \in 1..(n + m) /\ ~(n + i <= n) /\ (n + i) - n = i
    BY <1>8
  <2>2. QED
    BY <1>8, <2>1
<1>11. ASSUME NEW x \in Job, NEW y \in Job, Before(queue, x, y) PROVE Before(q, x, y)
  <2>1. PICK i \in 1..m, k \in 1..m : i < k /\ queue[i] = x /\ queue[k] = y
    BY <1>6, <1>11, BeforeInRange DEF m
  <2>2. n + i < n + k
    BY <1>8, <2>1
  <2>3. QED
    BY <1>8, <1>10, <2>1, <2>2, BeforeInRange
<1>12. ASSUME NEW x \in Job, NEW y \in Job, Queued(queue, x), Queued(q, y), ~Queued(queue, y)
       PROVE  status[y] # "absent" /\ Before(q, y, x)
  <2>1. y \in Requeued
    BY <1>12, SweptQueue
  <2>2. PICK k \in 1..n : front[k] = y
    BY <1>3, <2>1 DEF Queued, n
  <2>3. PICK i \in 1..m : queue[i] = x
    BY <1>12 DEF Queued, m
  <2>4. k < n + i
    BY <1>8, <2>2, <2>3
  <2>5. Before(q, y, x)
    BY <1>8, <1>9, <1>10, <2>2, <2>3, <2>4, BeforeInRange
  <2>6. QED
    BY <1>2, <2>1, <2>5
<1>13. QED
  BY <1>11, <1>12 DEF Follows

(* Taking the head off changes the order of no others. *)
LEMMA TailFollows ==
  ASSUME NEW q \in Seq(Job), q # <<>>, Distinct(q), Follows(q)
  PROVE  Follows(Tail(q))
<1> DEFINE r == Tail(q)
<1>1. /\ r \in Seq(Job)
      /\ Head(q) \in Job
      /\ \A i \in Job : Queued(r, i) <=> Queued(q, i) /\ i # Head(q)
  BY HeadLeavesQueue
<1>2. /\ Len(r) = Len(q) - 1 /\ Len(q) \in Nat
      /\ \A i \in 1..Len(r) : r[i] = q[i + 1]
  BY HeadTailProperties
<1>3. Head(q) = q[1]
  OBVIOUS
<1> HIDE DEF r
<1>4. ASSUME NEW x \in Job, NEW y \in Job, Before(q, x, y), x # Head(q) PROVE Before(r, x, y)
  <2>1. PICK i \in 1..Len(q), k \in 1..Len(q) : i < k /\ q[i] = x /\ q[k] = y
    BY <1>4, BeforeInRange
  <2>2. i # 1
    BY <1>3, <1>4, <2>1
  <2>3. /\ i - 1 \in 1..Len(r) /\ k - 1 \in 1..Len(r) /\ i - 1 < k - 1
        /\ (i - 1) + 1 = i /\ (k - 1) + 1 = k
    BY <1>2, <2>1, <2>2
  <2>4. r[i - 1] = x /\ r[k - 1] = y
    BY <1>2, <2>1, <2>3
  <2>5. QED
    BY <1>1, <2>3, <2>4, BeforeInRange
<1>5. QED
  BY <1>1, <1>4 DEF Follows, r

(* A new job goes behind all that wait. *)
LEMMA AppendFollows ==
  ASSUME queue \in Seq(Job), NEW q \in Seq(Job), Follows(q), NEW j \in Job, status[j] = "absent",
         ~Queued(queue, j), ~Queued(q, j)
  PROVE  Follows(Append(q, j))
<1> DEFINE r == Append(q, j)
           n == Len(q)
<1>1. /\ r \in Seq(Job) /\ Len(r) = n + 1 /\ n \in Nat
      /\ \A i \in 1..n : r[i] = q[i] /\ i \in 1..Len(r)
      /\ r[n + 1] = j /\ n + 1 \in 1..Len(r)
  BY AppendProperties, LenProperties
<1> HIDE DEF r
<1>2. ASSUME NEW i \in Job PROVE Queued(r, i) <=> Queued(q, i) \/ i = j
  <2>1. 1..Len(r) = 1..n \cup {n + 1}
    BY <1>1
  <2>2. QED
    BY <1>1, <2>1 DEF Queued
<1>3. ASSUME NEW x \in Job, NEW y \in Job, Before(q, x, y) PROVE Before(r, x, y)
  <2>1. PICK i \in 1..n, k \in 1..n : i < k /\ q[i] = x /\ q[k] = y
    BY <1>3, BeforeInRange
  <2>2. QED
    BY <1>1, <2>1, BeforeInRange
<1>4. ASSUME NEW x \in Job, Queued(q, x) PROVE Before(r, x, j)
  <2>1. PICK i \in 1..n : q[i] = x
    BY <1>4 DEF Queued
  <2>2. i < n + 1
    BY <1>1
  <2>3. QED
    BY <1>1, <2>1, <2>2, BeforeInRange
<1> HIDE DEF n
<1>5. ASSUME NEW x \in Job, NEW y \in Job, Before(queue, x, y), Queued(r, x), x # j
      PROVE  Before(r, x, y)
  <2>1. Before(q, x, y)
    BY <1>2, <1>5 DEF Follows
  <2>2. QED
    BY <1>3, <2>1
<1>6. ASSUME NEW x \in Job, NEW y \in Job,
             Queued(queue, x), Queued(r, x), Queued(r, y), ~Queued(queue, y)
      PROVE  IF status[y] = "absent" THEN Before(r, x, y) ELSE Before(r, y, x)
  <2>1. x # j /\ Queued(q, x)
    BY <1>2, <1>6
  <2>2. CASE y = j
    BY <1>4, <2>1, <2>2
  <2>3. CASE y # j
    <3>1. Queued(q, y)
      BY <1>2, <1>6, <2>3
    <3>2. IF status[y] = "absent" THEN Before(q, x, y) ELSE Before(q, y, x)
      BY <1>6, <2>1, <3>1 DEF Follows
    <3>3. QED
      BY <1>3, <3>2
  <2>4. QED
    BY <2>2, <2>3
<1>7. ASSUME NEW x \in Job, NEW y \in Job, Before(queue, x, y) PROVE x # j
  BY <1>7, BeforeInRange
<1>8. QED
  BY <1>5, <1>6, <1>7 DEF Follows, r

LEMMA StayingFollows == IInv => Follows(queue)
BY DEF Follows

LEMMA EveryStepFollows == ASSUME IInv, [Next]_vars PROVE queue' \in Seq(Job) /\ Follows(queue')
<1>1. ASSUME NEW q \in QueuesR PROVE q \in Seq(Job) /\ Distinct(q) /\ Follows(q)
  BY <1>1, SweptQueue, SweptFollows
<1>2. ASSUME NEW q \in QueuesR, q # <<>> PROVE Tail(q) \in Seq(Job) /\ Follows(Tail(q))
  BY <1>1, <1>2, TailFollows, HeadTailProperties
<1>3. CASE queue' = queue
  BY <1>3, StayingFollows DEF IInv, TypeOK
<1>4. CASE queue' \in QueuesR
  BY <1>1, <1>4
<1>5. CASE \E q \in QueuesR : q # <<>> /\ queue' = Tail(q)
  BY <1>2, <1>5
<1>6. ASSUME NEW j \in Job, Enqueue(j) PROVE queue' \in Seq(Job) /\ Follows(queue')
  <2>1. PICK q \in QueuesR : queue' = Append(q, j)
    BY <1>6 DEF Enqueue
  <2>2. status[j] = "absent"
    BY <1>6 DEF Enqueue
  <2>3. ~Queued(queue, j) /\ j \notin Requeued
    BY <2>2, IInvIsOwned DEF Owned, Placed, Requeued
  <2>4. ~Queued(q, j)
    BY <2>3, SweptQueue
  <2>5. QED
    BY <1>1, <2>1, <2>2, <2>3, <2>4, AppendFollows, AppendProperties DEF IInv, TypeOK
<1>7. ASSUME NEW capacity \in Capacities, Drain(capacity)
      PROVE  \/ queue' \in QueuesR
             \/ \E q \in QueuesR : q # <<>> /\ queue' = Tail(q)
  BY <1>7 DEF Drain, DrainRests
<1>8. ASSUME NEW a \in Agent, AgentCall(a)
      PROVE  \/ queue' \in QueuesR
             \/ \E q \in QueuesR : q # <<>> /\ queue' = Tail(q)
  BY <1>8 DEF AgentCall, ClaimNextRemoteJob, HeartbeatRemoteJob, CompleteRemoteJob, FailRemoteJob
<1>9. CASE \/ RequestDrain \/ LocalProgress \/ LocalThrow \/ Tick \/ UNCHANGED vars
           \/ \E outcome \in Terminal : LocalFinish(outcome)
  BY <1>3, <1>9 DEF RequestDrain, LocalProgress, LocalThrow, Tick, LocalFinish, vars
<1>10. CASE RecoverExpiredRemoteClaims
  BY <1>4, <1>10 DEF RecoverExpiredRemoteClaims, Recover
<1>11. QED
  BY <1>4, <1>5, <1>6, <1>7, <1>8, <1>9, <1>10 DEF Next

(* No job overtakes another, in any number of drains, claims, sweeps and   *)
(* submissions: enqueue pushes at the back, enqueueFront before the head,  *)
(* and drain and claimNextRemoteJob shift the head.                        *)
THEOREM NobodyOvertakes == Spec => FirstComeFirstServed
<1>1. IInv /\ [Next]_vars =>
        [/\ \A x, y \in Job :
             Before(queue, x, y) => Before(queue', x, y) \/ x \notin ToSet(queue')
         /\ \A x \in ToSet(queue) \cap ToSet(queue'), y \in ToSet(queue') \ ToSet(queue) :
             IF status[y] = "absent" THEN Before(queue', x, y) ELSE Before(queue', y, x)]_vars
  <2> SUFFICES ASSUME IInv, [Next]_vars
               PROVE  /\ \A x, y \in Job :
                           Before(queue, x, y) => Before(queue', x, y) \/ x \notin ToSet(queue')
                      /\ \A x \in ToSet(queue) \cap ToSet(queue'), y \in ToSet(queue') \ ToSet(queue) :
                           IF status[y] = "absent" THEN Before(queue', x, y) ELSE Before(queue', y, x)
    OBVIOUS
  <2>1. queue \in Seq(Job) /\ queue' \in Seq(Job) /\ Follows(queue')
    BY EveryStepFollows DEF IInv, TypeOK
  <2>2. \A x : /\ x \in ToSet(queue) <=> Queued(queue, x)
               /\ x \in ToSet(queue') <=> Queued(queue', x)
    BY <2>1, QueuedIsListed
  <2>3. ToSet(queue) \subseteq Job /\ ToSet(queue') \subseteq Job
    BY <2>1 DEF ToSet
  <2>4. QED
    BY <2>1, <2>2, <2>3 DEF Follows
<1>2. QED
  BY <1>1, AlwaysIInv, PTL DEF Spec, FirstComeFirstServed

-----------------------------------------------------------------------------
(* The fleet.                                                              *)

RegistryOK ==
  /\ listed \in [Agent -> {"unknown", "idle", "busy", "stale"}]
  /\ seen \in [Agent -> 0..StaleTicks]
  /\ ended \in [Agent -> Nat]

(* An agent has a task exactly while it works on it or sends its result. *)
LoopsOK ==
  /\ phase \in [Agent -> {"idle", "working", "uploading", "waiting", "dead"}]
  /\ task \in [Agent -> Job \cup {None}]
  /\ result \in [Agent -> Terminal \cup {None}]
  /\ retries \in [Agent -> BOOLEAN]
  /\ \A a \in Agent : /\ task[a] # None <=> phase[a] \in {"working", "uploading", "waiting"}
                      /\ phase[a] \in {"uploading", "waiting"} => result[a] \in Terminal

NetworkOK ==
  /\ late \subseteq Agent \X Job
  /\ uploads \subseteq Upload /\ IsFiniteSet(uploads)
  /\ faults \in 0..MaxFaults

FleetOK == RegistryOK /\ LoopsOK /\ NetworkOK

-----------------------------------------------------------------------------
(* The fleet's steps on the queue.                                         *)

LEMMA RecoverIsQueueStep == ASSUME IInv, MicrotasksDone, Recover PROVE [Next]_vars
<1>1. CASE Expired # {}
  BY <1>1 DEF Next, RecoverExpiredRemoteClaims
<1>2. CASE Expired = {}
  <2>1. Requeued = {}
    BY <1>2 DEF Requeued
  <2>2. queue' = queue
    BY <2>1, QuietSweep DEF Recover
  <2>3. StatusR = status /\ WorkerR = worker /\ DetailR = detail /\ HolderR = holder
    BY <1>2, <2>1 DEF StatusR, WorkerR, DetailR, HolderR, IInv, TypeOK
  <2>4. drainPending' = drainPending
    BY <2>1 DEF Recover, MicrotasksDone, IInv, TypeOK
  <2>5. QED
    BY <2>2, <2>3, <2>4 DEF Recover, vars
<1>3. QED
  BY <1>1, <1>2

LEMMA CountIdleIsCapacity == CountIdle \in Capacities
<1> DEFINE Idle == {a \in Agent : listed[a] = "idle" /\ seen[a] > 0}
<1>1. IsFiniteSet(Agent) /\ Idle \subseteq Agent
  BY AgentFleetAssumption
<1>2. Cardinality(Agent) \in Nat /\ Cardinality(Idle) \in Nat /\ Cardinality(Idle) <= Cardinality(Agent)
  BY <1>1, FS_Subset, FS_CardinalityType
<1>3. QED
  BY <1>2, AgentFleetAssumption DEF CountIdle

(* What a step of the fleet is to the queue. *)
LEMMA FleetStepsTheQueue ==
  ASSUME IInv, FleetOK, [FleetNext]_fleetVars
  PROVE  [Next]_vars
<1>1. CASE UNCHANGED fleetVars
  BY <1>1 DEF fleetVars, queueVars
<1>2. CASE \E j \in Job : Submit(j)
  BY <1>2 DEF Submit, Next
<1>3. CASE DrainLocally
  BY <1>3, CountIdleIsCapacity DEF DrainLocally, Next
<1>4. CASE ProcessLocally
  BY <1>4 DEF ProcessLocally, Next
<1>5. CASE SyncExpiredAgentLeases \/ SweepSilently
  BY <1>5 DEF SyncExpiredAgentLeases, SweepSilently, Next
<1>6. ASSUME NEW a \in Agent,
             \/ CheckInForWork(a) \/ CheckInIdle(a) \/ Heartbeat(a)
             \/ \E j \in Job : LateHeartbeat(a, j)
             \/ UploadArrives(a)
      PROVE  [Next]_vars
  <2>1. CASE CheckInForWork(a)
    BY <2>1 DEF CheckInForWork, Next, AgentCall
  <2>2. CASE CheckInIdle(a)
    BY <2>2 DEF CheckInIdle, Next
  <2>3. CASE Heartbeat(a)
    <3>1. task[a] \in Job
      BY <2>3 DEF Heartbeat, FleetOK, LoopsOK
    <3>2. QED
      BY <2>3, <3>1 DEF Heartbeat, HeartbeatAccepted, Next, AgentCall
  <2>4. CASE \E j \in Job : LateHeartbeat(a, j)
    BY <2>4, RecoverIsQueueStep DEF LateHeartbeat, HeartbeatAccepted, Next, AgentCall
  <2>5. CASE UploadArrives(a)
    BY <2>5, RecoverIsQueueStep DEF UploadArrives
  <2>6. QED
    BY <1>6, <2>1, <2>2, <2>3, <2>4, <2>5
<1>7. ASSUME NEW a \in Agent,
             \/ HeartbeatDelayed(a) \/ \E outcome \in Terminal : RunReturns(a, outcome)
             \/ RunThrows(a) \/ ConnectionLost(a) \/ Crash(a) \/ Restart(a)
      PROVE  UNCHANGED vars
  BY <1>7 DEF HeartbeatDelayed, RunReturns, RunThrows, ConnectionLost, Crash, Restart, queueVars
<1>8. ASSUME NEW u \in uploads, UploadCompletes(u) PROVE [Next]_vars
  <2>1. u.job \in Job /\ u.agent \in Agent /\ u.outcome \in Terminal
    BY DEF FleetOK, NetworkOK, Upload
  <2>2. CASE AcceptUpload(u)
    BY <2>1, <2>2 DEF AcceptUpload, Next, AgentCall
  <2>3. CASE RefuseUpload(u)
    BY <2>3, RecoverIsQueueStep DEF RefuseUpload
  <2>4. QED
    BY <1>8, <2>2, <2>3 DEF UploadCompletes
<1>9. ASSUME NEW u \in uploads, PersistFails(u) PROVE UNCHANGED vars
  BY <1>9 DEF PersistFails, queueVars
<1>10. CASE FleetTick
  <2>1. CASE \E j \in Job : lease[j] > 0
    BY <1>10, <2>1 DEF FleetTick, Tick, Next
  <2>2. CASE ~ \E j \in Job : lease[j] > 0
    <3>1. lease' = lease
      BY <1>10, <2>2, JobQueueAssumption DEF FleetTick, IInv, TypeOK
    <3>2. QED
      BY <1>10, <3>1 DEF FleetTick, vars
  <2>3. QED
    BY <2>1, <2>2
<1>11. QED
  BY <1>1, <1>2, <1>3, <1>4, <1>5, <1>6, <1>7, <1>8, <1>9, <1>10 DEF FleetNext

-----------------------------------------------------------------------------
(* Types.                                                                  *)

LEMMA TouchKeepsRegistryOK ==
  ASSUME RegistryOK, NEW a \in Agent, NEW state \in {"idle", "busy"}, TouchAgent(a, state)
  PROVE  (ended' = ended => RegistryOK') /\ (NoteCompletion(a) => RegistryOK')
BY AgentFleetAssumption DEF RegistryOK, TouchAgent, NoteCompletion

LEMMA StepKeepsRegistryOK ==
  ASSUME RegistryOK, NetworkOK, [FleetNext]_fleetVars
  PROVE  RegistryOK'
<1>1. CASE UNCHANGED registryVars
  BY <1>1 DEF registryVars, RegistryOK
<1>2. CASE SyncExpiredAgentLeases
  BY <1>2, AgentFleetAssumption DEF SyncExpiredAgentLeases, NoteLeaseExpiry, RegistryOK
<1>3. ASSUME NEW a \in Agent, CheckInForWork(a) \/ CheckInIdle(a)
      PROVE  RegistryOK'
  BY <1>3, TouchKeepsRegistryOK DEF CheckInForWork, CheckInIdle
<1>4. ASSUME NEW a \in Agent, Heartbeat(a) \/ \E j \in Job : LateHeartbeat(a, j)
      PROVE  RegistryOK'
  <2>1. UNCHANGED registryVars \/ (TouchAgent(a, "busy") /\ ended' = ended)
    BY <1>4 DEF Heartbeat, LateHeartbeat, HeartbeatAccepted
  <2>2. QED
    BY <1>1, <2>1, TouchKeepsRegistryOK
<1>5. ASSUME NEW u \in uploads, UploadCompletes(u)
      PROVE  RegistryOK'
  <2>1. u.agent \in Agent
    BY DEF NetworkOK, Upload
  <2>2. UNCHANGED registryVars \/ NoteCompletion(u.agent)
    BY <1>5 DEF UploadCompletes, AcceptUpload, RefuseUpload
  <2>3. QED
    BY <1>1, <2>1, <2>2, TouchKeepsRegistryOK DEF NoteCompletion
<1>6. CASE FleetTick
  BY <1>6, AgentFleetAssumption DEF FleetTick, RegistryOK
<1>7. QED
  <2>1. ASSUME \/ UNCHANGED fleetVars \/ (\E j \in Job : Submit(j)) \/ DrainLocally
               \/ ProcessLocally \/ SweepSilently \/ \E u \in uploads : PersistFails(u)
        PROVE  UNCHANGED registryVars
    BY <2>1 DEF fleetVars, Submit, DrainLocally, ProcessLocally, SweepSilently, PersistFails
  <2>2. ASSUME NEW a \in Agent,
               \/ HeartbeatDelayed(a) \/ \E outcome \in Terminal : RunReturns(a, outcome)
               \/ RunThrows(a) \/ UploadArrives(a) \/ ConnectionLost(a) \/ Crash(a) \/ Restart(a)
        PROVE  UNCHANGED registryVars
    BY <2>2 DEF HeartbeatDelayed, RunReturns, RunThrows, UploadArrives, ConnectionLost, Crash, Restart
  <2>3. QED
    BY <1>1, <1>2, <1>3, <1>4, <1>5, <1>6, <2>1, <2>2 DEF FleetNext

(* What the poll loops do, an agent that has a task goes on or gives up. *)
LEMMA LoopMoves ==
  ASSUME LoopsOK, NEW a \in Agent
  PROVE  /\ GoIdle(a) => LoopsOK'
         /\ UploadFailed(a) /\ phase[a] \in {"uploading", "waiting"} => LoopsOK'
         /\ \A j \in Job : StartWork(a, j) => LoopsOK'
<1>1. GoIdle(a) => LoopsOK'
  BY JobQueueAssumption DEF LoopsOK, GoIdle
<1>2. ASSUME NEW j \in Job, StartWork(a, j) PROVE LoopsOK'
  BY <1>2, JobQueueAssumption DEF LoopsOK, StartWork
<1>3. ASSUME UploadFailed(a), phase[a] \in {"uploading", "waiting"}, retries[a] PROVE LoopsOK'
  BY <1>3 DEF LoopsOK, UploadFailed, Terminal
<1>4. QED
  BY <1>1, <1>2, <1>3 DEF UploadFailed

LEMMA StepKeepsLoopsOK ==
  ASSUME LoopsOK, NetworkOK, [FleetNext]_fleetVars
  PROVE  LoopsOK'
<1>1. CASE UNCHANGED agentVars
  BY <1>1 DEF agentVars, LoopsOK
<1>2. ASSUME NEW a \in Agent, CheckInForWork(a) PROVE LoopsOK'
  BY <1>1, <1>2, LoopMoves DEF CheckInForWork
<1>3. ASSUME NEW a \in Agent, RunThrows(a) \/ \E outcome \in Terminal : RunReturns(a, outcome)
      PROVE  LoopsOK'
  BY <1>3, ZenonT(40) DEF RunThrows, RunReturns, LoopsOK, Terminal
<1>4. ASSUME NEW a \in Agent, UploadArrives(a) PROVE LoopsOK'
  <2>1. CASE UploadFailed(a)
    BY <1>4, <2>1, LoopMoves DEF UploadArrives
  <2>2. CASE ~UploadFailed(a)
    BY <1>4, <2>2 DEF UploadArrives, LoopsOK
  <2>3. QED
    BY <2>1, <2>2
<1>5. ASSUME NEW a \in Agent, ConnectionLost(a) PROVE LoopsOK'
  BY <1>5, LoopMoves DEF ConnectionLost
<1>6. ASSUME NEW a \in Agent, Crash(a) \/ Restart(a) PROVE LoopsOK'
  BY <1>6 DEF Crash, Restart, LoopsOK
<1>7. ASSUME NEW u \in uploads, UploadCompletes(u) \/ PersistFails(u) PROVE LoopsOK'
  <2>1. u.agent \in Agent
    BY DEF NetworkOK, Upload
  <2>2. UNCHANGED agentVars \/ GoIdle(u.agent) \/ (Awaits(u) /\ UploadFailed(u.agent))
    BY <1>7 DEF UploadCompletes, AcceptUpload, RefuseUpload, PersistFails
  <2>3. QED
    BY <1>1, <2>1, <2>2, LoopMoves DEF Awaits
<1>8. QED
  <2>1. ASSUME \/ UNCHANGED fleetVars \/ (\E j \in Job : Submit(j)) \/ DrainLocally
               \/ ProcessLocally \/ SyncExpiredAgentLeases \/ SweepSilently \/ FleetTick
        PROVE  UNCHANGED agentVars
    BY <2>1 DEF fleetVars, Submit, DrainLocally, ProcessLocally, SyncExpiredAgentLeases,
                SweepSilently, FleetTick
  <2>2. ASSUME NEW a \in Agent,
               \/ CheckInIdle(a) \/ Heartbeat(a) \/ HeartbeatDelayed(a)
               \/ \E j \in Job : LateHeartbeat(a, j)
        PROVE  UNCHANGED agentVars
    BY <2>2 DEF CheckInIdle, Heartbeat, HeartbeatDelayed, LateHeartbeat, HeartbeatAccepted
  <2>3. QED
    BY <1>1, <1>2, <1>3, <1>4, <1>5, <1>6, <1>7, <2>1, <2>2 DEF FleetNext

LEMMA StepKeepsNetworkOK ==
  ASSUME LoopsOK, NetworkOK, [FleetNext]_fleetVars
  PROVE  NetworkOK'
<1>1. faults' = faults \/ Fault => faults' \in 0..MaxFaults
  BY AgentFleetAssumption DEF NetworkOK, Fault
<1>2. ASSUME \/ UNCHANGED fleetVars \/ (\E j \in Job : Submit(j)) \/ DrainLocally
             \/ ProcessLocally \/ SyncExpiredAgentLeases \/ SweepSilently \/ FleetTick
      PROVE  NetworkOK'
  <2>1. late' = late /\ uploads' = uploads /\ (faults' = faults \/ Fault)
    BY <1>2 DEF fleetVars, networkVars, Submit, DrainLocally, ProcessLocally,
                SyncExpiredAgentLeases, SweepSilently, FleetTick
  <2>2. QED
    BY <1>1, <2>1 DEF NetworkOK
<1>3. ASSUME NEW a \in Agent,
             \/ CheckInForWork(a) \/ CheckInIdle(a) \/ Heartbeat(a)
             \/ RunThrows(a) \/ (\E outcome \in Terminal : RunReturns(a, outcome))
             \/ ConnectionLost(a) \/ Crash(a) \/ Restart(a)
      PROVE  NetworkOK'
  <2>1. late' = late /\ uploads' = uploads /\ (faults' = faults \/ Fault)
    BY <1>3 DEF networkVars, CheckInForWork, CheckInIdle, Heartbeat, HeartbeatAccepted,
                RunThrows, RunReturns, ConnectionLost, Crash, Restart
  <2>2. QED
    BY <1>1, <2>1 DEF NetworkOK
<1>4. ASSUME NEW a \in Agent, HeartbeatDelayed(a) \/ \E j \in Job : LateHeartbeat(a, j)
      PROVE  NetworkOK'
  <2>1. late' \subseteq Agent \X Job
    <3>1. CASE HeartbeatDelayed(a)
      <4>1. task[a] \in Job
        BY <3>1 DEF HeartbeatDelayed, LoopsOK
      <4>2. QED
        BY <3>1, <4>1 DEF HeartbeatDelayed, NetworkOK
    <3>2. CASE \E j \in Job : LateHeartbeat(a, j)
      BY <3>2 DEF LateHeartbeat, NetworkOK
    <3>3. QED
      BY <1>4, <3>1, <3>2
  <2>2. uploads' = uploads /\ (faults' = faults \/ Fault)
    BY <1>4 DEF HeartbeatDelayed, LateHeartbeat, HeartbeatAccepted
  <2>3. QED
    BY <1>1, <2>1, <2>2 DEF NetworkOK
<1>5. ASSUME NEW a \in Agent, UploadArrives(a) PROVE NetworkOK'
  <2> DEFINE u == [agent |-> a, job |-> task[a], outcome |-> result[a]]
  <2>1. u \in Upload
    BY <1>5 DEF UploadArrives, LoopsOK, Upload
  <2>2. uploads' = uploads \/ uploads' = uploads \cup {u}
    BY <1>5 DEF UploadArrives
  <2>3. uploads' \subseteq Upload /\ IsFiniteSet(uploads')
    BY <2>1, <2>2, FS_AddElement, ZenonT(40) DEF NetworkOK
  <2>4. QED
    BY <1>5, <2>3 DEF UploadArrives, NetworkOK
<1>6. ASSUME NEW u \in uploads, UploadCompletes(u) \/ PersistFails(u) PROVE NetworkOK'
  <2>1. uploads' = uploads \ {u} /\ late' = late /\ (faults' = faults \/ Fault)
    BY <1>6 DEF UploadCompletes, PersistFails
  <2>2. uploads' \subseteq Upload /\ IsFiniteSet(uploads')
    BY <2>1, FS_RemoveElement DEF NetworkOK
  <2>3. QED
    BY <1>1, <2>1, <2>2 DEF NetworkOK
<1>7. QED
  BY <1>2, <1>3, <1>4, <1>5, <1>6 DEF FleetNext

LEMMA FleetInitIsOK == FleetInit => IInv /\ FleetOK
<1> SUFFICES ASSUME FleetInit PROVE IInv /\ FleetOK
  OBVIOUS
<1>1. IInv
  BY InitIsIInv DEF FleetInit
<1>2. RegistryOK
  BY AgentFleetAssumption DEF FleetInit, RegistryOK
<1>3. LoopsOK
  BY DEF FleetInit, LoopsOK
<1>4. NetworkOK
  BY FS_EmptySet, AgentFleetAssumption DEF FleetInit, NetworkOK
<1>5. QED
  BY <1>1, <1>2, <1>3, <1>4 DEF FleetOK

LEMMA FleetStepKeepsOK == IInv /\ FleetOK /\ [FleetNext]_fleetVars => (IInv /\ FleetOK)'
<1> SUFFICES ASSUME IInv, FleetOK, [FleetNext]_fleetVars PROVE (IInv /\ FleetOK)'
  OBVIOUS
<1>1. IInv'
  BY FleetStepsTheQueue, NextKeepsIInv
<1>2. FleetOK'
  BY StepKeepsRegistryOK, StepKeepsLoopsOK, StepKeepsNetworkOK DEF FleetOK
<1>3. QED
  BY <1>1, <1>2

LEMMA AlwaysFleetOK == FleetSpec => [](IInv /\ FleetOK)
BY FleetInitIsOK, FleetStepKeepsOK, PTL DEF FleetSpec

(* The queue, driven by the routes and the clock of the whole fleet, does  *)
(* only what JobQueue allows: every theorem about the queue alone holds of *)
(* the queue in the fleet.                                                 *)
THEOREM FleetRunsTheQueue == FleetSpec => Spec
<1>1. FleetInit => Init
  BY DEF FleetInit
<1>2. IInv /\ FleetOK /\ [FleetNext]_fleetVars => [Next]_vars
  BY FleetStepsTheQueue
<1>3. QED
  BY <1>1, <1>2, AlwaysFleetOK, PTL DEF FleetSpec, Spec

-----------------------------------------------------------------------------
(* The registry's totals.                                                  *)

EndedBy(a) == {j \in Job : status[j] \in Terminal /\ worker[j] = a}

(* No job of an agent ends in this step. *)
NoAgentEnds == \A j \in Job : status'[j] \in Terminal /\ worker'[j] \in Agent => status[j] \in Terminal

(* Ended jobs stay as they are, so the totals change only where jobs end. *)
LEMMA EndedByStays ==
  ASSUME IInv, [Next]_vars, NoAgentEnds, NEW a \in Agent
  PROVE  EndedBy(a)' = EndedBy(a)
<1>1. ASSUME NEW j \in Job PROVE j \in EndedBy(a)' <=> j \in EndedBy(a)
  <2>1. Move(j)
    BY <1>1, EveryStepMoves
  <2>2. QED
    BY <1>1, <2>1
       DEF Move, Keeps, Submits, Requeues, Requeued, Starts, Ends, Terminal, EndedBy, NoAgentEnds
<1>2. QED
  BY <1>1 DEF EndedBy

(* Which steps end no agent's job. *)
LEMMA SweepEndsNothing ==
  ASSUME IInv, Recover \/ \E j \in Job : Enqueue(j)
  PROVE  NoAgentEnds
<1>1. \A i \in Job : StatusR[i] \in Terminal => status[i] \in Terminal
  BY DEF StatusR, Terminal
<1>2. QED
  BY <1>1, SweepFunctions DEF Recover, Enqueue, NoAgentEnds, Terminal

LEMMA StartEndsNothing ==
  ASSUME IInv, (\E a \in Agent : ClaimNextRemoteJob(a)) \/ (\E capacity \in Capacities : Drain(capacity))
  PROVE  NoAgentEnds
<1>1. \A i \in Job : StatusR[i] \in Terminal => status[i] \in Terminal
  BY DEF StatusR, Terminal
<1>2. PICK j : status' = StatusR \/ status' = [StatusR EXCEPT ![j] = "running"]
  BY DEF ClaimNextRemoteJob, Drain
<1>3. QED
  BY <1>1, <1>2, SweepFunctions DEF NoAgentEnds, Terminal

LEMMA HeartbeatEndsNothing ==
  ASSUME IInv, NEW j \in Job, NEW a \in Agent, HeartbeatRemoteJob(j, a)
  PROVE  NoAgentEnds
<1>1. \A i \in Job : StatusR[i] \in Terminal => status[i] \in Terminal
  BY DEF StatusR, Terminal
<1>2. QED
  BY <1>1, SweepFunctions DEF HeartbeatRemoteJob, NoAgentEnds, Terminal

LEMMA LocalEndsNothingOfAgents ==
  ASSUME IInv, LocalProgress \/ LocalThrow \/ \E outcome \in Terminal : LocalFinish(outcome)
  PROVE  NoAgentEnds
<1>1. /\ local \in Job /\ worker[local] = LocalMain /\ LocalMain \notin Agent /\ LocalMain # None
      /\ DOMAIN worker = Job /\ DOMAIN status = Job
  BY JobQueueAssumption DEF IInv, TypeOK, WorkerIsOwner, LocalProgress, LocalThrow, LocalFinish
<1>2. worker' = worker
  BY <1>1 DEF LocalProgress, LocalThrow, LocalFinish, MergeWorker, IInv, TypeOK
<1>3. \A j \in Job : j # local => status'[j] = status[j]
  BY <1>1 DEF LocalProgress, LocalThrow, LocalFinish
<1>4. QED
  BY <1>1, <1>2, <1>3 DEF NoAgentEnds

(* A completion ends one job, for the agent that held it. *)
LEMMA CompletionCounts ==
  ASSUME IInv, NEW j \in Job, NEW a \in Agent, NEW outcome \in Terminal,
         CompleteRemoteJob(j, a, outcome)
  PROVE  /\ j \notin EndedBy(a) /\ EndedBy(a)' = EndedBy(a) \cup {j}
         /\ \A b \in Agent : b # a => EndedBy(b)' = EndedBy(b)
<1>1. status[j] = "running"
  BY HeldJob DEF CompleteRemoteJob, Accepted
<1>2. status'[j] \in Terminal /\ worker'[j] = a
  BY SweepFunctions DEF CompleteRemoteJob
<1>3. ASSUME NEW i \in Job, i # j
      PROVE  \A b \in Agent : i \in EndedBy(b)' <=> i \in EndedBy(b)
  <2>1. status'[i] = StatusR[i] /\ worker'[i] = WorkerR[i]
    BY <1>3, SweepFunctions DEF CompleteRemoteJob
  <2>2. QED
    BY <2>1, <1>3, SweptJob DEF EndedBy, Requeued, Terminal
<1>4. QED
  BY <1>1, <1>2, <1>3 DEF EndedBy, Terminal

(* Every step of the fleet either ends no agent's job and leaves the       *)
(* totals, or completes an upload and counts it.                           *)
LEMMA StepCounts ==
  ASSUME IInv, FleetOK, [FleetNext]_fleetVars
  PROVE  \/ NoAgentEnds /\ ended' = ended
         \/ \E u \in uploads : AcceptUpload(u)
<1>1. ASSUME UNCHANGED vars PROVE NoAgentEnds
  BY <1>1 DEF vars, NoAgentEnds
<1>2. ASSUME \/ UNCHANGED fleetVars \/ (\E j \in Job : Submit(j)) \/ DrainLocally \/ ProcessLocally
             \/ SyncExpiredAgentLeases \/ SweepSilently \/ FleetTick \/ \E u \in uploads : PersistFails(u)
      PROVE  NoAgentEnds /\ ended' = ended
  <2>1. CASE UNCHANGED fleetVars \/ \E u \in uploads : PersistFails(u)
    BY <1>1, <2>1 DEF fleetVars, queueVars, registryVars, PersistFails
  <2>2. CASE \/ (\E j \in Job : Submit(j)) \/ SyncExpiredAgentLeases \/ SweepSilently
    BY <2>2, SweepEndsNothing DEF Submit, SyncExpiredAgentLeases, SweepSilently, registryVars,
                                  RecoverExpiredRemoteClaims, NoteLeaseExpiry
  <2>3. CASE DrainLocally
    BY <2>3, StartEndsNothing, CountIdleIsCapacity DEF DrainLocally, registryVars
  <2>4. CASE ProcessLocally
    BY <2>4, LocalEndsNothingOfAgents DEF ProcessLocally, registryVars
  <2>5. CASE FleetTick
    BY <2>5 DEF FleetTick, NoAgentEnds
  <2>6. QED
    BY <1>2, <2>1, <2>2, <2>3, <2>4, <2>5
<1>3. ASSUME NEW a \in Agent,
             \/ CheckInForWork(a) \/ CheckInIdle(a) \/ Heartbeat(a)
             \/ (\E j \in Job : LateHeartbeat(a, j)) \/ UploadArrives(a)
      PROVE  NoAgentEnds /\ ended' = ended
  <2>1. CASE CheckInForWork(a)
    BY <2>1, StartEndsNothing DEF CheckInForWork
  <2>2. CASE CheckInIdle(a)
    BY <2>2 DEF CheckInIdle, RequestDrain, NoAgentEnds
  <2>3. CASE Heartbeat(a)
    <3>1. task[a] \in Job
      BY <2>3 DEF Heartbeat, FleetOK, LoopsOK
    <3>2. QED
      BY <2>3, <3>1, HeartbeatEndsNothing DEF Heartbeat, HeartbeatAccepted
  <2>4. CASE \E j \in Job : LateHeartbeat(a, j)
    BY <2>4, HeartbeatEndsNothing, SweepEndsNothing DEF LateHeartbeat, HeartbeatAccepted, registryVars
  <2>5. CASE UploadArrives(a)
    BY <2>5, SweepEndsNothing DEF UploadArrives, registryVars
  <2>6. QED
    BY <1>3, <2>1, <2>2, <2>3, <2>4, <2>5
<1>4. ASSUME NEW a \in Agent,
             \/ HeartbeatDelayed(a) \/ (\E outcome \in Terminal : RunReturns(a, outcome))
             \/ RunThrows(a) \/ ConnectionLost(a) \/ Crash(a) \/ Restart(a)
      PROVE  NoAgentEnds /\ ended' = ended
  BY <1>1, <1>4 DEF HeartbeatDelayed, RunReturns, RunThrows, ConnectionLost, Crash, Restart,
                    queueVars, registryVars
<1>5. ASSUME NEW u \in uploads, UploadCompletes(u)
      PROVE  AcceptUpload(u) \/ (NoAgentEnds /\ ended' = ended)
  BY <1>5, SweepEndsNothing DEF UploadCompletes, RefuseUpload, registryVars
<1>6. QED
  BY <1>2, <1>3, <1>4, <1>5 DEF FleetNext

LEMMA StepKeepsCounters ==
  ASSUME IInv, FleetOK, CountersAgree, [FleetNext]_fleetVars
  PROVE  CountersAgree'
<1> SUFFICES ASSUME NEW a \in Agent PROVE ended'[a] = Cardinality(EndedBy(a)')
  BY DEF CountersAgree, EndedBy
<1>1. ended[a] = Cardinality(EndedBy(a)) /\ IsFiniteSet(EndedBy(a)) /\ ended \in [Agent -> Nat]
  <2>1. EndedBy(a) \subseteq Job
    BY DEF EndedBy
  <2>2. QED
    BY <2>1, JobQueueAssumption, FS_Subset DEF CountersAgree, EndedBy, FleetOK, RegistryOK
<1>2. CASE NoAgentEnds /\ ended' = ended
  BY <1>1, <1>2, EndedByStays, FleetStepsTheQueue
<1>3. ASSUME NEW u \in uploads, AcceptUpload(u)
      PROVE  ended'[a] = Cardinality(EndedBy(a)')
  <2>1. u.job \in Job /\ u.agent \in Agent /\ u.outcome \in Terminal
    BY DEF FleetOK, NetworkOK, Upload
  <2>2. CompleteRemoteJob(u.job, u.agent, u.outcome)
    BY <1>3 DEF AcceptUpload
  <2>3. CASE u.agent = a
    <3>1. ended'[a] = ended[a] + 1
      BY <1>1, <1>3, <2>3 DEF AcceptUpload, NoteCompletion
    <3>2. u.job \notin EndedBy(a) /\ EndedBy(a)' = EndedBy(a) \cup {u.job}
      BY <2>1, <2>2, <2>3, CompletionCounts
    <3>3. Cardinality(EndedBy(a) \cup {u.job}) = Cardinality(EndedBy(a)) + 1
      BY <1>1, <3>2, FS_AddElement
    <3>4. QED
      BY <1>1, <3>1, <3>2, <3>3
  <2>4. CASE u.agent # a
    <3>1. ended'[a] = ended[a]
      BY <1>1, <1>3, <2>4 DEF AcceptUpload, NoteCompletion
    <3>2. EndedBy(a)' = EndedBy(a)
      BY <2>1, <2>2, <2>4, CompletionCounts
    <3>3. QED
      BY <1>1, <3>1, <3>2
  <2>5. QED
    BY <2>3, <2>4
<1>4. QED
  BY <1>2, <1>3, StepCounts

(* The totals the registry shows count every job an agent ended once.      *)
THEOREM CountersCorrect == FleetSpec => []CountersAgree
<1>1. FleetInit => CountersAgree
  <2> SUFFICES ASSUME FleetInit, NEW a \in Agent PROVE ended[a] = Cardinality(EndedBy(a))
    BY DEF CountersAgree, EndedBy
  <2>1. EndedBy(a) = {} /\ ended[a] = 0
    BY DEF FleetInit, Init, EndedBy, Terminal
  <2>2. QED
    BY <2>1, FS_EmptySet
<1>2. IInv /\ FleetOK /\ CountersAgree /\ [FleetNext]_fleetVars => CountersAgree'
  BY StepKeepsCounters
<1>3. QED
  BY <1>1, <1>2, AlwaysFleetOK, PTL DEF FleetSpec

-----------------------------------------------------------------------------
(* The fleet before anything has gone wrong.                               *)

(* No lease lapses, nothing is late, every upload is awaited, and queue,   *)
(* registry and agents agree.                                              *)
Agreed == \A a \in Agent : /\ \A j \in Job : holder[j] = a <=> task[a] = j
                           /\ listed[a] = "busy" <=> task[a] # None
                           /\ listed[a] # "stale"

Peaceful ==
  /\ late = {} /\ \A u \in uploads : Awaits(u)
  /\ \A j \in Job : holder[j] # None => lease[j] > 0
  /\ \A a \in Agent : phase[a] # "dead"
  /\ Agreed

LEMMA PeacefulSweep ==
  ASSUME IInv, Peaceful
  PROVE  /\ Expired = {} /\ Requeued = {}
         /\ StatusR = status /\ WorkerR = worker /\ HolderR = holder
<1>1. Expired = {} /\ Requeued = {}
  BY DEF Peaceful, Expired, Requeued, IInv, TypeOK
<1>2. QED
  BY <1>1 DEF StatusR, WorkerR, HolderR, IInv, TypeOK

(* Steps at most count one fault. *)
LEMMA FaultsFall ==
  ASSUME [FleetNext]_fleetVars PROVE faults' = faults \/ Fault
BY DEF FleetNext, fleetVars, networkVars, Submit, DrainLocally, ProcessLocally, SyncExpiredAgentLeases,
       SweepSilently, FleetTick, CheckInForWork, CheckInIdle, Heartbeat, HeartbeatDelayed, LateHeartbeat,
       RunReturns, RunThrows, UploadArrives, ConnectionLost, Crash, Restart, UploadCompletes, PersistFails

(* The primary's own steps. *)
LEMMA PrimaryKeepsPeace ==
  ASSUME IInv, Peaceful,
         \/ UNCHANGED fleetVars \/ (\E j \in Job : Submit(j)) \/ DrainLocally \/ ProcessLocally
         \/ SyncExpiredAgentLeases \/ SweepSilently
  PROVE  Peaceful'
<1>1. ~(SyncExpiredAgentLeases \/ SweepSilently)
  BY PeacefulSweep DEF SyncExpiredAgentLeases, SweepSilently, RecoverExpiredRemoteClaims
<1>2. UNCHANGED <<registryVars, agentVars, networkVars>>
  BY <1>1 DEF fleetVars, Submit, DrainLocally, ProcessLocally
<1>3. holder' = holder /\ lease' = lease
  <2>1. CASE UNCHANGED fleetVars \/ (\E j \in Job : Submit(j)) \/ DrainLocally
    BY <2>1, PeacefulSweep DEF fleetVars, queueVars, vars, Submit, Enqueue, DrainLocally, Drain
  <2>2. CASE ProcessLocally
    <3>1. local # None /\ lease' = lease /\ (holder' = holder \/ holder' = [holder EXCEPT ![local] = None])
      BY <2>2 DEF ProcessLocally, LocalProgress, LocalFinish, LocalThrow
    <3>2. local \in Job /\ holder[local] = None /\ holder \in [Job -> Agent \cup {None}]
      BY <3>1 DEF IInv, TypeOK, ExactlyOneOwner
    <3>3. QED
      BY <3>1, <3>2
  <2>3. QED
    BY <1>1, <2>1, <2>2
<1>4. QED
  BY <1>2, <1>3 DEF registryVars, agentVars, networkVars, Peaceful, Agreed, Awaits

(* A job is leased to an agent that hears of it. *)
LEMMA ClaimKeepsPeace ==
  ASSUME IInv, FleetOK, Peaceful, NEW a \in Agent, CheckInForWork(a), faults' = faults
  PROVE  Peaceful'
<1>1. PICK q \in QueuesR : /\ q # <<>>
                          /\ holder' = [HolderR EXCEPT ![Head(q)] = a]
                          /\ lease' = [lease EXCEPT ![Head(q)] = LeaseTicks]
  BY DEF CheckInForWork, ClaimNextRemoteJob
<1> DEFINE h == Head(q)
<1>2. h \in Job /\ status[h] = "queued"
  BY <1>1, SweptHead, PeacefulSweep
<1>3. holder[h] = None
  BY <1>2 DEF IInv, ExactlyOneOwner
<1>4. holder' = [holder EXCEPT ![h] = a]
  BY <1>1, PeacefulSweep
<1> HIDE DEF h
<1>5. holder \in [Job -> Agent \cup {None}] /\ lease \in [Job -> 0..LeaseTicks]
  BY DEF IInv, TypeOK
<1>6. ~Fault
  BY DEF Fault, FleetOK, NetworkOK
<1>7. PICK j \in Job : HolderR[j] # a /\ holder'[j] = a /\ StartWork(a, j)
  BY <1>6 DEF CheckInForWork
<1>8. j = h
  BY <1>2, <1>4, <1>5, <1>7, PeacefulSweep
<1>9. phase[a] = "idle" /\ task[a] = None /\ UNCHANGED <<late, uploads>>
  BY DEF CheckInForWork, FleetOK, LoopsOK
<1>10. /\ phase' = [phase EXCEPT ![a] = "working"] /\ task' = [task EXCEPT ![a] = h]
       /\ result' = result /\ listed' = [listed EXCEPT ![a] = "busy"]
  BY <1>7, <1>8 DEF StartWork, CheckInForWork, TouchAgent
<1>11. /\ phase \in [Agent -> {"idle", "working", "uploading", "waiting", "dead"}]
       /\ task \in [Agent -> Job \cup {None}]
       /\ listed \in [Agent -> {"unknown", "idle", "busy", "stale"}]
  BY DEF FleetOK, LoopsOK, RegistryOK
<1>12. Agreed'
  <2> SUFFICES ASSUME NEW b \in Agent
               PROVE  /\ \A i \in Job : holder'[i] = b <=> task'[b] = i
                      /\ listed'[b] = "busy" <=> task'[b] # None
                      /\ listed'[b] # "stale"
    BY DEF Agreed
  <2>1. /\ \A i \in Job : holder[i] = b <=> task[b] = i
        /\ listed[b] = "busy" <=> task[b] # None
        /\ listed[b] # "stale"
    BY DEF Peaceful, Agreed
  <2>2. CASE b = a
    BY <1>2, <1>4, <1>5, <1>9, <1>10, <1>11, <2>1, <2>2, JobQueueAssumption
  <2>3. CASE b # a
    BY <1>2, <1>3, <1>4, <1>5, <1>10, <1>11, <2>1, <2>3, JobQueueAssumption
  <2>4. QED
    BY <2>2, <2>3
<1>13. \A i \in Job : holder'[i] # None => lease'[i] > 0
  <2>1. lease' = [lease EXCEPT ![h] = LeaseTicks]
    BY <1>1 DEF h
  <2>2. QED
    BY <1>4, <1>5, <2>1, JobQueueAssumption DEF Peaceful
<1>14. \A u \in uploads' : Awaits(u)'
  <2> SUFFICES ASSUME NEW u \in uploads PROVE Awaits(u)'
    BY <1>9
  <2>1. Awaits(u) /\ u.agent # a /\ u.agent \in Agent
    BY <1>9 DEF Peaceful, Awaits, FleetOK, NetworkOK, Upload
  <2>2. QED
    BY <1>10, <1>11, <2>1 DEF Awaits
<1>15. QED
  BY <1>9, <1>10, <1>11, <1>12, <1>13, <1>14 DEF Peaceful

(* The polls, heartbeats and runs of an agent. *)
LEMMA PollKeepsPeace ==
  ASSUME IInv, FleetOK, Peaceful, NEW a \in Agent,
         \/ CheckInIdle(a) \/ Heartbeat(a) \/ (\E j \in Job : LateHeartbeat(a, j))
         \/ (\E outcome \in Terminal : RunReturns(a, outcome)) \/ RunThrows(a) \/ Restart(a)
  PROVE  Peaceful'
<1>1. /\ phase \in [Agent -> {"idle", "working", "uploading", "waiting", "dead"}]
      /\ task \in [Agent -> Job \cup {None}]
      /\ listed \in [Agent -> {"unknown", "idle", "busy", "stale"}]
  BY DEF FleetOK, LoopsOK, RegistryOK
<1>2. CASE CheckInIdle(a)
  <2>1. task[a] = None /\ listed' = [listed EXCEPT ![a] = "idle"]
    BY <1>2 DEF CheckInIdle, FleetOK, LoopsOK, TouchAgent
  <2>2. UNCHANGED <<holder, lease, phase, task, result, late, uploads>>
    BY <1>2 DEF CheckInIdle, RequestDrain, agentVars, networkVars
  <2>3. QED
    BY <1>1, <2>1, <2>2 DEF Peaceful, Agreed, Awaits
<1>3. CASE Heartbeat(a)
  <2>1. task[a] \in Job /\ task[a] # None
    BY <1>3, JobQueueAssumption DEF Heartbeat, FleetOK, LoopsOK
  <2>2. /\ holder' = holder /\ lease' = [lease EXCEPT ![task[a]] = LeaseTicks]
        /\ listed' = [listed EXCEPT ![a] = "busy"]
        /\ UNCHANGED <<phase, task, result, late, uploads>>
    BY <1>3, PeacefulSweep
       DEF Heartbeat, HeartbeatAccepted, HeartbeatRemoteJob, TouchAgent, agentVars
  <2>3. \A i \in Job : holder'[i] # None => lease'[i] > 0
    BY <2>1, <2>2, JobQueueAssumption DEF Peaceful, IInv, TypeOK
  <2>4. QED
    BY <1>1, <2>1, <2>2, <2>3 DEF Peaceful, Agreed, Awaits
<1>4. ~Restart(a) /\ ~(\E j \in Job : LateHeartbeat(a, j))
  BY DEF Peaceful, Restart, LateHeartbeat
<1>5. CASE RunThrows(a) \/ \E outcome \in Terminal : RunReturns(a, outcome)
  <2>1. /\ phase[a] = "working" /\ phase' = [phase EXCEPT ![a] = "uploading"]
        /\ \E outcome \in Terminal : result' = [result EXCEPT ![a] = outcome]
        /\ UNCHANGED <<holder, lease, task, listed, late, uploads>>
    BY <1>5 DEF RunThrows, RunReturns, queueVars, vars, registryVars, networkVars, Terminal
  <2>2. \A u \in uploads' : Awaits(u)'
    <3> SUFFICES ASSUME NEW u \in uploads PROVE Awaits(u)'
      BY <2>1
    <3>1. Awaits(u) /\ u.agent # a
      BY <2>1 DEF Peaceful, Awaits
    <3>2. u.agent \in Agent /\ result \in [Agent -> Terminal \cup {None}]
      BY DEF FleetOK, NetworkOK, LoopsOK, Upload
    <3>3. QED
      BY <1>1, <2>1, <3>1, <3>2 DEF Awaits
  <2>3. QED
    BY <1>1, <2>1, <2>2 DEF Peaceful, Agreed
<1>6. QED
  BY <1>2, <1>3, <1>4, <1>5

(* Uploads are accepted: the lease stands. *)
LEMMA UploadKeepsPeace ==
  ASSUME IInv, FleetOK, Peaceful, NEW a \in Agent, UploadArrives(a)
  PROVE  Peaceful'
<1> DEFINE u == [agent |-> a, job |-> task[a], outcome |-> result[a]]
<1>1. phase[a] = "uploading" /\ task[a] \in Job
  BY DEF UploadArrives, FleetOK, LoopsOK
<1>2. Accepted(task[a], a)
  BY <1>1, PeacefulSweep DEF Accepted, Peaceful, Agreed
<1>3. /\ uploads' = uploads \cup {u} /\ phase' = [phase EXCEPT ![a] = "waiting"]
      /\ UNCHANGED <<task, result, listed, late, lease>> /\ holder' = holder
  BY <1>2, PeacefulSweep DEF UploadArrives, registryVars, Recover
<1>4. phase \in [Agent -> {"idle", "working", "uploading", "waiting", "dead"}]
  BY DEF FleetOK, LoopsOK
<1>5. ASSUME NEW v \in uploads' PROVE Awaits(v)'
  <2>1. CASE v = u
    BY <1>3, <1>4, <2>1 DEF Awaits
  <2>2. CASE v \in uploads
    <3>1. Awaits(v) /\ v.agent \in Agent
      BY <2>2 DEF Peaceful, FleetOK, NetworkOK, Upload
    <3>2. QED
      BY <1>3, <1>4, <3>1 DEF Awaits
  <2>3. QED
    BY <1>3, <1>5, <2>1, <2>2
<1>6. QED
  BY <1>3, <1>4, <1>5 DEF Peaceful, Agreed

LEMMA CompletionKeepsPeace ==
  ASSUME IInv, FleetOK, Peaceful, NEW u \in uploads, UploadCompletes(u)
  PROVE  Peaceful'
<1> DEFINE a == u.agent
<1>1. a \in Agent /\ u.job \in Job /\ Awaits(u) /\ task[a] = u.job /\ holder[u.job] = a
  BY DEF Peaceful, Agreed, Awaits, FleetOK, NetworkOK, Upload
<1>2. AcceptUpload(u) /\ uploads' = uploads \ {u} /\ late' = late
  BY <1>1, PeacefulSweep DEF UploadCompletes, RefuseUpload, Accepted
<1>3. /\ holder' = [holder EXCEPT ![u.job] = None] /\ lease' = [lease EXCEPT ![u.job] = 0]
      /\ listed' = [listed EXCEPT ![a] = "idle"]
      /\ phase' = [phase EXCEPT ![a] = "idle"] /\ task' = [task EXCEPT ![a] = None]
      /\ result' = [result EXCEPT ![a] = None]
  BY <1>1, <1>2, PeacefulSweep DEF AcceptUpload, CompleteRemoteJob, NoteCompletion, TouchAgent, GoIdle
<1> HIDE DEF a
<1>4. /\ phase \in [Agent -> {"idle", "working", "uploading", "waiting", "dead"}]
      /\ task \in [Agent -> Job \cup {None}] /\ result \in [Agent -> Terminal \cup {None}]
      /\ listed \in [Agent -> {"unknown", "idle", "busy", "stale"}]
      /\ holder \in [Job -> Agent \cup {None}] /\ lease \in [Job -> 0..LeaseTicks]
  BY DEF FleetOK, LoopsOK, RegistryOK, IInv, TypeOK
<1>5. ASSUME NEW v \in uploads' PROVE Awaits(v)'
  <2>1. v \in uploads /\ v # u /\ Awaits(v) /\ v \in Upload /\ u \in Upload
    BY <1>2, <1>5 DEF Peaceful, FleetOK, NetworkOK
  <2>2. v.agent # a
    BY <1>1, <2>1 DEF Awaits, Upload, a
  <2>3. v.agent \in Agent
    BY <2>1 DEF Upload
  <2>4. QED
    BY <1>3, <1>4, <2>1, <2>2, <2>3 DEF Awaits
<1>6. \A i \in Job : holder'[i] # None => lease'[i] > 0
  BY <1>1, <1>3, <1>4 DEF Peaceful
<1>7. Agreed'
  <2> SUFFICES ASSUME NEW b \in Agent
               PROVE  /\ \A i \in Job : holder'[i] = b <=> task'[b] = i
                      /\ listed'[b] = "busy" <=> task'[b] # None
                      /\ listed'[b] # "stale"
    BY DEF Agreed
  <2>1. /\ \A i \in Job : holder[i] = b <=> task[b] = i
        /\ listed[b] = "busy" <=> task[b] # None
        /\ listed[b] # "stale"
    BY DEF Peaceful, Agreed
  <2>2. CASE b = a
    BY <1>1, <1>3, <1>4, <2>1, <2>2, JobQueueAssumption
  <2>3. CASE b # a
    BY <1>1, <1>3, <1>4, <2>1, <2>3, JobQueueAssumption
  <2>4. QED
    BY <2>2, <2>3
<1>8. QED
  BY <1>2, <1>3, <1>4, <1>5, <1>6, <1>7 DEF Peaceful

(* In time, nothing lapses. *)
LEMMA TickKeepsPeace ==
  ASSUME IInv, FleetOK, Peaceful, FleetTick, faults' = faults
  PROVE  Peaceful'
<1>1. /\ lease' = [j \in Job |-> IF lease[j] > 0 THEN lease[j] - 1 ELSE 0]
      /\ UNCHANGED <<holder, listed, phase, task, result, late, uploads>>
  BY DEF FleetTick, agentVars
<1>2. \A a \in Agent : InTime(a)
  BY DEF FleetTick, Fault, FleetOK, NetworkOK
<1>3. ASSUME NEW j \in Job, holder[j] # None PROVE lease[j] > 1 /\ lease[j] \in Nat
  <2>1. holder[j] \in Agent /\ lease[j] \in Nat
    BY <1>3, JobQueueAssumption DEF IInv, TypeOK
  <2>2. task[holder[j]] = j /\ j # None
    BY <2>1, JobQueueAssumption DEF Peaceful, Agreed
  <2>3. QED
    BY <1>2, <2>1, <2>2 DEF InTime
<1>4. \A j \in Job : holder'[j] # None => lease'[j] > 0
  BY <1>1, <1>3
<1>5. QED
  BY <1>1, <1>4 DEF Peaceful, Agreed, Awaits

LEMMA StepKeepsPeace ==
  ASSUME IInv, FleetOK, faults = MaxFaults => Peaceful, [FleetNext]_fleetVars
  PROVE  (faults = MaxFaults => Peaceful)'
<1> SUFFICES ASSUME faults' = MaxFaults PROVE Peaceful'
  OBVIOUS
<1>1. faults' = faults /\ Peaceful
  BY FaultsFall, AgentFleetAssumption DEF FleetOK, NetworkOK, Fault
<1>2. ~Fault
  BY <1>1 DEF Fault, FleetOK, NetworkOK
<1>3. CASE \/ UNCHANGED fleetVars \/ (\E j \in Job : Submit(j)) \/ DrainLocally \/ ProcessLocally
           \/ SyncExpiredAgentLeases \/ SweepSilently
  BY <1>1, <1>3, PrimaryKeepsPeace
<1>4. ASSUME NEW a \in Agent, CheckInForWork(a) \/ UploadArrives(a) PROVE Peaceful'
  BY <1>1, <1>4, ClaimKeepsPeace, UploadKeepsPeace
<1>5. ASSUME NEW a \in Agent,
             \/ CheckInIdle(a) \/ Heartbeat(a) \/ (\E j \in Job : LateHeartbeat(a, j))
             \/ (\E outcome \in Terminal : RunReturns(a, outcome)) \/ RunThrows(a) \/ Restart(a)
      PROVE  Peaceful'
  BY <1>1, <1>5, PollKeepsPeace
<1>6. ASSUME NEW a \in Agent, HeartbeatDelayed(a) \/ ConnectionLost(a) \/ Crash(a) PROVE FALSE
  BY <1>2, <1>6 DEF HeartbeatDelayed, ConnectionLost, Crash
<1>7. ASSUME NEW u \in uploads, UploadCompletes(u) \/ PersistFails(u) PROVE Peaceful'
  BY <1>1, <1>2, <1>7, CompletionKeepsPeace DEF PersistFails
<1>8. CASE FleetTick
  BY <1>1, <1>8, TickKeepsPeace
<1>9. QED
  BY <1>3, <1>4, <1>5, <1>6, <1>7, <1>8 DEF FleetNext

LEMMA AlwaysPeaceful == FleetSpec => [](faults = MaxFaults => Peaceful)
<1>1. FleetInit => Peaceful
  BY JobQueueAssumption DEF FleetInit, Init, Peaceful, Agreed
<1>2. IInv /\ FleetOK /\ (faults = MaxFaults => Peaceful) /\ [FleetNext]_fleetVars
        => (faults = MaxFaults => Peaceful)'
  BY StepKeepsPeace
<1>3. QED
  BY <1>1, <1>2, AlwaysFleetOK, PTL DEF FleetSpec

(* While nothing has gone wrong, queue, registry and agents agree on who   *)
(* does what.                                                              *)
THEOREM UndisturbedAgreement == FleetSpec => []UndisturbedFleetAgrees
<1>1. (faults = MaxFaults => Peaceful) => UndisturbedFleetAgrees
  BY DEF Peaceful, Agreed, UndisturbedFleetAgrees
<1>2. QED
  BY <1>1, AlwaysPeaceful, PTL

-----------------------------------------------------------------------------
(* Work held back for idle agents.                                         *)

Idlers == {a \in Agent : listed[a] = "idle" /\ phase[a] = "idle"}

Covered == local = None /\ ~drainPending => Len(queue) <= Cardinality(Idlers)

LEMMA IdlersAreFinite ==
  ASSUME NEW S, NEW T, S \subseteq T, T \subseteq Agent
  PROVE  Cardinality(S) \in Nat /\ Cardinality(T) \in Nat /\ Cardinality(S) <= Cardinality(T)
<1>1. IsFiniteSet(T)
  BY AgentFleetAssumption, FS_Subset
<1>2. QED
  BY <1>1, FS_Subset, FS_CardinalityType

(* In peace a drain counts only agents that poll. *)
LEMMA DrainCovers == ASSUME IInv, FleetOK, Peaceful, DrainLocally PROVE Covered'
<1> SUFFICES ASSUME local' = None, ~drainPending' PROVE Len(queue') <= Cardinality(Idlers')
  BY DEF Covered
<1> DEFINE Seen == {a \in Agent : listed[a] = "idle" /\ seen[a] > 0}
<1>1. Drain(CountIdle) /\ CountIdle \in Capacities /\ CountIdle = Cardinality(Seen)
  BY CountIdleIsCapacity DEF DrainLocally, CountIdle
<1>2. Len(queue') <= capacitySeen' /\ capacitySeen' = Cardinality(Seen)
  BY <1>1, DrainWakes DEF NoLostWakeup, Drain
<1>3. Idlers' = Idlers
  BY DEF DrainLocally, registryVars, agentVars, Idlers
<1>4. Seen \subseteq Idlers
  <2> SUFFICES ASSUME NEW a \in Agent, listed[a] = "idle" PROVE phase[a] = "idle"
    BY DEF Idlers
  <2>1. task[a] = None /\ phase[a] # "dead"
    BY DEF Peaceful, Agreed
  <2>2. QED
    BY <2>1 DEF FleetOK, LoopsOK
<1>5. Cardinality(Seen) <= Cardinality(Idlers) /\ Cardinality(Seen) \in Nat /\ Cardinality(Idlers) \in Nat
  BY <1>4, IdlersAreFinite DEF Idlers
<1>6. Len(queue') \in Nat
  BY <1>1, DrainKeepsIInv DEF IInv, TypeOK
<1>7. QED
  BY <1>2, <1>3, <1>5, <1>6

LEMMA StepKeepsCovered ==
  ASSUME IInv, FleetOK, Peaceful, Covered, [FleetNext]_fleetVars, faults' = faults
  PROVE  Covered'
<1>1. ~Fault
  BY DEF Fault, FleetOK, NetworkOK
<1>2. ASSUME drainPending' = TRUE \/ local' # None PROVE Covered'
  BY <1>2 DEF Covered
<1>3. ASSUME queue' = queue, local' = local, ~drainPending, Idlers \subseteq Idlers' PROVE Covered'
  <2>1. Cardinality(Idlers) <= Cardinality(Idlers')
        /\ Cardinality(Idlers) \in Nat /\ Cardinality(Idlers') \in Nat
    BY <1>3, IdlersAreFinite DEF Idlers
  <2>2. Len(queue) \in Nat
    BY DEF IInv, TypeOK
  <2>3. QED
    BY <1>3, <2>1, <2>2 DEF Covered
<1>4. ASSUME queue' = queue, local' = local, drainPending' = drainPending, Idlers \subseteq Idlers'
      PROVE  Covered'
  BY <1>2, <1>3, <1>4 DEF IInv, TypeOK, Covered
<1>5. CASE UNCHANGED fleetVars \/ FleetTick
  BY <1>4, <1>5 DEF fleetVars, queueVars, vars, registryVars, agentVars, FleetTick, Idlers
<1>6. CASE \/ (\E j \in Job : Submit(j)) \/ ProcessLocally
  BY <1>2, <1>6 DEF Submit, Enqueue, ProcessLocally, LocalProgress, LocalFinish, LocalThrow
<1>7. CASE DrainLocally \/ SyncExpiredAgentLeases \/ SweepSilently
  BY <1>7, DrainCovers, PeacefulSweep
     DEF SyncExpiredAgentLeases, SweepSilently, RecoverExpiredRemoteClaims
<1>8. ASSUME NEW a \in Agent, CheckInForWork(a) \/ CheckInIdle(a) PROVE Covered'
  BY <1>2, <1>8 DEF CheckInForWork, CheckInIdle, ClaimNextRemoteJob, RequestDrain
<1>9. ASSUME NEW a \in Agent, Heartbeat(a) PROVE Covered'
  <2>1. queue' = queue /\ local' = local /\ ~drainPending
    BY <1>9, PeacefulSweep, QuietSweep
       DEF Heartbeat, HeartbeatAccepted, HeartbeatRemoteJob, MicrotasksDone
  <2>2. phase' = phase /\ listed' = [listed EXCEPT ![a] = "busy"] /\ phase[a] # "idle"
    BY <1>9 DEF Heartbeat, HeartbeatAccepted, TouchAgent, agentVars
  <2>3. Idlers \subseteq Idlers'
    BY <2>2 DEF Idlers, FleetOK, RegistryOK
  <2>4. QED
    BY <1>3, <2>1, <2>3
<1>10. ASSUME NEW a \in Agent, Restart(a) \/ \E j \in Job : LateHeartbeat(a, j)
       PROVE  FALSE
  BY <1>10 DEF LateHeartbeat, Restart, Peaceful
<1>11. ASSUME NEW a \in Agent, RunThrows(a) \/ \E outcome \in Terminal : RunReturns(a, outcome)
       PROVE  Covered'
  <2>1. /\ UNCHANGED <<queue, local, drainPending, listed>>
        /\ phase[a] = "working" /\ phase' = [phase EXCEPT ![a] = "uploading"]
    BY <1>11 DEF RunThrows, RunReturns, queueVars, vars, registryVars
  <2>2. Idlers \subseteq Idlers'
    BY <2>1 DEF Idlers, FleetOK, LoopsOK
  <2>3. QED
    BY <1>4, <2>1, <2>2
<1>12. ASSUME NEW a \in Agent, UploadArrives(a) PROVE Covered'
  <2>1. queue' = queue /\ local' = local /\ ~drainPending /\ listed' = listed
    BY <1>12, PeacefulSweep, QuietSweep DEF UploadArrives, Recover, MicrotasksDone, registryVars
  <2>2. \A b \in Agent : phase[b] = "idle" => phase'[b] = "idle"
    BY <1>12 DEF UploadArrives, UploadFailed, GoIdle, FleetOK, LoopsOK
  <2>3. Idlers \subseteq Idlers'
    BY <2>1, <2>2 DEF Idlers
  <2>4. QED
    BY <1>3, <2>1, <2>3
<1>13. ASSUME NEW u \in uploads, UploadCompletes(u) PROVE Covered'
  <2>1. Accepted(u.job, u.agent)
    BY PeacefulSweep DEF Accepted, Peaceful, Agreed, Awaits, FleetOK, NetworkOK, Upload
  <2>2. drainPending' = TRUE
    BY <1>13, <2>1 DEF UploadCompletes, RefuseUpload, AcceptUpload, CompleteRemoteJob
  <2>3. QED
    BY <1>2, <2>2
<1>14. ASSUME NEW a \in Agent, HeartbeatDelayed(a) \/ ConnectionLost(a) \/ Crash(a) PROVE FALSE
  BY <1>1, <1>14 DEF HeartbeatDelayed, ConnectionLost, Crash
<1>15. ASSUME NEW u \in uploads, PersistFails(u) PROVE FALSE
  BY <1>1, <1>15 DEF PersistFails
<1>16. QED
  BY <1>5, <1>6, <1>7, <1>8, <1>9, <1>10, <1>11, <1>12, <1>13, <1>14, <1>15 DEF FleetNext

(* While nothing has gone wrong, every job that drain leaves to the agents *)
(* has an idle agent that will ask for it.                                 *)
THEOREM HeldWorkCovered == FleetSpec => []HeldWorkIsCovered
<1>1. FleetInit => Covered
  <2> SUFFICES ASSUME FleetInit PROVE Len(queue) <= Cardinality(Idlers)
    BY DEF Covered
  <2>1. Len(queue) = 0
    BY DEF FleetInit, Init
  <2>2. Cardinality(Idlers) \in Nat
    BY IdlersAreFinite DEF Idlers
  <2>3. QED
    BY <2>1, <2>2
<1>2. ASSUME IInv, FleetOK, faults = MaxFaults => Peaceful, faults = MaxFaults => Covered,
             [FleetNext]_fleetVars
      PROVE  (faults = MaxFaults => Covered)'
  <2> SUFFICES ASSUME faults' = MaxFaults PROVE Covered'
    OBVIOUS
  <2>1. faults' = faults
    BY <1>2, FaultsFall, AgentFleetAssumption DEF FleetOK, NetworkOK, Fault
  <2>2. QED
    BY <1>2, <2>1, StepKeepsCovered
<1>3. IInv /\ FleetOK /\ (faults = MaxFaults => Peaceful) /\ (faults = MaxFaults => Covered)
        /\ [FleetNext]_fleetVars => (faults = MaxFaults => Covered)'
  BY <1>2
<1>4. (faults = MaxFaults => Covered) => HeldWorkIsCovered
  BY DEF Covered, Idlers, HeldWorkIsCovered
<1>5. QED
  BY <1>1, <1>3, <1>4, AlwaysFleetOK, AlwaysPeaceful, PTL DEF FleetSpec

-----------------------------------------------------------------------------
(* Redundant runs.                                                         *)

(* The agent that may go on with a job: its lease is in force. *)
Secure(a, j) == holder[j] = a /\ lease[j] > 0

(* Agents at work on a job that is not, or not for long, theirs, and       *)
(* uploads nobody waits for, which may end the job under its agent.        *)
Strays(j) == {a \in Agent : task[a] = j /\ ~Secure(a, j)}
Ghosts(j) == {u \in uploads : u.job = j /\ ~Awaits(u)}

Debt(j) == Cardinality(Strays(j)) + Cardinality(Ghosts(j))

(* Each of them costs one fault of its own. *)
DebtsArePaid == \A j \in Job : Debt(j) <= MaxFaults - faults

LEMMA SubsetCardinality ==
  ASSUME NEW S, IsFiniteSet(S), NEW T, NEW x, T \subseteq S \cup {x}
  PROVE  /\ IsFiniteSet(T) /\ Cardinality(T) \in Nat /\ Cardinality(S) \in Nat
         /\ Cardinality(T) <= Cardinality(S) + 1
         /\ T \subseteq S => Cardinality(T) <= Cardinality(S)
         /\ x \in S /\ T \subseteq S \ {x} => Cardinality(T) <= Cardinality(S) - 1
<1>1. /\ IsFiniteSet(S \cup {x}) /\ Cardinality(S) \in Nat
      /\ Cardinality(S \cup {x}) = IF x \in S THEN Cardinality(S) ELSE Cardinality(S) + 1
  BY FS_AddElement, FS_CardinalityType
<1>2. IsFiniteSet(T) /\ Cardinality(T) \in Nat /\ Cardinality(T) <= Cardinality(S \cup {x})
  BY <1>1, FS_Subset, FS_CardinalityType
<1>3. T \subseteq S => Cardinality(T) <= Cardinality(S)
  BY FS_Subset
<1>4. ASSUME x \in S, T \subseteq S \ {x} PROVE Cardinality(T) <= Cardinality(S) - 1
  <2>1. IsFiniteSet(S \ {x}) /\ Cardinality(S \ {x}) = Cardinality(S) - 1
    BY <1>4, FS_RemoveElement
  <2>2. QED
    BY <1>4, <2>1, FS_Subset
<1>5. QED
  BY <1>1, <1>2, <1>3, <1>4

LEMMA DebtsAreFinite ==
  ASSUME FleetOK, NEW j
  PROVE  /\ IsFiniteSet(Strays(j)) /\ IsFiniteSet(Ghosts(j))
         /\ Cardinality(Strays(j)) \in Nat /\ Cardinality(Ghosts(j)) \in Nat
<1>1. IsFiniteSet(Strays(j))
  BY AgentFleetAssumption, FS_Subset DEF Strays
<1>2. IsFiniteSet(Ghosts(j))
  BY FS_Subset DEF Ghosts, FleetOK, NetworkOK
<1>3. QED
  BY <1>1, <1>2, FS_CardinalityType

(* How the debt of a job may change: one more member of either kind for a  *)
(* fault, or a ghost that becomes a stray.                                 *)
DebtMoves(j) ==
  \/ Strays(j)' \subseteq Strays(j) /\ Ghosts(j)' \subseteq Ghosts(j)
  \/ \E x : Strays(j)' \subseteq Strays(j) \cup {x} /\ Ghosts(j)' \subseteq Ghosts(j) /\ Fault
  \/ \E x : Strays(j)' \subseteq Strays(j) /\ Ghosts(j)' \subseteq Ghosts(j) \cup {x} /\ Fault
  \/ \E x, u : /\ u \in Ghosts(j)
               /\ Strays(j)' \subseteq Strays(j) \cup {x} /\ Ghosts(j)' \subseteq Ghosts(j) \ {u}

LEMMA DebtMovesArePaid ==
  ASSUME FleetOK, FleetOK', [FleetNext]_fleetVars, NEW j \in Job, DebtMoves(j),
         Debt(j) <= MaxFaults - faults
  PROVE  Debt(j)' <= MaxFaults - faults'
<1> DEFINE S == Strays(j)
           G == Ghosts(j)
           S2 == Strays(j)'
           G2 == Ghosts(j)'
<1>1. /\ faults \in Nat /\ faults' \in Nat /\ MaxFaults \in Nat
      /\ faults' = faults \/ (Fault /\ faults' = faults - 1)
  BY FaultsFall, AgentFleetAssumption DEF FleetOK, NetworkOK, Fault
<1>2. /\ IsFiniteSet(S) /\ IsFiniteSet(G)
      /\ Cardinality(S) \in Nat /\ Cardinality(G) \in Nat
      /\ Cardinality(S) + Cardinality(G) <= MaxFaults - faults
  BY DebtsAreFinite DEF Debt
<1> SUFFICES Cardinality(S2) + Cardinality(G2) <= MaxFaults - faults'
  BY DEF Debt
<1> HIDE DEF S, G, S2, G2
<1>3. CASE S2 \subseteq S /\ G2 \subseteq G
  <2>1. S2 \subseteq S \cup {0} /\ G2 \subseteq G \cup {0}
    BY <1>3
  <2>2. /\ Cardinality(S2) \in Nat /\ Cardinality(S2) <= Cardinality(S)
        /\ Cardinality(G2) \in Nat /\ Cardinality(G2) <= Cardinality(G)
    BY <1>2, <1>3, <2>1, SubsetCardinality
  <2>3. QED
    BY <1>1, <1>2, <2>2
<1>4. ASSUME NEW x, S2 \subseteq S \cup {x}, G2 \subseteq G, Fault
      PROVE  Cardinality(S2) + Cardinality(G2) <= MaxFaults - faults'
  <2>1. G2 \subseteq G \cup {0}
    BY <1>4
  <2>2. /\ Cardinality(S2) \in Nat /\ Cardinality(S2) <= Cardinality(S) + 1
        /\ Cardinality(G2) \in Nat /\ Cardinality(G2) <= Cardinality(G)
    BY <1>2, <1>4, <2>1, SubsetCardinality
  <2>3. faults' = faults - 1
    BY <1>4 DEF Fault
  <2>4. QED
    BY <1>1, <1>2, <2>2, <2>3
<1>5. ASSUME NEW x, S2 \subseteq S, G2 \subseteq G \cup {x}, Fault
      PROVE  Cardinality(S2) + Cardinality(G2) <= MaxFaults - faults'
  <2>1. S2 \subseteq S \cup {0}
    BY <1>5
  <2>2. /\ Cardinality(S2) \in Nat /\ Cardinality(S2) <= Cardinality(S)
        /\ Cardinality(G2) \in Nat /\ Cardinality(G2) <= Cardinality(G) + 1
    BY <1>2, <1>5, <2>1, SubsetCardinality
  <2>3. faults' = faults - 1
    BY <1>5 DEF Fault
  <2>4. QED
    BY <1>1, <1>2, <2>2, <2>3
<1>6. ASSUME NEW x, NEW u, u \in G, S2 \subseteq S \cup {x}, G2 \subseteq G \ {u}
      PROVE  Cardinality(S2) + Cardinality(G2) <= MaxFaults - faults'
  <2>1. G2 \subseteq G \cup {u}
    BY <1>6
  <2>2. /\ Cardinality(S2) \in Nat /\ Cardinality(S2) <= Cardinality(S) + 1
        /\ Cardinality(G2) \in Nat /\ Cardinality(G2) <= Cardinality(G) - 1
    BY <1>2, <1>6, <2>1, SubsetCardinality
  <2>3. QED
    BY <1>1, <1>2, <2>2
<1>7. QED
  BY <1>3, <1>4, <1>5, <1>6 DEF DebtMoves, S, G, S2, G2

(* What keeps the debt of every job. *)
NoNewTasks == \A a \in Agent, j \in Job : task'[a] = j => task[a] = j \/ Secure(a, j)'
SecureStay == \A a \in Agent, j \in Job : Secure(a, j) /\ task'[a] = j => Secure(a, j)'
NoNewGhosts == \A u \in uploads' : Awaits(u)' \/ (u \in uploads /\ ~Awaits(u))

LEMMA QuietDebts ==
  ASSUME NoNewTasks, SecureStay, NoNewGhosts, NEW j \in Job
  PROVE  DebtMoves(j)
<1>1. Strays(j)' \subseteq Strays(j)
  BY DEF Strays, NoNewTasks, SecureStay
<1>2. Ghosts(j)' \subseteq Ghosts(j)
  BY DEF Ghosts, NoNewGhosts
<1>3. QED
  BY <1>1, <1>2 DEF DebtMoves

(* Only a completion or the clock ends a lease that is in force. *)
LEMMA SecureStays ==
  ASSUME IInv,
         \/ UNCHANGED vars \/ Recover \/ (\E j \in Job : Enqueue(j)) \/ RequestDrain
         \/ (\E capacity \in Capacities : Drain(capacity))
         \/ LocalProgress \/ LocalThrow \/ (\E outcome \in Terminal : LocalFinish(outcome))
         \/ (\E a \in Agent : ClaimNextRemoteJob(a))
         \/ (\E j \in Job, a \in Agent : HeartbeatRemoteJob(j, a))
  PROVE  \A a \in Agent, j \in Job : Secure(a, j) => Secure(a, j)'
<1> SUFFICES ASSUME NEW a \in Agent, NEW j \in Job, holder[j] = a, lease[j] > 0
             PROVE  holder'[j] = a /\ lease'[j] > 0
  BY DEF Secure
<1>1. HolderR[j] = a /\ a # None /\ j \notin Expired
  BY JobQueueAssumption DEF HolderR, Expired, IInv, TypeOK
<1>2. /\ holder \in [Job -> Agent \cup {None}] /\ lease \in [Job -> 0..LeaseTicks]
      /\ LeaseTicks > 0 /\ LeaseTicks \in Nat
  BY JobQueueAssumption DEF IInv, TypeOK
<1>3. CASE \/ UNCHANGED vars \/ Recover \/ (\E i \in Job : Enqueue(i)) \/ RequestDrain
           \/ (\E capacity \in Capacities : Drain(capacity))
  BY <1>1, <1>3 DEF vars, Recover, Enqueue, RequestDrain, Drain
<1>4. CASE LocalProgress \/ LocalThrow \/ \E outcome \in Terminal : LocalFinish(outcome)
  <2>1. lease' = lease /\ local # None /\ (holder' = holder \/ holder' = [holder EXCEPT ![local] = None])
    BY <1>4 DEF LocalProgress, LocalThrow, LocalFinish
  <2>2. local \in Job /\ holder[local] = None
    BY <2>1 DEF IInv, TypeOK, ExactlyOneOwner
  <2>3. QED
    BY <1>1, <1>2, <2>1, <2>2
<1>5. CASE \E b \in Agent : ClaimNextRemoteJob(b)
  <2>1. PICK b \in Agent, q \in QueuesR :
          /\ q # <<>> /\ holder' = [HolderR EXCEPT ![Head(q)] = b]
          /\ lease' = [lease EXCEPT ![Head(q)] = LeaseTicks]
    BY <1>5 DEF ClaimNextRemoteJob
  <2>2. Head(q) # j
    <3>1. status[Head(q)] = "queued" \/ Head(q) \in Requeued
      BY <2>1, SweptHead
    <3>2. status[j] = "running" /\ j \notin Requeued
      BY <1>1 DEF IInv, ExactlyOneOwner, Requeued
    <3>3. QED
      BY <3>1, <3>2
  <2>3. QED
    BY <1>1, <1>2, <2>1, <2>2, SweepFunctions
<1>6. CASE \E i \in Job, b \in Agent : HeartbeatRemoteJob(i, b)
  BY <1>1, <1>2, <1>6 DEF HeartbeatRemoteJob
<1>7. QED
  BY <1>3, <1>4, <1>5, <1>6

(* An agent that leaves its task alone, or drops it. *)
LEMMA DroppingIsQuiet ==
  ASSUME LoopsOK, NEW a \in Agent, UploadFailed(a) \/ GoIdle(a)
  PROVE  /\ NoNewTasks
         /\ \A u \in Upload : u.agent # a => (Awaits(u)' <=> Awaits(u))
<1>1. task' = [task EXCEPT ![a] = None] \/ task' = task
  BY DEF UploadFailed, GoIdle
<1>2. \A b \in Agent : b # a => task'[b] = task[b] /\ phase'[b] = phase[b] /\ result'[b] = result[b]
  BY DEF UploadFailed, GoIdle, LoopsOK
<1>3. QED
  BY <1>1, <1>2, JobQueueAssumption DEF NoNewTasks, Awaits, LoopsOK, Upload

LEMMA PrimaryPaysNothing ==
  ASSUME IInv, NEW j \in Job,
         \/ UNCHANGED fleetVars \/ (\E i \in Job : Submit(i)) \/ DrainLocally \/ ProcessLocally
         \/ SyncExpiredAgentLeases \/ SweepSilently
  PROVE  DebtMoves(j)
<1>1. UNCHANGED <<phase, task, result, uploads>>
  BY DEF fleetVars, agentVars, networkVars, Submit, DrainLocally, ProcessLocally,
         SyncExpiredAgentLeases, SweepSilently
<1>2. \A a \in Agent, i \in Job : Secure(a, i) => Secure(a, i)'
  BY SecureStays, CountIdleIsCapacity
     DEF fleetVars, queueVars, Submit, DrainLocally, ProcessLocally, SyncExpiredAgentLeases,
         SweepSilently, RecoverExpiredRemoteClaims
<1>3. NoNewTasks /\ SecureStay /\ NoNewGhosts
  BY <1>1, <1>2 DEF NoNewTasks, SecureStay, NoNewGhosts, Awaits
<1>4. QED
  BY <1>3, QuietDebts

LEMMA AgentPaysNothing ==
  ASSUME IInv, FleetOK, NEW j \in Job, NEW a \in Agent,
         \/ CheckInForWork(a) \/ CheckInIdle(a) \/ Heartbeat(a) \/ HeartbeatDelayed(a)
         \/ (\E i \in Job : LateHeartbeat(a, i)) \/ (\E outcome \in Terminal : RunReturns(a, outcome))
         \/ RunThrows(a) \/ UploadArrives(a) \/ Restart(a)
  PROVE  DebtMoves(j)
<1>1. /\ phase \in [Agent -> {"idle", "working", "uploading", "waiting", "dead"}]
      /\ task \in [Agent -> Job \cup {None}] /\ uploads \subseteq Upload
  BY DEF FleetOK, LoopsOK, NetworkOK
<1>2. \A b \in Agent, i \in Job : Secure(b, i) => Secure(b, i)'
  <2>1. Heartbeat(a) => task[a] \in Job
    BY DEF Heartbeat, FleetOK, LoopsOK
  <2>2. QED
    BY <2>1, SecureStays
       DEF CheckInForWork, CheckInIdle, Heartbeat, HeartbeatDelayed, LateHeartbeat, HeartbeatAccepted,
           RunReturns, RunThrows, UploadArrives, Restart, queueVars
<1>3. SecureStay
  BY <1>2 DEF SecureStay
<1>4. CASE CheckInForWork(a)
  <2>1. phase[a] = "idle" /\ uploads' = uploads
    BY <1>4 DEF CheckInForWork
  <2>2. CASE UNCHANGED agentVars
    <3>1. NoNewTasks /\ NoNewGhosts
      BY <2>1, <2>2 DEF agentVars, NoNewTasks, NoNewGhosts, Awaits
    <3>2. QED
      BY <1>3, <3>1, QuietDebts
  <2>3. CASE ~UNCHANGED agentVars
    <3>1. PICK h \in Job : HolderR[h] # a /\ holder'[h] = a /\ StartWork(a, h)
      BY <1>4, <2>3 DEF CheckInForWork
    <3>2. Secure(a, h)'
      <4>1. PICK q \in QueuesR : /\ q # <<>> /\ holder' = [HolderR EXCEPT ![Head(q)] = a]
                                /\ lease' = [lease EXCEPT ![Head(q)] = LeaseTicks]
        BY <1>4 DEF CheckInForWork, ClaimNextRemoteJob
      <4>2. h = Head(q)
        BY <3>1, <4>1, SweepFunctions
      <4>3. lease'[h] = LeaseTicks
        BY <4>1, <4>2 DEF IInv, TypeOK
      <4>4. QED
        BY <3>1, <4>3, JobQueueAssumption DEF Secure
    <3>3. /\ task' = [task EXCEPT ![a] = h] /\ phase' = [phase EXCEPT ![a] = "working"]
          /\ result' = result
      BY <3>1 DEF StartWork
    <3>4. NoNewTasks
      BY <1>1, <3>2, <3>3 DEF NoNewTasks
    <3>5. NoNewGhosts
      BY <1>1, <2>1, <3>3 DEF NoNewGhosts, Awaits, Upload
    <3>6. QED
      BY <1>3, <3>4, <3>5, QuietDebts
  <2>4. QED
    BY <2>2, <2>3
<1>5. CASE CheckInIdle(a) \/ Heartbeat(a) \/ HeartbeatDelayed(a) \/ \E i \in Job : LateHeartbeat(a, i)
  <2>1. UNCHANGED <<phase, task, result, uploads>>
    BY <1>5 DEF CheckInIdle, Heartbeat, HeartbeatDelayed, LateHeartbeat, HeartbeatAccepted, agentVars,
                networkVars
  <2>2. NoNewTasks /\ NoNewGhosts
    BY <2>1 DEF NoNewTasks, NoNewGhosts, Awaits
  <2>3. QED
    BY <1>3, <2>2, QuietDebts
<1>6. CASE RunThrows(a) \/ Restart(a) \/ \E outcome \in Terminal : RunReturns(a, outcome)
  <2>1. /\ phase[a] # "waiting" /\ task' = task /\ uploads' = uploads
        /\ \A b \in Agent : b # a => phase'[b] = phase[b] /\ result'[b] = result[b]
    BY <1>6 DEF RunThrows, Restart, RunReturns, networkVars, FleetOK, LoopsOK
  <2>2. NoNewTasks /\ NoNewGhosts
    BY <1>1, <2>1 DEF NoNewTasks, NoNewGhosts, Awaits, Upload
  <2>3. QED
    BY <1>3, <2>2, QuietDebts
<1>7. CASE UploadArrives(a)
  <2> DEFINE u == [agent |-> a, job |-> task[a], outcome |-> result[a]]
  <2>1. phase[a] = "uploading"
    BY <1>7 DEF UploadArrives
  <2>2. CASE Accepted(task[a], a)
    <3>1. /\ uploads' = uploads \cup {u} /\ phase' = [phase EXCEPT ![a] = "waiting"]
          /\ UNCHANGED <<task, result>>
      BY <1>7, <2>2 DEF UploadArrives
    <3>2. Awaits(u)'
      BY <1>1, <3>1 DEF Awaits
    <3>3. \A v \in uploads : Awaits(v) => Awaits(v)'
      BY <1>1, <2>1, <3>1 DEF Awaits, Upload
    <3>4. NoNewTasks /\ NoNewGhosts
      BY <3>1, <3>2, <3>3 DEF NoNewTasks, NoNewGhosts
    <3>5. QED
      BY <1>3, <3>4, QuietDebts
  <2>3. CASE ~Accepted(task[a], a)
    <3>1. UploadFailed(a) /\ uploads' = uploads
      BY <1>7, <2>3 DEF UploadArrives
    <3>2. NoNewTasks /\ \A v \in Upload : v.agent # a => (Awaits(v)' <=> Awaits(v))
      BY <3>1, DroppingIsQuiet DEF FleetOK
    <3>3. \A v : v.agent = a => ~Awaits(v)
      BY <2>1 DEF Awaits
    <3>4. NoNewGhosts
      BY <1>1, <3>1, <3>2, <3>3 DEF NoNewGhosts
    <3>5. QED
      BY <1>3, <3>2, <3>4, QuietDebts
  <2>4. QED
    BY <2>2, <2>3
<1>8. QED
  BY <1>4, <1>5, <1>6, <1>7

(* A connection that breaks, or a crash, leaves at most one ghost. *)
LEMMA LossPaysGhost ==
  ASSUME FleetOK, NEW j \in Job, NEW a \in Agent, ConnectionLost(a) \/ Crash(a)
  PROVE  DebtMoves(j)
<1> DEFINE g == [agent |-> a, job |-> task[a], outcome |-> result[a]]
<1>1. Fault /\ uploads' = uploads /\ holder' = holder /\ lease' = lease
  BY DEF ConnectionLost, Crash, queueVars, vars
<1>2. \A b \in Agent : b # a => /\ task'[b] = task[b] /\ phase'[b] = phase[b]
                                 /\ result'[b] = result[b]
  BY DEF ConnectionLost, Crash, UploadFailed, GoIdle, FleetOK, LoopsOK
<1>3. task'[a] \in {task[a], None}
  BY DEF ConnectionLost, Crash, UploadFailed, GoIdle, FleetOK, LoopsOK
<1>4. Strays(j)' \subseteq Strays(j)
  BY <1>1, <1>2, <1>3, JobQueueAssumption DEF Strays, Secure
<1>5. Ghosts(j)' \subseteq Ghosts(j) \cup {g}
  <2> SUFFICES ASSUME NEW u \in uploads, ~Awaits(u)', Awaits(u) PROVE u = g
    BY <1>1 DEF Ghosts
  <2>1. u \in Upload
    BY DEF FleetOK, NetworkOK
  <2>2. u.agent = a
    BY <1>2, <2>1 DEF Awaits, Upload
  <2>3. u.job = task[a] /\ u.outcome = result[a]
    BY <2>2 DEF Awaits
  <2>4. QED
    BY <2>1, <2>2, <2>3 DEF Upload
<1>6. QED
  BY <1>1, <1>4, <1>5 DEF DebtMoves

(* A handler's end: the upload it had is gone, awaited or not. *)
LEMMA HandlerPaysNothing ==
  ASSUME IInv, FleetOK, NEW j \in Job, NEW u \in uploads, UploadCompletes(u) \/ PersistFails(u)
  PROVE  DebtMoves(j)
<1> DEFINE a == u.agent
<1>1. /\ a \in Agent /\ u.job \in Job /\ u \in Upload /\ uploads \subseteq Upload
      /\ uploads' = uploads \ {u}
  BY DEF FleetOK, NetworkOK, Upload, UploadCompletes, PersistFails
<1>2. UNCHANGED agentVars \/ (Awaits(u) /\ (GoIdle(a) \/ UploadFailed(a)))
  BY DEF UploadCompletes, AcceptUpload, RefuseUpload, PersistFails
<1>3. NoNewTasks
  BY <1>1, <1>2, DroppingIsQuiet DEF agentVars, NoNewTasks, FleetOK
<1>4. NoNewGhosts
  <2> SUFFICES ASSUME NEW v \in uploads', Awaits(v) PROVE Awaits(v)'
    BY <1>1 DEF NoNewGhosts
  <2>1. v \in Upload /\ v # u
    BY <1>1
  <2>2. CASE UNCHANGED agentVars
    BY <2>2 DEF agentVars, Awaits
  <2>3. CASE Awaits(u) /\ (GoIdle(a) \/ UploadFailed(a))
    <3>1. v.agent # a
      BY <1>1, <2>1, <2>3 DEF Awaits, Upload
    <3>2. QED
      BY <1>1, <2>1, <2>3, <3>1, DroppingIsQuiet DEF FleetOK
  <2>4. QED
    BY <1>2, <2>2, <2>3
<1>5. CASE ~AcceptUpload(u)
  <2>1. \A b \in Agent, i \in Job : Secure(b, i) => Secure(b, i)'
    BY <1>5, SecureStays DEF UploadCompletes, RefuseUpload, PersistFails, queueVars
  <2>2. SecureStay
    BY <2>1 DEF SecureStay
  <2>3. QED
    BY <1>3, <1>4, <2>2, QuietDebts
<1>6. CASE AcceptUpload(u)
  <2>1. /\ HolderR[u.job] = a /\ holder' = [HolderR EXCEPT ![u.job] = None]
        /\ lease' = [lease EXCEPT ![u.job] = 0]
    BY <1>6 DEF AcceptUpload, CompleteRemoteJob, Accepted
  <2>2. holder[u.job] = a
    BY <1>1, <2>1, HeldJob
  <2>3. \A b \in Agent, i \in Job : Secure(b, i) => Secure(b, i)' \/ (b = a /\ i = u.job)
    <3> SUFFICES ASSUME NEW b \in Agent, NEW i \in Job, Secure(b, i), i # u.job PROVE Secure(b, i)'
      BY <1>1, <2>2 DEF Secure
    <3>1. HolderR[i] = b
      BY JobQueueAssumption DEF HolderR, Expired, Secure, IInv, TypeOK
    <3>2. holder'[i] = b /\ lease'[i] = lease[i]
      BY <2>1, <3>1, SweepFunctions DEF IInv, TypeOK
    <3>3. QED
      BY <3>2 DEF Secure
  <2>4. CASE Awaits(u)
    <3>1. GoIdle(a)
      BY <1>6, <2>4 DEF AcceptUpload
    <3>2. task'[a] = None
      BY <1>1, <3>1 DEF GoIdle, FleetOK, LoopsOK
    <3>3. SecureStay
      BY <1>1, <2>3, <3>2, JobQueueAssumption DEF SecureStay
    <3>4. QED
      BY <1>3, <1>4, <3>3, QuietDebts
  <2>5. CASE ~Awaits(u)
    <3>1. UNCHANGED agentVars
      BY <1>6, <2>5 DEF AcceptUpload
    <3>2. CASE j = u.job
      <4>1. Strays(j)' \subseteq Strays(j) \cup {a}
        BY <2>3, <3>1 DEF Strays, agentVars
      <4>2. u \in Ghosts(j)
        BY <2>5, <3>2 DEF Ghosts
      <4>3. Ghosts(j)' \subseteq Ghosts(j) \ {u}
        BY <1>1, <1>4 DEF Ghosts, NoNewGhosts
      <4>4. QED
        BY <4>1, <4>2, <4>3 DEF DebtMoves
    <3>3. CASE j # u.job
      <4>1. Strays(j)' \subseteq Strays(j)
        BY <2>3, <3>1, <3>3 DEF Strays, agentVars
      <4>2. Ghosts(j)' \subseteq Ghosts(j)
        BY <1>4 DEF Ghosts, NoNewGhosts
      <4>3. QED
        BY <4>1, <4>2 DEF DebtMoves
    <3>4. QED
      BY <3>2, <3>3
  <2>6. QED
    BY <2>4, <2>5
<1>7. QED
  BY <1>5, <1>6

(* A tick that no agent can help costs a fault, and at most the holder of  *)
(* each job its lease.                                                     *)
LEMMA TickPaysStray ==
  ASSUME IInv, FleetOK, NEW j \in Job, FleetTick
  PROVE  DebtMoves(j)
<1>1. /\ lease' = [i \in Job |-> IF lease[i] > 0 THEN lease[i] - 1 ELSE 0]
      /\ UNCHANGED <<holder, task, phase, result, uploads>>
  BY DEF FleetTick, agentVars
<1>2. Ghosts(j)' \subseteq Ghosts(j)
  BY <1>1 DEF Ghosts, Awaits
<1>3. CASE \A a \in Agent : InTime(a)
  <2>1. ASSUME NEW a \in Agent, task[a] = j, Secure(a, j) PROVE Secure(a, j)'
    <3>1. lease[j] > 1 /\ lease[j] \in Nat
      BY <1>3, <2>1, JobQueueAssumption DEF InTime, Secure, IInv, TypeOK
    <3>2. QED
      BY <1>1, <2>1, <3>1 DEF Secure
  <2>2. Strays(j)' \subseteq Strays(j)
    BY <1>1, <2>1 DEF Strays
  <2>3. QED
    BY <1>2, <2>2 DEF DebtMoves
<1>4. CASE ~ \A a \in Agent : InTime(a)
  <2>1. Fault
    BY <1>4 DEF FleetTick
  <2>2. Strays(j)' \subseteq Strays(j) \cup {holder[j]}
    BY <1>1 DEF Strays, Secure
  <2>3. QED
    BY <1>2, <2>1, <2>2 DEF DebtMoves
<1>5. QED
  BY <1>3, <1>4

LEMMA StepPaysDebts ==
  ASSUME IInv, FleetOK, DebtsArePaid, [FleetNext]_fleetVars
  PROVE  DebtsArePaid'
<1>1. ASSUME NEW j \in Job PROVE DebtMoves(j)
  <2>1. CASE \/ UNCHANGED fleetVars \/ (\E i \in Job : Submit(i)) \/ DrainLocally \/ ProcessLocally
             \/ SyncExpiredAgentLeases \/ SweepSilently
    BY <1>1, <2>1, PrimaryPaysNothing
  <2>2. ASSUME NEW a \in Agent,
               \/ CheckInForWork(a) \/ CheckInIdle(a) \/ Heartbeat(a) \/ HeartbeatDelayed(a)
               \/ (\E i \in Job : LateHeartbeat(a, i))
               \/ (\E outcome \in Terminal : RunReturns(a, outcome))
               \/ RunThrows(a) \/ UploadArrives(a) \/ Restart(a)
        PROVE  DebtMoves(j)
    BY <1>1, <2>2, AgentPaysNothing
  <2>3. ASSUME NEW a \in Agent, ConnectionLost(a) \/ Crash(a) PROVE DebtMoves(j)
    BY <1>1, <2>3, LossPaysGhost
  <2>4. ASSUME NEW u \in uploads, UploadCompletes(u) \/ PersistFails(u) PROVE DebtMoves(j)
    BY <1>1, <2>4, HandlerPaysNothing
  <2>5. CASE FleetTick
    BY <1>1, <2>5, TickPaysStray
  <2>6. QED
    BY <2>1, <2>2, <2>3, <2>4, <2>5 DEF FleetNext
<1>2. FleetOK'
  BY FleetStepKeepsOK
<1>3. ASSUME NEW j \in Job PROVE Debt(j)' <= MaxFaults - faults'
  BY <1>1, <1>2, <1>3, DebtMovesArePaid DEF DebtsArePaid
<1>4. QED
  BY <1>3 DEF DebtsArePaid

(* Who executes a job: its holder or the local worker, and the strays. *)
LEMMA PaidDebtsBoundRuns ==
  ASSUME IInv, FleetOK, DebtsArePaid
  PROVE  RedundantRunsAreBounded
<1> SUFFICES ASSUME NEW j \in Job PROVE Executions(j) <= 1 + (MaxFaults - faults)
  BY DEF RedundantRunsAreBounded
<1> DEFINE Runners == {a \in Agent : task[a] = j}
<1>1. /\ IsFiniteSet(Strays(j)) /\ Cardinality(Strays(j)) \in Nat /\ Cardinality(Ghosts(j)) \in Nat
      /\ Cardinality(Strays(j)) + Cardinality(Ghosts(j)) <= MaxFaults - faults
      /\ MaxFaults \in Nat /\ faults \in Nat
  BY DebtsAreFinite, AgentFleetAssumption DEF DebtsArePaid, Debt, FleetOK, NetworkOK
<1>2. Runners \subseteq Strays(j) \cup {holder[j]}
  BY DEF Strays, Secure
<1>3. Cardinality(Runners) \in Nat /\ Cardinality(Runners) <= Cardinality(Strays(j)) + 1
  BY <1>1, <1>2, SubsetCardinality
<1>4. CASE local = j
  <2>1. holder[j] = None
    BY <1>4 DEF IInv, ExactlyOneOwner
  <2>2. Runners \subseteq Strays(j)
    BY <2>1, JobQueueAssumption DEF Strays, Secure
  <2>3. Cardinality(Runners) <= Cardinality(Strays(j))
    BY <1>1, <1>2, <2>2, SubsetCardinality
  <2>4. Executions(j) = Cardinality(Runners) + 1
    BY <1>4 DEF Executions
  <2>5. QED
    BY <1>1, <1>3, <2>3, <2>4
<1>5. CASE local # j
  <2>1. Executions(j) = Cardinality(Runners) + 0
    BY <1>5 DEF Executions
  <2>2. QED
    BY <1>1, <1>3, <2>1
<1>6. QED
  BY <1>4, <1>5

(* A job runs on more than one worker at a time only as often as something *)
(* went wrong.                                                             *)
THEOREM RedundancyBounded == FleetSpec => []RedundantRunsAreBounded
<1>1. FleetInit => DebtsArePaid
  <2> SUFFICES ASSUME FleetInit, NEW j \in Job PROVE Debt(j) <= MaxFaults - faults
    BY DEF DebtsArePaid
  <2>1. Strays(j) = {} /\ Ghosts(j) = {}
    BY JobQueueAssumption DEF FleetInit, Strays, Ghosts
  <2>2. Debt(j) = 0
    BY <2>1, FS_EmptySet DEF Debt
  <2>3. MaxFaults - faults = 0
    BY AgentFleetAssumption DEF FleetInit
  <2>4. QED
    BY <2>2, <2>3
<1>2. IInv /\ FleetOK /\ DebtsArePaid /\ [FleetNext]_fleetVars => DebtsArePaid'
  BY StepPaysDebts
<1>3. IInv /\ FleetOK /\ DebtsArePaid => RedundantRunsAreBounded
  BY PaidDebtsBoundRuns
<1>4. QED
  BY <1>1, <1>2, <1>3, AlwaysFleetOK, PTL DEF FleetSpec
=============================================================================
