-------------------------- MODULE KeyRegistryProofs --------------------------
(***************************************************************************)
(* Proofs about KeyRegistry, for any keys and any number of requests.  The *)
(* registries that exist at one time are a chain in which a key's state    *)
(* only advances: what was promised, what is durable, the payloads of the  *)
(* waiting writes in their order, and the memory.                          *)
(***************************************************************************)
EXTENDS KeyRegistry, SequenceTheorems, TLAPS

Operations == {"create", "revoke", "verify"}

(* In r every key is at least as far as in s. *)
Covers(r, s) == \A k \in Key : Rank(r[k]) >= Rank(s[k])

(* The file: a complete one is the last that was written completely. *)
FileIsDurable == disk # Torn => disk = durable

(* The chain of registries. *)
ChainOrdered ==
    /\ Covers(durable, promised)
    /\ load = "loaded" => Covers(memory, durable)
    /\ \A i \in DOMAIN writes :
          Covers(writes[i].payload, durable) /\ Covers(memory, writes[i].payload)
    /\ \A i, j \in DOMAIN writes : i < j => Covers(writes[j].payload, writes[i].payload)

(* A call that is to be answered has its own change in memory, and then in *)
(* its payload; it waits for one write.                                    *)
OwnChange ==
    /\ \A c \in Caller : call[c].at = "mkdir" =>
          load = "loaded" /\ Rank(memory[call[c].key]) >= Rank(Leaves(call[c].op))
    /\ \A i \in DOMAIN writes :
          LET own == call[writes[i].caller]
          IN  Rank(writes[i].payload[own.key]) >= Rank(Leaves(own.op))
    /\ \A i, j \in DOMAIN writes : i # j => writes[i].caller # writes[j].caller

IInv == TypeOK /\ FileIsDurable /\ ChainOrdered /\ OwnChange

LEMMA Ranks ==
  /\ Rank("absent") = 0 /\ Rank("active") = 1 /\ Rank("revoked") = 2
  /\ \A r \in Registry, k \in Key : Rank(r[k]) \in Nat
<1>1. Rank("absent") = 0 /\ Rank("active") = 1 /\ Rank("revoked") = 2
  BY DEF Rank
<1>2. ASSUME NEW r \in Registry, NEW k \in Key PROVE Rank(r[k]) \in Nat
  <2>1. r[k] \in {"absent", "active", "revoked"}
    BY DEF Registry
  <2>2. QED
    BY <1>1, <2>1
<1>3. QED
  BY <1>1, <1>2

LEMMA CoversItself == ASSUME NEW r \in Registry PROVE Covers(r, r)
BY Ranks DEF Covers

LEMMA CoversTransitive ==
  ASSUME NEW r \in Registry, NEW s \in Registry, NEW t \in Registry, Covers(r, s), Covers(s, t)
  PROVE  Covers(r, t)
<1> SUFFICES ASSUME NEW k \in Key PROVE Rank(r[k]) >= Rank(t[k])
  BY DEF Covers
<1>1. Rank(r[k]) >= Rank(s[k]) /\ Rank(s[k]) >= Rank(t[k])
  BY DEF Covers
<1>2. Rank(r[k]) \in Nat /\ Rank(s[k]) \in Nat /\ Rank(t[k]) \in Nat
  BY Ranks
<1>3. QED
  BY <1>1, <1>2

Waiting == [payload : Registry, caller : Caller]

(* The writes of the chain, one by one. *)
LEMMA WritesTyped ==
  ASSUME TypeOK
  PROVE  /\ writes \in Seq(Waiting) /\ Len(writes) \in Nat /\ DOMAIN writes = 1..Len(writes)
         /\ \A i \in DOMAIN writes :
               /\ writes[i] \in Waiting /\ writes[i].payload \in Registry
               /\ writes[i].caller \in Caller /\ call[writes[i].caller].at = "writing"
<1>1. writes \in Seq(Waiting)
  BY DEF TypeOK, Waiting
<1>2. Len(writes) \in Nat /\ DOMAIN writes = 1..Len(writes) /\ \A i \in DOMAIN writes : writes[i] \in Waiting
  BY <1>1
<1>3. \A w \in Waiting : w.payload \in Registry /\ w.caller \in Caller
  BY DEF Waiting
<1>4. QED
  BY <1>1, <1>2, <1>3 DEF TypeOK

(* What is left of the chain when its first write is done. *)
LEMMA WithoutFirst ==
  ASSUME TypeOK, writes # << >>
  PROVE  /\ Without(1) \in Seq(Waiting)
         /\ Len(Without(1)) = Len(writes) - 1
         /\ DOMAIN Without(1) = 1..(Len(writes) - 1)
         /\ \A j \in DOMAIN Without(1) : Without(1)[j] = writes[j + 1] /\ j + 1 \in DOMAIN writes
         /\ 1 \in DOMAIN writes
<1> DEFINE tail == SubSeq(writes, 2, Len(writes))
<1>1. writes \in Seq(Waiting) /\ Len(writes) \in Nat \ {0} /\ DOMAIN writes = 1..Len(writes)
  BY WritesTyped, EmptySeq
<1>2. SubSeq(writes, 1, 1 - 1) = << >>
  BY <1>1
<1>3. /\ tail \in Seq(Waiting) /\ Len(tail) = Len(writes) - 1
      /\ \A j \in 1..(Len(writes) - 1) : tail[j] = writes[j + 1]
  BY <1>1
<1>4. Without(1) = tail
  BY <1>1, <1>2, <1>3 DEF Without
<1>5. DOMAIN tail = 1..(Len(writes) - 1)
  BY <1>1, <1>3
<1>6. \A j \in 1..(Len(writes) - 1) : j + 1 \in DOMAIN writes
  BY <1>1
<1>7. 1 \in DOMAIN writes
  BY <1>1
<1> HIDE DEF tail
<1>8. QED
  BY <1>3, <1>4, <1>5, <1>6, <1>7

LEMMA InitIsIInv == Init => IInv
<1> SUFFICES ASSUME Init PROVE IInv
  OBVIOUS
<1>1. Empty \in Registry
  BY DEF Empty, Registry
<1>2. TypeOK
  <2>1. writes \in Seq([payload : Registry, caller : Caller]) /\ DOMAIN writes = {}
    BY DEF Init
  <2>2. QED
    BY <1>1, <2>1 DEF Init, TypeOK
<1>3. Covers(Empty, Empty)
  BY <1>1, CoversItself
<1>4. QED
  BY <1>2, <1>3 DEF Init, IInv, FileIsDurable, ChainOrdered, OwnChange, NoCall

(* A step that leaves the registries and the chain alone, and moves calls  *)
(* that wait neither for mkdir nor for a write.                            *)
LEMMA CallsOnly ==
  ASSUME IInv, UNCHANGED <<memory, load, disk, writes, durable, failed, promised>>,
         NEW c \in Caller, NEW new \in {NoCall} \cup Steps,
         call[c].at # "writing", new.at \in {"idle", "loading"},
         call' = [call EXCEPT ![c] = new]
  PROVE  IInv'
<1>3. \A i \in DOMAIN writes : writes[i].caller # c /\ writes[i].caller \in Caller
  BY WritesTyped DEF IInv
<1>1. TypeOK'
  BY <1>3 DEF IInv, TypeOK
<1>2. FileIsDurable' /\ ChainOrdered'
  BY DEF IInv, FileIsDurable, ChainOrdered, Covers
<1>4. OwnChange'
  BY <1>3 DEF IInv, TypeOK, OwnChange
<1>5. QED
  BY <1>1, <1>2, <1>4 DEF IInv

(* The first write is over, and its call is answered. *)
LEMMA FirstOver ==
  ASSUME IInv, writes # << >>, writes' = Without(1), Answer(writes[1].caller),
         UNCHANGED <<memory, load>>
  PROVE  /\ writes' \in Seq(Waiting)
         /\ call' \in [Caller -> {NoCall} \cup Steps]
         /\ \A i \in DOMAIN writes' : call'[writes'[i].caller].at = "writing"
         /\ load # "loaded" => writes' = << >>
         /\ OwnChange'
         /\ \A i \in DOMAIN writes' :
               Covers(writes'[i].payload, writes[1].payload) /\ Covers(memory, writes'[i].payload)
         /\ \A i, j \in DOMAIN writes' : i < j => Covers(writes'[j].payload, writes'[i].payload)
         /\ \A i \in DOMAIN writes' : Covers(writes'[i].payload, durable)
<1> USE DEF IInv
<1> DEFINE c == writes[1].caller
<1>1. /\ writes' \in Seq(Waiting)
      /\ \A j \in DOMAIN writes' : writes'[j] = writes[j + 1] /\ j + 1 \in DOMAIN writes
      /\ 1 \in DOMAIN writes /\ DOMAIN writes' = 1..(Len(writes) - 1) /\ Len(writes) \in Nat
  BY WithoutFirst DEF TypeOK
<1>2. c \in Caller
  BY <1>1, WritesTyped
<1>3. call' \in [Caller -> {NoCall} \cup Steps]
  BY <1>2 DEF Answer, TypeOK
<1>4. \A i \in DOMAIN writes' : writes'[i].caller \in Caller /\ writes'[i].caller # c
  BY <1>1, WritesTyped DEF OwnChange
<1>5. \A i \in DOMAIN writes' : call'[writes'[i].caller] = call[writes[i + 1].caller]
  BY <1>1, <1>4 DEF Answer, TypeOK
<1>6. \A i \in DOMAIN writes' : call'[writes'[i].caller].at = "writing"
  BY <1>1, <1>5, WritesTyped
<1>7. load = "loaded"
  BY DEF TypeOK
<1>8. OwnChange'
  <2>1. \A d \in Caller : call'[d].at = "mkdir" => call'[d] = call[d]
    BY DEF Answer, NoCall, TypeOK
  <2>2. \A i \in DOMAIN writes' : LET own == call'[writes'[i].caller]
                                 IN  Rank(writes'[i].payload[own.key]) >= Rank(Leaves(own.op))
    BY <1>1, <1>5 DEF OwnChange
  <2>3. \A i, j \in DOMAIN writes' : i # j => writes'[i].caller # writes'[j].caller
    BY <1>1 DEF OwnChange
  <2>4. QED
    BY <2>1, <2>2, <2>3 DEF OwnChange
<1>9. /\ \A i \in DOMAIN writes' :
            Covers(writes'[i].payload, writes[1].payload) /\ Covers(memory, writes'[i].payload)
      /\ \A i \in DOMAIN writes' : Covers(writes'[i].payload, durable)
  BY <1>1 DEF ChainOrdered
<1>10. \A i, j \in DOMAIN writes' : i < j => Covers(writes'[j].payload, writes'[i].payload)
  BY <1>1 DEF ChainOrdered
<1>11. QED
  BY <1>1, <1>3, <1>6, <1>7, <1>8, <1>9, <1>10

LEMMA NextKeepsIInv == IInv /\ [Next]_vars => IInv'
<1> SUFFICES ASSUME IInv, [Next]_vars PROVE IInv'
  OBVIOUS
<1> USE DEF IInv
<1>1. CASE UNCHANGED vars
  BY <1>1 DEF vars, TypeOK, FileIsDurable, ChainOrdered, OwnChange, Covers
<1>2. ASSUME NEW c \in Caller, Begin(c) PROVE IInv'
  <2>1. PICK op \in Operations, k \in Key :
          call' = [call EXCEPT ![c] = [at |-> "loading", op |-> op, key |-> k]]
    BY <1>2 DEF Begin, Operations
  <2>2. [at |-> "loading", op |-> op, key |-> k] \in Steps
    BY DEF Steps, Operations
  <2>3. QED
    BY <1>2, <2>1, <2>2, CallsOnly DEF Begin
<1>3. ASSUME NEW c \in Caller, AnswerAtOnce(c) PROVE IInv'
  BY <1>3, CallsOnly DEF AnswerAtOnce, Answer, NoCall
<1>4. ASSUME NEW c \in Caller, MkdirFails(c) PROVE IInv'
  <2>1. TypeOK'
    BY <1>4 DEF MkdirFails, Answer, TypeOK
  <2>2. FileIsDurable' /\ ChainOrdered'
    BY <1>4 DEF MkdirFails, FileIsDurable, ChainOrdered, Covers
  <2>3. OwnChange'
    BY <1>4 DEF MkdirFails, Answer, OwnChange, TypeOK, NoCall
  <2>4. QED
    BY <2>1, <2>2, <2>3
<1>5. ASSUME NEW c \in Caller, Change(c) PROVE IInv'
  <2> DEFINE k == call[c].key
  <2>1. call[c] \in Steps /\ k \in Key /\ call[c].op \in Operations
    BY <1>5 DEF Change, TypeOK, Steps, NoCall, Operations
  <2>2. Leaves(call[c].op) \in {"active", "revoked"}
    BY DEF Leaves
  <2>3. memory' \in Registry /\ memory'[k] = Leaves(call[c].op) /\ \A l \in Key \ {k} : memory'[l] = memory[l]
    BY <1>5, <2>1, <2>2 DEF Change, Registry, TypeOK
  <2>4. Rank(memory'[k]) >= Rank(memory[k])
    BY <1>5, <2>1, <2>3, Ranks DEF Change, Finds, Leaves, Operations
  <2>5. Covers(memory', memory)
    <3> SUFFICES ASSUME NEW l \in Key PROVE Rank(memory'[l]) >= Rank(memory[l])
      BY DEF Covers
    <3>1. Rank(memory[l]) \in Nat
      BY Ranks DEF TypeOK
    <3>2. QED
      BY <2>3, <2>4, <3>1
  <2>6. call' \in [Caller -> {NoCall} \cup Steps] /\ call'[c].at = "mkdir"
        /\ call'[c].key = k /\ call'[c].op = call[c].op /\ \A d \in Caller \ {c} : call'[d] = call[d]
    BY <1>5, <2>1 DEF Change, TypeOK, Steps
  <2>7. \A i \in DOMAIN writes : writes[i].caller # c /\ writes[i].caller \in Caller
                                 /\ writes[i].payload \in Registry
    BY <1>5, WritesTyped DEF Change
  <2>8. TypeOK'
    BY <1>5, <2>3, <2>6, <2>7 DEF TypeOK, Change
  <2>9. ChainOrdered'
    <3>1. Covers(memory', durable)
      BY <1>5, <2>3, <2>5, CoversTransitive DEF Change, ChainOrdered, TypeOK
    <3>2. \A i \in DOMAIN writes : Covers(memory', writes[i].payload)
      BY <2>3, <2>5, <2>7, CoversTransitive DEF ChainOrdered, TypeOK
    <3>3. QED
      BY <1>5, <3>1, <3>2 DEF Change, ChainOrdered, Covers
  <2>10. OwnChange'
    <3>1. ASSUME NEW d \in Caller, call'[d].at = "mkdir"
          PROVE  load' = "loaded" /\ Rank(memory'[call'[d].key]) >= Rank(Leaves(call'[d].op))
      <4>1. CASE d = c
        BY <1>5, <2>2, <2>3, <2>6, <4>1, Ranks DEF Change
      <4>2. CASE d # c
        <5>1. call'[d] = call[d] /\ call[d] \in Steps /\ call[d].key \in Key
          BY <2>6, <3>1, <4>2 DEF TypeOK, Steps, NoCall
        <5>2. Leaves(call[d].op) \in {"active", "revoked"}
          BY DEF Leaves
        <5>3. Rank(memory[call[d].key]) >= Rank(Leaves(call[d].op))
          BY <3>1, <5>1 DEF OwnChange
        <5>4. Rank(memory'[call[d].key]) >= Rank(memory[call[d].key])
          BY <2>5, <5>1 DEF Covers
        <5>5. Rank(memory'[call[d].key]) \in Nat /\ Rank(memory[call[d].key]) \in Nat
              /\ Rank(Leaves(call[d].op)) \in Nat
          BY <2>3, <5>1, <5>2, Ranks DEF TypeOK
        <5>6. Rank(memory'[call[d].key]) >= Rank(Leaves(call[d].op))
          BY <5>3, <5>4, <5>5
        <5>7. QED
          BY <1>5, <5>1, <5>6 DEF Change
      <4>3. QED
        BY <4>1, <4>2
    <3>2. QED
      BY <1>5, <2>6, <2>7, <3>1 DEF Change, OwnChange
  <2>11. QED
    BY <1>5, <2>8, <2>9, <2>10 DEF Change, FileIsDurable
<1>6. ASSUME NEW c \in Caller, Chain(c) PROVE IInv'
  <2> DEFINE new == [payload |-> memory, caller |-> c]
  <2>1. call[c] \in Steps /\ load = "loaded" /\ memory \in Registry
    BY <1>6 DEF Chain, TypeOK, OwnChange, Steps, NoCall
  <2>2. call' \in [Caller -> {NoCall} \cup Steps] /\ call'[c].at = "writing"
        /\ call'[c].key = call[c].key /\ call'[c].op = call[c].op
        /\ \A d \in Caller \ {c} : call'[d] = call[d]
    BY <1>6, <2>1 DEF Chain, Awaited, TypeOK, Steps
  <2>3. /\ writes' \in Seq(Waiting)
        /\ DOMAIN writes' = 1..(Len(writes) + 1) /\ DOMAIN writes = 1..Len(writes) /\ Len(writes) \in Nat
        /\ writes'[Len(writes) + 1] = new
        /\ \A i \in DOMAIN writes : writes'[i] = writes[i] /\ writes'[i].caller # c
                                    /\ writes'[i].caller \in Caller
    <3>1. writes \in Seq(Waiting) /\ Len(writes) \in Nat /\ DOMAIN writes = 1..Len(writes)
          /\ \A i \in DOMAIN writes : writes[i].caller # c /\ writes[i].caller \in Caller
      BY <1>6, WritesTyped DEF Chain
    <3>2. new \in Waiting
      BY <2>1 DEF Waiting
    <3>3. writes' = Append(writes, new)
      BY <1>6 DEF Chain
    <3>4. writes' \in Seq(Waiting) /\ Len(writes') = Len(writes) + 1
          /\ writes'[Len(writes) + 1] = new /\ \A i \in 1..Len(writes) : writes'[i] = writes[i]
      BY <3>1, <3>2, <3>3
    <3>5. DOMAIN writes' = 1..(Len(writes) + 1)
      BY <3>1, <3>4
    <3> HIDE DEF new
    <3>6. QED
      BY <3>1, <3>4, <3>5
  <2>4. UNCHANGED <<memory, load, disk, durable, promised, failed>>
    BY <1>6 DEF Chain
  <2>5. TypeOK'
    <3>1. \A i \in DOMAIN writes' : call'[writes'[i].caller].at = "writing"
      BY <2>2, <2>3, WritesTyped
    <3>2. QED
      BY <2>1, <2>2, <2>3, <2>4, <3>1 DEF TypeOK, Waiting
  <2>6. Covers(memory, durable) /\ Covers(memory, memory)
    BY <2>1, CoversItself DEF ChainOrdered
  <2>7. ChainOrdered'
    <3>1. \A i \in DOMAIN writes' : Covers(writes'[i].payload, durable) /\ Covers(memory, writes'[i].payload)
      BY <2>3, <2>6 DEF ChainOrdered
    <3>2. \A i, j \in DOMAIN writes' : i < j => Covers(writes'[j].payload, writes'[i].payload)
      BY <2>3, <2>6 DEF ChainOrdered
    <3>3. QED
      BY <2>4, <2>6, <3>1, <3>2 DEF ChainOrdered, Covers
  <2>8. OwnChange'
    <3>1. \A i \in DOMAIN writes' : LET own == call'[writes'[i].caller]
                                   IN  Rank(writes'[i].payload[own.key]) >= Rank(Leaves(own.op))
      <4> TAKE i \in DOMAIN writes'
      <4>1. CASE i = Len(writes) + 1
        BY <1>6, <2>2, <2>3, <4>1 DEF OwnChange, Chain
      <4>2. CASE i \in DOMAIN writes
        BY <2>2, <2>3, <4>2 DEF OwnChange
      <4>3. QED
        BY <2>3, <4>1, <4>2
    <3>2. \A i, j \in DOMAIN writes' : i # j => writes'[i].caller # writes'[j].caller
      BY <2>3 DEF OwnChange
    <3>3. QED
      BY <2>1, <2>2, <2>4, <3>1, <3>2 DEF OwnChange
  <2>9. QED
    BY <2>4, <2>5, <2>7, <2>8 DEF FileIsDurable
<1>7. CASE LoadRegistry
  <2>1. writes = << >> /\ UNCHANGED <<disk, writes, call, durable, failed, promised>>
        /\ load' \in {"loaded", "failed"}
    BY <1>7 DEF LoadRegistry, TypeOK
  <2>2. memory' \in Registry /\ (load' = "loaded" => memory' = durable)
    BY <1>7 DEF LoadRegistry, TypeOK, FileIsDurable, Loaded
  <2>3. \A c \in Caller : call[c].at # "mkdir"
    BY <1>7 DEF LoadRegistry, OwnChange
  <2>4. TypeOK'
    BY <2>1, <2>2 DEF TypeOK
  <2>5. load' = "loaded" => Covers(memory', durable)
    BY <2>2, CoversItself DEF TypeOK
  <2>6. Covers(durable, promised)'
    BY <2>1 DEF ChainOrdered, Covers
  <2>7. ChainOrdered' /\ OwnChange' /\ FileIsDurable'
    BY <2>1, <2>3, <2>5, <2>6 DEF ChainOrdered, OwnChange, FileIsDurable, Covers
  <2>8. QED
    BY <2>4, <2>7
<1>8. CASE Truncate
  BY <1>8 DEF Truncate, TypeOK, FileIsDurable, ChainOrdered, OwnChange, Covers
<1>9. CASE WriteDone
  <2> USE DEF WriteDone, Turn
  <2> DEFINE w == writes[1]
             done == call[w.caller]
  <2>1. 1 \in DOMAIN writes /\ w \in Waiting /\ w.payload \in Registry
        /\ w.caller \in Caller /\ done.at = "writing"
    BY <1>9, WithoutFirst, WritesTyped
  <2>2. disk' = w.payload /\ durable' = w.payload /\ writes' = Without(1) /\ Answer(w.caller)
        /\ UNCHANGED <<memory, load>> /\ writes # << >> /\ failed' \in BOOLEAN
    BY <1>9 DEF TypeOK
  <2>3. done \in Steps /\ done.key \in Key /\ done.op \in Operations
    BY <2>1 DEF TypeOK, Steps, NoCall, Operations
  <2>4. Covers(w.payload, durable) /\ Covers(memory, w.payload) /\ Covers(durable, promised)
    BY <2>1 DEF ChainOrdered
  <2>5. Covers(w.payload, promised)
    BY <2>1, <2>4, CoversTransitive DEF TypeOK
  <2>6. promised' \in Registry /\ Covers(w.payload, promised')
    <3>1. CASE done.op = "verify"
      BY <1>9, <2>5, <3>1 DEF TypeOK
    <3>2. CASE done.op # "verify"
      <4>1. promised' = [promised EXCEPT ![done.key] = Leaves(done.op)]
        BY <1>9, <3>2
      <4>2. Leaves(done.op) \in {"active", "revoked"}
        BY DEF Leaves
      <4>3. promised' \in Registry
        BY <2>3, <4>1, <4>2 DEF TypeOK, Registry
      <4>4. Rank(w.payload[done.key]) >= Rank(Leaves(done.op))
        BY <2>1 DEF OwnChange
      <4>5. Covers(w.payload, promised')
        BY <2>3, <2>5, <4>1, <4>4 DEF Covers, TypeOK, Registry
      <4>6. QED
        BY <4>3, <4>5
    <3>3. QED
      BY <3>1, <3>2
  <2>7. TypeOK'
    BY <2>1, <2>2, <2>6, FirstOver DEF TypeOK, Waiting
  <2>8. ChainOrdered'
    <3>1. Covers(durable, promised)' /\ Covers(memory, durable)'
      BY <2>2, <2>4, <2>6 DEF Covers
    <3>2. \A i \in DOMAIN writes' : Covers(writes'[i].payload, durable') /\ Covers(memory', writes'[i].payload)
      BY <2>2, FirstOver
    <3>3. \A i, j \in DOMAIN writes' : i < j => Covers(writes'[j].payload, writes'[i].payload)
      BY <2>2, FirstOver
    <3>4. QED
      BY <3>1, <3>2, <3>3 DEF ChainOrdered, Covers
  <2>9. FileIsDurable' /\ OwnChange'
    BY <2>2, FirstOver DEF FileIsDurable
  <2>10. QED
    BY <2>7, <2>8, <2>9
<1>10. CASE WriteFails
  <2>1. writes' = Without(1) /\ Answer(writes[1].caller) /\ writes # << >>
        /\ UNCHANGED <<memory, load, disk, durable, promised>> /\ failed' = TRUE
    BY <1>10 DEF WriteFails, Turn
  <2>2. TypeOK'
    BY <2>1, FirstOver DEF TypeOK, Waiting
  <2>3. ChainOrdered'
    <3>1. \A i \in DOMAIN writes' : Covers(writes'[i].payload, durable) /\ Covers(memory, writes'[i].payload)
      BY <2>1, FirstOver
    <3>2. \A i, j \in DOMAIN writes' : i < j => Covers(writes'[j].payload, writes'[i].payload)
      BY <2>1, FirstOver
    <3>3. QED
      BY <2>1, <3>1, <3>2 DEF ChainOrdered, Covers
  <2>4. FileIsDurable' /\ OwnChange'
    BY <2>1, FirstOver DEF FileIsDurable
  <2>5. QED
    BY <2>2, <2>3, <2>4
<1>11. CASE Crash
  <2>1. Empty \in Registry
    BY DEF Empty, Registry
  <2>2. writes' \in Seq([payload : Registry, caller : Caller]) /\ DOMAIN writes' = {}
    BY <1>11 DEF Crash
  <2>3. TypeOK'
    BY <1>11, <2>1, <2>2 DEF Crash, TypeOK
  <2>4. QED
    BY <1>11, <2>2, <2>3 DEF Crash, FileIsDurable, ChainOrdered, OwnChange, NoCall, Covers
<1>12. QED
  BY <1>1, <1>2, <1>3, <1>4, <1>5, <1>6, <1>7, <1>8, <1>9, <1>10, <1>11 DEF Next

(* The strengthened invariant holds in every behaviour of the registry     *)
(* (auth-controller.js), for any keys and callers.                         *)
THEOREM InvariantHolds == Spec => []IInv
BY InitIsIInv, NextKeepsIInv, PTL DEF Spec

(* The registry, the file, the chain of writes and the requests keep their *)
(* shapes.                                                                 *)
THEOREM RegistryTypeCorrect == Spec => []TypeOK
BY InvariantHolds, PTL DEF IInv

(* No answered creation or revocation is ever undone, by a write, a        *)
(* failure or a restart.                                                   *)
THEOREM AnswersAlwaysSurvive == Spec => []AnswersSurvive
<1>1. IInv => AnswersSurvive
  BY CoversTransitive DEF IInv, ChainOrdered, TypeOK, AnswersSurvive, Covers
<1>2. QED
  BY <1>1, InvariantHolds, PTL

(* Each complete write of the file holds all that the one before it held.  *)
THEOREM DiskIsMonotone == Spec => DiskNeverGoesBack
<1>1. IInv /\ [Next]_vars => [\A k \in Key : Rank(durable'[k]) >= Rank(durable[k])]_vars
  <2> SUFFICES ASSUME IInv, Next PROVE Covers(durable', durable)
    BY DEF Covers
  <2> USE DEF IInv
  <2>1. CASE WriteDone
    <3>1. 1 \in DOMAIN writes
      BY <2>1, WithoutFirst DEF WriteDone
    <3>2. QED
      BY <2>1, <3>1 DEF WriteDone, Turn, ChainOrdered
  <2>2. CASE ~WriteDone
    <3>1. durable' = durable
      BY <2>2 DEF Next, Begin, AnswerAtOnce, Change, Chain, MkdirFails, LoadRegistry, Truncate,
                  WriteFails, Crash
    <3>2. QED
      BY <3>1, CoversItself DEF TypeOK
  <2>3. QED
    BY <2>1, <2>2
<1>2. QED
  BY <1>1, InvariantHolds, PTL DEF Spec, DiskNeverGoesBack

-----------------------------------------------------------------------------
(* The file catches up.                                                    *)

(* Unless a change is still to be written or was not written, the last     *)
(* write of the chain, or the file when there is none, holds what memory   *)
(* holds.                                                                  *)
Settled ==
    load = "loaded" /\ ~failed /\ (\A c \in Caller : call[c].at # "mkdir") =>
        IF writes = << >> THEN disk = memory ELSE writes[Len(writes)].payload = memory

LEMMA CoversBothWays ==
  ASSUME NEW r \in Registry, NEW s \in Registry, Covers(r, s), Covers(s, r)
  PROVE  r = s
<1>1. ASSUME NEW k \in Key PROVE r[k] = s[k]
  <2>1. r[k] \in {"absent", "active", "revoked"} /\ s[k] \in {"absent", "active", "revoked"}
    BY DEF Registry
  <2>2. Rank(r[k]) >= Rank(s[k]) /\ Rank(s[k]) >= Rank(r[k])
    BY DEF Covers
  <2>3. QED
    BY <2>1, <2>2, Ranks
<1>2. QED
  BY <1>1 DEF Registry

(* A step of a call that leaves registries and chain alone, and ends no    *)
(* wait for mkdir but by noting a failure.                                 *)
LEMMA CallsKeepSettled ==
  ASSUME Settled, TypeOK, UNCHANGED <<memory, load, disk, writes>>,
         NEW c \in Caller, NEW new, call' = [call EXCEPT ![c] = new],
         failed' \/ (UNCHANGED failed /\ call[c].at # "mkdir")
  PROVE  Settled'
BY DEF Settled, TypeOK

LEMMA NextKeepsSettled ==
  ASSUME IInv, Settled, [Next]_vars
  PROVE  Settled'
<1> USE DEF IInv
<1>0. /\ writes \in Seq(Waiting) /\ Len(writes) \in Nat /\ DOMAIN writes = 1..Len(writes)
      /\ writes # << >> => Len(writes) \in DOMAIN writes
      /\ \A i \in DOMAIN writes : writes[i].payload \in Registry
  BY WritesTyped, EmptySeq
<1>1. CASE UNCHANGED vars
  BY <1>1 DEF vars, Settled
<1>2. ASSUME NEW c \in Caller, Begin(c) PROVE Settled'
  <2>1. PICK op \in Operations, k \in Key :
          call' = [call EXCEPT ![c] = [at |-> "loading", op |-> op, key |-> k]]
    BY <1>2 DEF Begin, Operations
  <2>2. QED
    BY <1>2, <2>1, CallsKeepSettled DEF Begin
<1>3. ASSUME NEW c \in Caller, AnswerAtOnce(c) PROVE Settled'
  BY <1>3, CallsKeepSettled DEF AnswerAtOnce, Answer
<1>4. ASSUME NEW c \in Caller, MkdirFails(c) PROVE Settled'
  BY <1>4, CallsKeepSettled DEF MkdirFails, Answer
<1>5. ASSUME NEW c \in Caller, Change(c) PROVE Settled'
  <2>1. call'[c].at = "mkdir"
    BY <1>5 DEF Change, TypeOK, Steps, NoCall
  <2>2. QED
    BY <2>1 DEF Settled
<1>6. ASSUME NEW c \in Caller, Chain(c) PROVE Settled'
  <2> DEFINE new == [payload |-> memory, caller |-> c]
  <2>1. writes' = Append(writes, new) /\ UNCHANGED <<memory, load, failed>> /\ new \in Waiting
    BY <1>6 DEF Chain, Waiting, TypeOK
  <2>2. writes' \in Seq(Waiting) /\ Len(writes') = Len(writes) + 1 /\ writes'[Len(writes')] = new
    BY <1>0, <2>1
  <2>3. writes' # << >>
    BY <1>0, <2>2
  <2>4. QED
    BY <2>1, <2>2, <2>3 DEF Settled
<1>7. CASE LoadRegistry
  <2>1. writes' = << >> /\ (load' = "loaded" => disk' = memory')
    BY <1>7 DEF LoadRegistry, TypeOK, Loaded
  <2>2. QED
    BY <2>1 DEF Settled
<1>8. CASE Truncate
  BY <1>8 DEF Truncate, Settled
<1>9. CASE WriteDone
  <2>1. /\ writes # << >> /\ writes' = Without(1) /\ disk' = writes[1].payload
        /\ UNCHANGED <<memory, load>> /\ failed' = (failed /\ writes[1].payload # memory)
        /\ Answer(writes[1].caller)
    BY <1>9 DEF WriteDone, Turn
  <2>2. /\ 1 \in DOMAIN writes /\ Len(writes') = Len(writes) - 1
        /\ \A j \in 1..(Len(writes) - 1) : writes'[j] = writes[j + 1] /\ j + 1 \in DOMAIN writes
    BY <2>1, WithoutFirst
  <2>3. SUFFICES ASSUME load = "loaded", ~failed', \A c \in Caller : call'[c].at # "mkdir"
                 PROVE  IF writes' = << >> THEN disk' = memory
                        ELSE writes'[Len(writes')].payload = memory
    BY <2>1 DEF Settled
  <2>4. writes[Len(writes)].payload = memory
    <3>1. CASE failed
      <4>1. writes[1].payload = memory /\ memory \in Registry
        BY <2>1, <2>3, <3>1 DEF TypeOK
      <4>2. Covers(memory, writes[Len(writes)].payload)
        BY <1>0, <2>1 DEF ChainOrdered
      <4>3. CASE Len(writes) = 1
        BY <4>1, <4>3
      <4>4. CASE Len(writes) # 1
        <5>1. 1 < Len(writes)
          BY <1>0, <2>1, <2>2, <4>4
        <5>2. Covers(writes[Len(writes)].payload, memory)
          BY <1>0, <2>1, <2>2, <4>1, <5>1 DEF ChainOrdered
        <5>3. QED
          BY <1>0, <2>1, <4>1, <4>2, <5>2, CoversBothWays
      <4>5. QED
        BY <4>3, <4>4
    <3>2. CASE ~failed
      <4>1. ASSUME NEW c \in Caller PROVE call[c].at # "mkdir"
        <5>1. call[writes[1].caller].at = "writing" /\ writes[1].caller \in Caller
          BY <2>2, WritesTyped
        <5>2. QED
          BY <2>1, <2>3, <5>1 DEF Answer, TypeOK
      <4>2. QED
        BY <2>1, <2>3, <3>2, <4>1 DEF Settled
    <3>3. QED
      BY <3>1, <3>2
  <2>5. CASE Len(writes) = 1
    <3>1. writes' = << >>
      BY <1>0, <2>1, <2>2, <2>5, WithoutFirst, EmptySeq
    <3>2. QED
      BY <2>1, <2>4, <2>5, <3>1
  <2>6. CASE Len(writes) # 1
    <3>1. Len(writes') \in 1..(Len(writes) - 1) /\ Len(writes') + 1 = Len(writes)
      <4>1. Len(writes) \in Nat /\ 1 \in 1..Len(writes) /\ Len(writes') = Len(writes) - 1
        BY <1>0, <2>2
      <4>2. QED
        BY <2>6, <4>1
    <3>2. writes'[Len(writes')] = writes[Len(writes)] /\ writes' # << >>
      BY <2>2, <3>1
    <3>3. QED
      BY <2>4, <3>2
  <2>7. QED
    BY <2>5, <2>6
<1>10. CASE WriteFails
  BY <1>10 DEF WriteFails, Settled
<1>11. CASE Crash
  BY <1>11 DEF Crash, Settled
<1>12. QED
  BY <1>1, <1>2, <1>3, <1>4, <1>5, <1>6, <1>7, <1>8, <1>9, <1>10, <1>11 DEF Next

(* When no request is under way, the file holds what the memory holds,     *)
(* unless a write has failed since (persistRegistry of auth-controller.js).*)
THEOREM QuietRegistryIsOnDisk == Spec => []QuietFileAgrees
<1>1. Init => Settled
  BY DEF Init, Settled
<1>2. IInv /\ Settled /\ [Next]_vars => Settled'
  BY NextKeepsSettled
<1>3. IInv /\ Settled => QuietFileAgrees
  <2> SUFFICES ASSUME IInv, load = "loaded", ~failed, Settled,
                      \A c \in Caller : call[c].at \in {"idle", "loading"}
               PROVE  disk = memory
    BY DEF QuietFileAgrees
  <2>1. writes = << >>
    <3>1. SUFFICES ASSUME writes # << >> PROVE FALSE
      OBVIOUS
    <3>2. 1 \in DOMAIN writes
      BY <3>1, WithoutFirst DEF IInv
    <3>3. QED
      BY <3>2, WritesTyped DEF IInv
  <2>2. QED
    BY <2>1 DEF Settled
<1>4. QED
  BY <1>1, <1>2, <1>3, InvariantHolds, PTL DEF Spec
=============================================================================
