---------------------------- MODULE KeyRegistry ----------------------------
(***************************************************************************)
(* The managed API keys of auth-controller.js: a registry in memory that   *)
(* is loaded once, changed at once by every call, and written whole to one *)
(* file by writes that are chained one behind the other.  A write          *)
(* truncates the file first: when it fails, or the process ends, half way, *)
(* the file is torn, and a torn file cannot be loaded.                     *)
(*                                                                         *)
(* Steps are cut at the awaits: a call waits for the registry to be        *)
(* loaded, for mkdir, and for its own write.  Labels, salts and the time a *)
(* key was used are left out: whether a use is old enough to be written is *)
(* a choice.                                                               *)
(***************************************************************************)
EXTENDS Naturals, Sequences

CONSTANTS Key,     \* the keys that may be created
          Caller,  \* the requests the server handles at a time
          Torn     \* the file's content after a write that did not finish

VARIABLES
  memory,    \* memory[k]: "absent", "active" or "revoked"
  load,      \* registryLoadPromise: "none", "loaded" or "failed"
  disk,      \* what registryPath holds: a registry, or Torn
  writes,    \* the chain behind registryWritePromise: [payload, caller]
  call,      \* call[c]: what request c does and where it stands
  durable,   \* the last registry that was written completely
  failed,    \* a write failed, and none has written what memory holds since
  promised   \* promised[k]: the last state of k that an answered call wrote

vars == <<memory, load, disk, writes, call, durable, failed, promised>>

Registry == [Key -> {"absent", "active", "revoked"}]
Empty == [k \in Key |-> "absent"]

ASSUME KeyRegistryAssumption == Torn \notin Registry

Rank(state) == CASE state = "absent" -> 0 [] state = "active" -> 1 [] state = "revoked" -> 2

NoCall == [at |-> "idle"]
Steps == [at : {"loading", "mkdir", "writing"}, op : {"create", "revoke", "verify"}, key : Key]

Init == /\ memory = Empty
        /\ load = "none"
        /\ disk = Empty        \* no file yet: ENOENT is an empty registry
        /\ writes = << >>
        /\ call = [c \in Caller |-> NoCall]
        /\ durable = Empty
        /\ failed = FALSE
        /\ promised = Empty

-----------------------------------------------------------------------------
(* A key's id is made of random bytes: no key has it yet.                  *)
Fresh(k) == /\ memory[k] = "absent" /\ durable[k] = "absent"
            /\ \A c \in Caller : call[c].at # "idle" => call[c].op # "create" \/ call[c].key # k

(* A request arrives and awaits loadRegistry.                              *)
Begin(c) ==
    /\ call[c].at = "idle"
    /\ \E op \in {"create", "revoke", "verify"}, k \in Key :
          /\ op = "create" => Fresh(k)
          /\ call' = [call EXCEPT ![c] = [at |-> "loading", op |-> op, key |-> k]]
    /\ UNCHANGED <<memory, load, disk, writes, durable, failed, promised>>

(* Mutant: a file that cannot be parsed is taken for an empty registry.    *)
LoadedForgiving == IF disk = Torn THEN Empty ELSE disk

(* What is parsed of the file: nothing of one that is torn.                *)
Loaded == disk

(* The first of them reads the file; whatever comes of it is kept, and an  *)
(* error is every later caller's error.                                    *)
LoadRegistry ==
    /\ load = "none"
    /\ \E c \in Caller : call[c].at = "loading"
    /\ \/ load' = "failed" /\ memory' = memory
       \/ Loaded # Torn /\ load' = "loaded" /\ memory' = Loaded
    /\ UNCHANGED <<disk, writes, call, durable, failed, promised>>

Answer(c) == call' = [call EXCEPT ![c] = NoCall]

(* The registry could not be loaded, the key is not there or is revoked,   *)
(* or it was noted as used less than a minute ago: nothing is written.     *)
AnswerAtOnce(c) ==
    /\ call[c].at = "loading"
    /\ \/ load = "failed"
       \/ load = "loaded" /\ call[c].op = "revoke" /\ memory[call[c].key] # "active"
       \/ load = "loaded" /\ call[c].op = "verify"
    /\ Answer(c)
    /\ UNCHANGED <<memory, load, disk, writes, durable, failed, promised>>

(* What a call needs to find, and what it leaves.                          *)
Finds(op) == IF op = "create" THEN "absent" ELSE "active"
Leaves(op) == IF op = "revoke" THEN "revoked" ELSE "active"

(* The registry in memory is changed, or a use is noted, and the call goes *)
(* on to persistRegistry, which awaits mkdir.                              *)
Change(c) ==
    /\ call[c].at = "loading" /\ load = "loaded"
    /\ memory[call[c].key] = Finds(call[c].op)
    /\ memory' = [memory EXCEPT ![call[c].key] = Leaves(call[c].op)]
    /\ call' = [call EXCEPT ![c].at = "mkdir"]
    /\ UNCHANGED <<load, disk, writes, durable, failed, promised>>

(* Mutant: nobody waits for the write.                                     *)
NotAwaited(c) == [call EXCEPT ![c] = NoCall]

(* The call waits for its own write.                                       *)
Awaited(c) == [call EXCEPT ![c].at = "writing"]

(* mkdir is done: the payload is made of the registry as it is now, and    *)
(* its write is chained behind the others.                                 *)
Chain(c) ==
    /\ call[c].at = "mkdir"
    /\ writes' = Append(writes, [payload |-> memory, caller |-> c])
    /\ call' = Awaited(c)
    /\ UNCHANGED <<memory, load, disk, durable, failed, promised>>

(* mkdir failed: the call is answered with the error, the change stays.    *)
MkdirFails(c) ==
    /\ call[c].at = "mkdir"
    /\ Answer(c)
    /\ failed' = TRUE
    /\ UNCHANGED <<memory, load, disk, writes, durable, promised>>

(* Mutant: the writes are started at once, not one behind the other.       *)
LastWrite == Len(writes)

(* The write whose turn it is: all others wait for it.                     *)
Turn == 1

(* writeFile opens the file: its old content is gone.                      *)
Truncate ==
    /\ writes # << >> /\ disk # Torn
    /\ disk' = Torn
    /\ UNCHANGED <<memory, load, writes, call, durable, failed, promised>>

Without(i) == SubSeq(writes, 1, i - 1) \o SubSeq(writes, i + 1, Len(writes))

(* The write is complete and its call is answered.                         *)
WriteDone ==
    /\ writes # << >> /\ disk = Torn
    /\ LET w == writes[Turn]
           done == call[w.caller]
       IN  /\ disk' = w.payload
           /\ durable' = w.payload
           /\ promised' = IF done.op = "verify" THEN promised
                          ELSE [promised EXCEPT ![done.key] = Leaves(done.op)]
           /\ failed' = (failed /\ w.payload # memory)
           /\ Answer(w.caller)
    /\ writes' = Without(Turn)
    /\ UNCHANGED <<memory, load>>

(* The write fails, before it opened the file or after: its call is        *)
(* answered with the error, and the next one of the chain still runs.      *)
WriteFails ==
    /\ writes # << >>
    /\ Answer(writes[Turn].caller)
    /\ writes' = Without(Turn)
    /\ failed' = TRUE
    /\ UNCHANGED <<memory, load, disk, durable, promised>>

(* The process ends: what was in memory and in flight is gone.             *)
Crash ==
    /\ memory' = Empty
    /\ load' = "none"
    /\ writes' = << >>
    /\ call' = [c \in Caller |-> NoCall]
    /\ failed' = FALSE
    /\ UNCHANGED <<disk, durable, promised>>

Next == \/ \E c \in Caller : Begin(c) \/ AnswerAtOnce(c) \/ Change(c) \/ Chain(c) \/ MkdirFails(c)
        \/ LoadRegistry \/ Truncate \/ WriteDone \/ WriteFails \/ Crash

Spec == Init /\ [][Next]_vars

-----------------------------------------------------------------------------
(* Every variable keeps its shape; a write in the chain is the write of a  *)
(* call that waits for it, and only a loaded registry is ever written.     *)
TypeOK ==
    /\ memory \in Registry /\ durable \in Registry /\ promised \in Registry
    /\ load \in {"none", "loaded", "failed"}
    /\ disk \in Registry \cup {Torn}
    /\ writes \in Seq([payload : Registry, caller : Caller])
    /\ call \in [Caller -> {NoCall} \cup Steps]
    /\ failed \in BOOLEAN
    /\ \A i \in DOMAIN writes : call[writes[i].caller].at = "writing"
    /\ load # "loaded" => writes = << >>

(* A created key that was handed out, and a revocation that its own write  *)
(* answered, hold in every registry the server ever works with again,      *)
(* whatever writes fail and wherever the process is killed: a registry     *)
(* that cannot be read is refused, never replaced by an older one.  (A     *)
(* second revocation of a key is answered without a write: nothing is      *)
(* promised by it.)                                                        *)
AnswersSurvive ==
    load = "loaded" => \A k \in Key : Rank(memory[k]) >= Rank(promised[k])

(* No write puts the file back: each complete one holds every key and      *)
(* every revocation of the complete one before it, though the requests     *)
(* change the registry and serialise it in any order.                      *)
DiskNeverGoesBack ==
    [][\A k \in Key : Rank(durable'[k]) >= Rank(durable[k])]_vars

(* Between requests the file and the memory agree, unless a write failed   *)
(* and no later one has made up for it: no change stays behind because     *)
(* another call's payload was made before it.                              *)
QuietFileAgrees ==
    load = "loaded" /\ ~failed /\ (\A c \in Caller : call[c].at \in {"idle", "loading"})
        => disk = memory
=============================================================================
