---------------------------- MODULE InoGenerator ----------------------------
(***************************************************************************)
(* Inode number allocation (Driver::next_ino, Driver::load_ino_counter and *)
(* the InoGenerator of driver/ino.rs) across crashes of the process.       *)
(*                                                                         *)
(* next_ino takes the next value of the in-memory generator and spawns a  *)
(* fire-and-forget checkpoint task; the creating request (mkdir, mknod,   *)
(* symlink) goes on to commit its own transaction without waiting for it. *)
(* A checkpoint acquires the counter key inos/<view> (exclusively when    *)
(* locks are on), writes the generator's current value and commits.  A   *)
(* crash loses the generator and every task; Driver::new then reloads the *)
(* generator from the persisted value.                                     *)
(***************************************************************************)
EXTENDS Integers, Bags

CONSTANTS
  MaxIno,      \* next_ino is not called once the generator passes MaxIno
  Clients,     \* requests that allocate an inode number concurrently
  Locks,       \* Config.locks
  MaxCrashes   \* bound on process crashes

ASSUME MaxIno \in Nat /\ MaxIno >= 2
ASSUME Locks \in BOOLEAN
ASSUME MaxCrashes \in Nat

ROOT_INO == 1
Down == 0     \* the generator while the process is down

VARIABLES
  counter,    \* in-memory generator: the next number next() returns
  persisted,  \* backend register inos/<view> (0 when never written)
  waiting,    \* spawned checkpoint tasks not yet holding the counter key
  running,    \* bag of values read by checkpoint transactions not committed
  inflight,   \* [Clients -> ino]: number allocated by a request, 0 if none
  used,       \* inode numbers whose creating transaction has committed
  crashes     \* crashes so far

vars == <<counter, persisted, waiting, running, inflight, used, crashes>>

Up == counter # Down

(* InoGenerator::load: start at max(persisted, ROOT_INO + 1).  Mutant:    *)
(* resume one past the persisted value.                                    *)
LoadPastPersisted(p) == IF p + 1 > ROOT_INO + 1 THEN p + 1 ELSE ROOT_INO + 1

Load(p) == IF p > ROOT_INO + 1 THEN p ELSE ROOT_INO + 1

Init ==
  /\ counter = Load(0)
  /\ persisted = 0
  /\ waiting = 0
  /\ running = EmptyBag
  /\ inflight = [c \in Clients |-> 0]
  /\ used = {}
  /\ crashes = 0

(* Driver::next_ino: atomic next(), then task::spawn(checkpoint(..)).     *)
NextIno(c) ==
  /\ Up
  /\ inflight[c] = 0
  /\ counter <= MaxIno
  /\ inflight' = [inflight EXCEPT ![c] = counter]
  /\ counter' = counter + 1
  /\ waiting' = waiting + 1
  /\ UNCHANGED <<persisted, running, used, crashes>>

(* The creating request commits inode::create of its number ...           *)
CreateCommit(c) ==
  /\ inflight[c] # 0
  /\ used' = used \cup {inflight[c]}
  /\ inflight' = [inflight EXCEPT ![c] = 0]
  /\ UNCHANGED <<counter, persisted, waiting, running, crashes>>

(* ... or aborts (ENOENT, EEXIST) and the number is burned.               *)
CreateAbort(c) ==
  /\ inflight[c] # 0
  /\ inflight' = [inflight EXCEPT ![c] = 0]
  /\ UNCHANGED <<counter, persisted, waiting, running, used, crashes>>

(* Mutant of CheckpointBegin: the transaction takes no lock.              *)
CheckpointBeginUnlocked ==
  /\ Up
  /\ waiting > 0
  /\ waiting' = waiting - 1
  /\ running' = running (+) SetToBag({counter})
  /\ UNCHANGED <<counter, persisted, inflight, used, crashes>>

(* checkpoint: the transaction on inos/<view> begins and                  *)
(* counter.checkpoint(&mut tx) reads the generator and issues the write.  *)
CheckpointBegin ==
  /\ Up
  /\ waiting > 0
  /\ Locks => BagCardinality(running) = 0
  /\ waiting' = waiting - 1
  /\ running' = running (+) SetToBag({counter})
  /\ UNCHANGED <<counter, persisted, inflight, used, crashes>>

(* tx.commit() of a checkpoint.                                           *)
CheckpointCommit ==
  /\ \E v \in BagToSet(running) :
       /\ persisted' = v
       /\ running' = running (-) SetToBag({v})
  /\ UNCHANGED <<counter, waiting, inflight, used, crashes>>

(* A checkpoint whose update or commit fails: tx.abort(), error dropped.  *)
CheckpointFail ==
  /\ \E v \in BagToSet(running) : running' = running (-) SetToBag({v})
  /\ UNCHANGED <<counter, persisted, waiting, inflight, used, crashes>>

(* The process dies: uncommitted transactions abort and every task dies.  *)
Crash ==
  /\ Up
  /\ crashes < MaxCrashes
  /\ crashes' = crashes + 1
  /\ counter' = Down
  /\ waiting' = 0
  /\ running' = EmptyBag
  /\ inflight' = [c \in Clients |-> 0]
  /\ UNCHANGED <<persisted, used>>

(* Driver::new: load_ino_counter reads inos/<view> under its lock.        *)
Restart ==
  /\ ~Up
  /\ counter' = Load(persisted)
  /\ UNCHANGED <<persisted, waiting, running, inflight, used, crashes>>

Next ==
  \/ \E c \in Clients : NextIno(c) \/ CreateCommit(c) \/ CreateAbort(c)
  \/ CheckpointBegin \/ CheckpointCommit \/ CheckpointFail
  \/ Crash \/ Restart

Spec == Init /\ [][Next]_vars

-----------------------------------------------------------------------------
TypeOK ==
  /\ counter \in {Down} \cup (ROOT_INO + 1)..(MaxIno + 1)
  /\ persisted \in 0..(MaxIno + 1)
  /\ waiting \in Nat
  /\ IsABag(running) /\ BagToSet(running) \subseteq (ROOT_INO + 1)..(MaxIno + 1)
  /\ inflight \in [Clients -> 0..MaxIno]
  /\ used \subseteq (ROOT_INO + 1)..MaxIno
  /\ crashes \in 0..MaxCrashes

(* The persisted high-water mark never moves backwards: checkpoints run    *)
(* concurrently, each writing the value it read, and a restart resumes     *)
(* from whatever the last committed one wrote (spec 5: concurrent          *)
(* checkpoints never regress the persisted value).                         *)
PersistedNeverRegresses == [][persisted' >= persisted]_vars

(* next_ino never hands out a number an earlier creation already          *)
(* committed, across crashes (spec 2: a restart never reuses an inode     *)
(* number).                                                                *)
NoCommittedInoReused ==
  [][\A c \in Clients : inflight'[c] # inflight[c] /\ inflight'[c] # 0
        => inflight'[c] \notin used]_vars

====
