------------------------------ MODULE FileData ------------------------------
(***************************************************************************)
(* The contents and size of one regular file (Driver::write, Driver::read, *)
(* Driver::setattr, and the update_stats Driver::rename writes for the     *)
(* inode it moves).                                                        *)
(*                                                                         *)
(* write and setattr hold inode(ino) exclusively, read holds it shared,    *)
(* and rename does not lock the inode it moves: it reads the inode in its  *)
(* snapshot and writes every stats register back, size included, when it  *)
(* commits.  Pages are registers page/<ino>/<index> written by PageWriter; *)
(* only which byte positions hold written bytes matters here, so a page    *)
(* is abstracted to the positions it covers.  The kernel sends a read at   *)
(* an offset below the size it last saw (attributes have a zero TTL).      *)
(***************************************************************************)
EXTENDS Integers, FiniteSets

CONSTANTS
  Slots,      \* concurrent requests on the file
  MaxPos,     \* byte positions 0..MaxPos-1 (several per page in the code)
  MaxLen,     \* longest write or read the kernel sends
  Locks,      \* Config.locks
  Workload    \* the request kinds the kernel sends

ASSUME MaxPos \in Nat \ {0} /\ MaxLen \in 1..MaxPos /\ Locks \in BOOLEAN
ASSUME Workload \subseteq {"write", "setattr", "read", "rename"}

Pos == 0..(MaxPos - 1)
NoSize == -1    \* setattr without a size: update!(inode.size, None)

VARIABLES
  size,      \* the size register of inode/<ino>
  pages,     \* positions whose page register holds written bytes
  written,   \* the bytes the file holds by POSIX: written, not truncated since
  task       \* [Slots -> request]

vars == <<size, pages, written, task>>

Idle == [op |-> "idle", pc |-> "lock", off |-> 0, len |-> 0, n |-> NoSize,
         snap |-> 0, res |-> 0, reply |-> {}]

Range(off, len) == off..(off + len - 1)

(* (offset + len).saturating_sub(inode.size) *)
SaturatingSub(x, y) == IF x > y THEN x - y ELSE 0

(* Lock sets of the transaction! macro for this inode's key.               *)
ExclusiveKey(t) == Locks /\ t.op \in {"write", "setattr"}
SharedKey(t) == Locks /\ t.op = "read"

Running == {s \in Slots : task[s].pc = "run"}

LockFree(s) ==
  \A o \in Running :
    /\ ExclusiveKey(task[s]) => ~(ExclusiveKey(task[o]) \/ SharedKey(task[o]))
    /\ SharedKey(task[s]) => ~ExclusiveKey(task[o])

Init ==
  /\ size = 0
  /\ pages = {}
  /\ written = {}
  /\ task = [s \in Slots |-> Idle]

-----------------------------------------------------------------------------
(* fs.rs write, setattr, read, rename: the request the kernel sends.      *)
Issue(s) ==
  /\ task[s].op = "idle"
  /\ \/ "write" \in Workload /\
          \E off \in Pos, len \in 1..MaxLen :
            /\ off + len <= MaxPos
            /\ task' = [task EXCEPT ![s] = [Idle EXCEPT !.op = "write",
                                               !.off = off, !.len = len]]
     \/ "setattr" \in Workload /\
          \E n \in {NoSize} \cup 0..MaxPos :
            task' = [task EXCEPT ![s] = [Idle EXCEPT !.op = "setattr", !.n = n]]
     \/ "read" \in Workload /\
          \E off \in 0..(size - 1), len \in 1..MaxLen :
            task' = [task EXCEPT ![s] = [Idle EXCEPT !.op = "read",
                                               !.off = off, !.len = len]]
     \/ "rename" \in Workload /\
          task' = [task EXCEPT ![s] = [Idle EXCEPT !.op = "rename"]]
  /\ UNCHANGED <<size, pages, written>>

Begin(s) ==
  /\ task[s].op # "idle"
  /\ task[s].pc = "lock"
  /\ LockFree(s)
  /\ LET t == task[s]
         end == IF size < t.off + t.len THEN size ELSE t.off + t.len
     IN task' = [task EXCEPT ![s].pc = "run", ![s].snap = size,
                             ![s].res = end - t.off,
                             ![s].reply = t.off..(end - 1)]
  /\ UNCHANGED <<size, pages, written>>

(* Driver::write: pages.write, then size += wrote_above_size.             *)
WriteCommit(s) ==
  /\ size' = task[s].snap
             + SaturatingSub(task[s].off + task[s].len, task[s].snap)
  /\ pages' = pages \cup Range(task[s].off, task[s].len)
  /\ written' = written \cup Range(task[s].off, task[s].len)

(* Driver::setattr: update!(inode.size, size), then update_stats.  Pages *)
(* past a smaller size are left as they are.                              *)
SetattrCommit(s) ==
  /\ size' = IF task[s].n = NoSize THEN task[s].snap ELSE task[s].n
  /\ written' = IF task[s].n = NoSize THEN written
                ELSE {p \in written : p < task[s].n}
  /\ UNCHANGED pages

(* Driver::rename: inode::update_stats(&inode) of the moved inode, from   *)
(* the snapshot.                                                           *)
RenameCommit(s) ==
  /\ size' = task[s].snap
  /\ UNCHANGED <<pages, written>>

(* tx.commit(); read changes nothing.                                     *)
Commit(s) ==
  /\ task[s].pc = "run"
  /\ \/ task[s].op = "write" /\ WriteCommit(s)
     \/ task[s].op = "setattr" /\ SetattrCommit(s)
     \/ task[s].op = "rename" /\ RenameCommit(s)
     \/ task[s].op = "read" /\ UNCHANGED <<size, pages, written>>
  /\ task' = [task EXCEPT ![s] = Idle]

Next == \E s \in Slots : Issue(s) \/ Begin(s) \/ Commit(s)

Spec == Init /\ [][Next]_vars

-----------------------------------------------------------------------------
TypeOK ==
  /\ size \in 0..MaxPos
  /\ pages \subseteq Pos /\ written \subseteq Pos
  /\ \A s \in Slots : task[s].op \in {"idle", "write", "setattr", "read", "rename"}
                      /\ task[s].pc \in {"lock", "run"}
                      /\ task[s].reply \subseteq Pos

(* Every byte written and not truncated away since lies below the size,   *)
(* so a read returns it (spec 4.5 write: size = max(size, offset+len)).    *)
(* write and setattr lock the inode, but Driver::rename writes the stats   *)
(* of the inode it moves, size included, from its unlocked snapshot: a     *)
(* write extending the file that commits between the rename's read and    *)
(* its commit is undone in the size register.                              *)
WrittenBytesWithinSize == \A p \in written : p < size

(* Driver::read never computes a negative length (`end - offset` on u64  *)
(* panics in a debug build and asks Vec::with_capacity for about 2^64     *)
(* bytes in a release build): the offset the kernel sent is never past    *)
(* the size the read sees, even when a truncation commits in between.     *)
ReadNeverUnderflows ==
  \A s \in Slots : task[s].op = "read" /\ task[s].pc = "run" => task[s].res >= 0

====
