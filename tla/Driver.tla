------------------------------- MODULE Driver -------------------------------
(***************************************************************************)
(* The elmerfs driver (src/driver.rs): every namespace operation runs as   *)
(* one backend transaction on a pooled connection.  A transaction declares *)
(* a lock set when it begins, reads at its snapshot, computes an update    *)
(* vector from what it read, and applies that vector atomically when it    *)
(* commits.  Between its begin and its commit other transactions that do  *)
(* not conflict on a lock run freely, so what an operation read from a key *)
(* it did not lock may be stale when its updates land.                     *)
(*                                                                         *)
(* A task is modelled in three steps, one per suspension point that        *)
(* matters: acquire a connection (pool.acquire), begin the transaction     *)
(* with its locks and take the snapshot (every read of the operation is    *)
(* evaluated here and turned into the update vector), and commit (the      *)
(* update vector is folded into the store; unlink/rmdir then spawn the     *)
(* deferred deleter).  A validation failure is a task whose update vector  *)
(* is empty: it still holds its locks until it aborts.                     *)
(***************************************************************************)
EXTENDS Integers, FiniteSets, Sequences, SequencesExt

CONSTANTS
  MaxIno,          \* inode numbers 1..MaxIno exist; next_ino stops at MaxIno
  Names,           \* entry names a request may carry (model values)
  Dot,             \* the "." entry dir::create seeds (model value)
  Slots,           \* concurrent tasks: kernel requests and deferred deleters
  MaxConnections,  \* ConnectionPool capacity (MAX_CONNECTIONS)
  Locks,           \* Config.locks: FALSE strips every lock set
  MaxSize,         \* requests that grow a directory size beyond it are not sent
  MaxNlink,        \* link is not issued on an inode with this many links
  Workload,        \* the request kinds the kernel sends
  MaxFaults        \* transport errors a behaviour may meet

ASSUME MaxIno \in Nat /\ MaxIno >= 2
ASSUME Dot \notin Names
ASSUME Locks \in BOOLEAN
ASSUME MaxSize \in Nat /\ MaxFaults \in Nat
ASSUME Workload \subseteq {"lookup", "mkdir", "mknod", "symlink", "unlink",
                          "rmdir", "link", "rename"}

ROOT_INO == 1
Ino == 1..MaxIno
Kind == {"Directory", "Regular", "Symlink"}

(* Absent values: a reset inode map, an absent directory entry.            *)
NoKind == "none"
NoInode == [kind |-> NoKind, size |-> 0, nlink |-> 0]
NoEntry == [ino |-> 0, kind |-> NoKind]
NoName == "none"
EmptyDir == [n \in Names \cup {Dot} |-> NoEntry]

VARIABLES
  inode,    \* inode/<ino>: map of registers (kind, size) and counter nlink
  dir,      \* dir/<ino>: add-wins map from name to entry
  symlink,  \* symlink/<ino>: TRUE iff the link register is set
  nextIno,  \* InoGenerator in-memory value (next ino to hand out)
  task,     \* [Slots -> task]: the request or deleter a slot is running
  faults    \* transport errors so far

vars == <<inode, dir, symlink, nextIno, task, faults>>

Ops == {"lookup", "mkdir", "mknod", "symlink", "unlink", "rmdir",
        "link", "rename", "delete"}

Idle == [op |-> "idle", pc |-> "conn", p |-> 0, n |-> NoName, p2 |-> 0,
         n2 |-> NoName, i |-> 0, eff |-> <<>>, sched |-> 0]

Request(op, p, n, p2, n2, i) ==
  [Idle EXCEPT !.op = op, !.p = p, !.n = n, !.p2 = p2, !.n2 = n2, !.i = i]

-----------------------------------------------------------------------------
(* Codecs (model/inode.rs, model/dir.rs): decode succeeds iff the entity   *)
(* holds its required fields.                                              *)

Present(i) == inode[i].kind # NoKind

DirExists(d) == \E n \in Names \cup {Dot} : dir[d][n] # NoEntry

(* u64 arithmetic of `size += 1` / `size -= 1` in a release build.  A     *)
(* negative value v stands for 2^64 + v, the value `0 - 1` wraps to; the  *)
(* representation is exact for every size a bounded run reaches.           *)
Inc64(x) == x + 1
Dec64(x) == x - 1

(* One element of a transaction's update vector, applied to the store s.   *)
(*   stats   inode::update_stats: rewrites the size register              *)
(*   nlink   inode::incr/decr_link_count: counter delta                   *)
(*   mkinode inode::create; rminode inode::remove (map reset)             *)
(*   mkdir   dir::create seeds "."; rmdir dir::remove (map reset)         *)
(*   add/rm  dir::add_entry / dir::remove_entry                           *)
(*   mksym/rmsym symlink::create / symlink::remove                        *)
Apply(s, u) ==
  CASE u[1] = "stats"   -> [s EXCEPT !.inode[u[2]].size = u[3]]
    [] u[1] = "nlink"   -> [s EXCEPT !.inode[u[2]].nlink = @ + u[3]]
    [] u[1] = "mkinode" -> [s EXCEPT !.inode[u[2]] = u[3]]
    [] u[1] = "rminode" -> [s EXCEPT !.inode[u[2]] = NoInode]
    [] u[1] = "mkdir"   -> [s EXCEPT !.dir[u[2]][Dot] =
                                        [ino |-> u[2], kind |-> "Directory"]]
    [] u[1] = "rmdir"   -> [s EXCEPT !.dir[u[2]] = EmptyDir]
    [] u[1] = "add"     -> [s EXCEPT !.dir[u[2]][u[3]] = u[4]]
    [] u[1] = "rm"      -> [s EXCEPT !.dir[u[2]][u[3]] = NoEntry]
    [] u[1] = "mksym"   -> [s EXCEPT !.symlink[u[2]] = TRUE]
    [] u[1] = "rmsym"   -> [s EXCEPT !.symlink[u[2]] = FALSE]

Store == [inode |-> inode, dir |-> dir, symlink |-> symlink]

-----------------------------------------------------------------------------
(* The transaction! macro: lock sets per operation, emptied when the       *)
(* configuration disables locks.                                           *)

InodeKey(i) == <<"inode", i>>
DirKey(i) == <<"dir", i>>

(* Mutant of Exclusive: delete_later begins its transaction with no lock. *)
ExclusiveNoDeleteLock(t) ==
  IF ~Locks THEN {} ELSE
  CASE t.op \in {"mkdir", "mknod", "symlink", "unlink", "rmdir"}
                           -> {InodeKey(t.p), DirKey(t.p)}
    [] t.op = "link"       -> {InodeKey(t.i), InodeKey(t.p2), DirKey(t.p2)}
    [] t.op = "rename"     -> {InodeKey(t.p), InodeKey(t.p2)}
    [] OTHER               -> {}

Exclusive(t) ==
  IF ~Locks THEN {} ELSE
  CASE t.op \in {"mkdir", "mknod", "symlink", "unlink", "rmdir"}
                           -> {InodeKey(t.p), DirKey(t.p)}
    [] t.op = "link"       -> {InodeKey(t.i), InodeKey(t.p2), DirKey(t.p2)}
    [] t.op = "rename"     -> {InodeKey(t.p), InodeKey(t.p2)}
    [] t.op = "delete"     -> {InodeKey(t.i)}
    [] OTHER               -> {}

Shared(t) ==
  IF ~Locks \/ t.op # "lookup" THEN {} ELSE {DirKey(t.p)}

Holding == {s \in Slots : task[s].op # "idle" /\ task[s].pc = "run"}

LocksFree(s) ==
  \A o \in Holding :
    /\ Exclusive(task[s]) \cap (Exclusive(task[o]) \cup Shared(task[o])) = {}
    /\ Shared(task[s]) \cap Exclusive(task[o]) = {}

(* Connections leased from the pool: from acquire until the task ends.     *)
(* Mutant of Leased: a task waiting in pool.acquire counted as a lease.   *)
LeasedWithWaiters == {s \in Slots : task[s].op # "idle"}

Leased == {s \in Slots : task[s].op # "idle" /\ task[s].pc \in {"lock", "run"}}

-----------------------------------------------------------------------------
(* What each operation does inside its transaction, evaluated at the      *)
(* snapshot: the update vector it will commit and the ino it hands to     *)
(* schedule_delete.  Every enoent!/EEXIST early return is an empty vector. *)

Tx(eff, sched) == [eff |-> eff, sched |-> sched]
Abort == Tx(<<>>, 0)

ParentMissing(p) == ~Present(p) \/ ~DirExists(p)

(* Driver::mkdir *)
MkDirTx(t) ==
  IF ParentMissing(t.p) \/ dir[t.p][t.n] # NoEntry THEN Abort
  ELSE Tx(<< <<"add", t.p, t.n, [ino |-> t.i, kind |-> "Directory"]>>,
             <<"mkdir", t.i>>,
             <<"mkinode", t.i, [kind |-> "Directory", size |-> 0, nlink |-> 2]>>,
             <<"stats", t.p, Inc64(inode[t.p].size)>> >>, 0)

(* Driver::mknod *)
MkNodTx(t) ==
  IF ParentMissing(t.p) \/ dir[t.p][t.n] # NoEntry THEN Abort
  ELSE Tx(<< <<"stats", t.p, Inc64(inode[t.p].size)>>,
             <<"add", t.p, t.n, [ino |-> t.i, kind |-> "Regular"]>>,
             <<"mkinode", t.i, [kind |-> "Regular", size |-> 0, nlink |-> 1]>> >>, 0)

(* Driver::symlink; the size register of a file or symlink is read by no  *)
(* guard of this module and is kept at 0.                                  *)
SymlinkTx(t) ==
  IF ParentMissing(t.p) \/ dir[t.p][t.n] # NoEntry THEN Abort
  ELSE Tx(<< <<"mkinode", t.i, [kind |-> "Symlink", size |-> 0, nlink |-> 1]>>,
             <<"stats", t.p, Inc64(inode[t.p].size)>>,
             <<"add", t.p, t.n, [ino |-> t.i, kind |-> "Symlink"]>>,
             <<"mksym", t.i>> >>, 0)

(* Driver::unlink: the decremented parent size is computed but the update *)
(* vector carries no update_stats of the parent.                           *)
UnlinkTx(t) ==
  IF ParentMissing(t.p) \/ dir[t.p][t.n] = NoEntry THEN Abort
  ELSE Tx(<< <<"rm", t.p, t.n>>, <<"nlink", dir[t.p][t.n].ino, -1>> >>,
          dir[t.p][t.n].ino)

(* Driver::rmdir: no check that the removed directory is empty.           *)
RmDirTx(t) ==
  IF ParentMissing(t.p) \/ dir[t.p][t.n] = NoEntry THEN Abort
  ELSE Tx(<< <<"nlink", dir[t.p][t.n].ino, -1>>, <<"rm", t.p, t.n>>,
             <<"stats", t.p, Dec64(inode[t.p].size)>> >>, dir[t.p][t.n].ino)

(* Mutant of LinkTx: the incr_link_count update left out.                 *)
LinkTxNoIncr(t) ==
  IF ~Present(t.i) \/ ParentMissing(t.p2) \/ dir[t.p2][t.n2] # NoEntry THEN Abort
  ELSE Tx(<< <<"stats", t.p2, inode[t.p2].size>>,
             <<"add", t.p2, t.n2, [ino |-> t.i, kind |-> "Regular"]>> >>, 0)

(* Driver::link: the new entry is always of kind Regular and the parent's *)
(* size is rewritten unchanged.                                            *)
LinkTx(t) ==
  IF ~Present(t.i) \/ ParentMissing(t.p2) \/ dir[t.p2][t.n2] # NoEntry THEN Abort
  ELSE Tx(<< <<"stats", t.p2, inode[t.p2].size>>,
             <<"add", t.p2, t.n2, [ino |-> t.i, kind |-> "Regular"]>>,
             <<"nlink", t.i, 1>> >>, 0)

(* The new_dentry rename adds: the source ino with the source inode's    *)
(* kind.  Mutant: the target entry's ino taken instead of the source's.    *)
RenamedEntryOfTarget(t) ==
  [ino |-> dir[t.p2][t.n2].ino, kind |-> inode[dir[t.p][t.n].ino].kind]

RenamedEntry(t) ==
  [ino |-> dir[t.p][t.n].ino, kind |-> inode[dir[t.p][t.n].ino].kind]

(* Driver::rename.  The source and target inodes are read at the snapshot *)
(* without a lock; the target is dropped when it is an empty directory or *)
(* has one link, and otherwise its entry is overwritten.                   *)
RenameTx(t) ==
  LET e  == dir[t.p][t.n]
      te == dir[t.p2][t.n2]
      hasTarget == te # NoEntry /\ Present(te.ino)
      drop ==
        IF hasTarget /\ inode[te.ino].kind = "Directory" /\ inode[te.ino].size = 0
        THEN << <<"rminode", te.ino>>, <<"rmdir", te.ino>>, <<"rm", t.p2, t.n2>> >>
        ELSE IF hasTarget /\ inode[te.ino].nlink = 1
        THEN << <<"rminode", te.ino>>, <<"rm", t.p2, t.n2>>, <<"rmsym", te.ino>> >>
        ELSE <<>>
  IN IF ParentMissing(t.p) \/ ParentMissing(t.p2) \/ e = NoEntry \/ ~Present(e.ino)
     THEN Abort
     ELSE Tx(drop \o
             << <<"stats", t.p, Dec64(inode[t.p].size)>>,
                <<"stats", t.p2, Inc64(inode[t.p2].size)>>,
                <<"stats", e.ino, inode[e.ino].size>>,
                <<"rm", t.p, t.n>>,
                <<"add", t.p2, t.n2, RenamedEntry(t)>> >>, 0)

(* delete_later, the task schedule_delete spawns.  Mutant: the directory *)
(* threshold applied to every kind.                                        *)
MustBeRemovedAnyKind(i) == inode[i].nlink <= 1

(* Mutant: the "." self link of a directory forgotten.                    *)
MustBeRemovedNoSelfLink(i) == inode[i].nlink = 0

MustBeRemoved(i) ==
  \/ inode[i].kind = "Directory" /\ inode[i].nlink <= 1
  \/ inode[i].nlink = 0

DeleteTx(t) ==
  IF ~Present(t.i) THEN Abort
  ELSE IF MustBeRemoved(t.i)
  THEN Tx(<< <<"rminode", t.i>>, <<"rmdir", t.i>>, <<"rmsym", t.i>> >>, 0)
  ELSE Abort

TxOf(t) ==
  CASE t.op = "mkdir"   -> MkDirTx(t)
    [] t.op = "mknod"   -> MkNodTx(t)
    [] t.op = "symlink" -> SymlinkTx(t)
    [] t.op = "unlink"  -> UnlinkTx(t)
    [] t.op = "rmdir"   -> RmDirTx(t)
    [] t.op = "link"    -> LinkTx(t)
    [] t.op = "rename"  -> RenameTx(t)
    [] t.op = "delete"  -> DeleteTx(t)
    [] t.op = "lookup"  -> Abort

-----------------------------------------------------------------------------
(* What the kernel sees.  fs.rs replies with a zero TTL, so the kernel     *)
(* resolves every path with fresh lookups and applies its own VFS checks   *)
(* (EEXIST, ENOTDIR, EISDIR, EINVAL, same-inode rename) at the moment a    *)
(* request is sent; the driver then runs it against whatever state the     *)
(* backend has reached by the time its transaction begins.                 *)

Sees(p, n) == dir[p][n] # NoEntry /\ Present(dir[p][n].ino)

(* Inodes the kernel resolves below directory d by lookups.               *)
Children(d) ==
  IF inode[d].kind = "Directory"
  THEN {dir[d][n].ino : n \in {m \in Names : Sees(d, m)}}
  ELSE {}

RECURSIVE Closure(_)
Closure(S) ==
  LET T == S \cup UNION {Children(d) : d \in S}
  IN IF T = S THEN S ELSE Closure(T)

(* The inode i and everything below it.                                    *)
Subtree(i) == Closure({i})

Reachable == Subtree(ROOT_INO)

IsDir(i) == inode[i].kind = "Directory"

-----------------------------------------------------------------------------
(* Driver::make_root on an empty bucket.                                   *)
Root ==
  [inode |-> [i \in Ino |-> IF i = ROOT_INO
                            THEN [kind |-> "Directory", size |-> 0, nlink |-> 3]
                            ELSE NoInode],
   dir |-> [i \in Ino |-> IF i = ROOT_INO
                          THEN [EmptyDir EXCEPT ![Dot] =
                                  [ino |-> ROOT_INO, kind |-> "Directory"]]
                          ELSE EmptyDir],
   symlink |-> [i \in Ino |-> FALSE]]

Init ==
  (* Driver::new: make_root, then load_ino_counter.                         *)
  /\ inode = Root.inode
  /\ dir = Root.dir
  /\ symlink = Root.symlink
  /\ nextIno = ROOT_INO + 1
  /\ task = [s \in Slots |-> Idle]
  /\ faults = 0

Free(s) == task[s].op = "idle"

Spawn(s, t) ==
  /\ task' = [task EXCEPT ![s] = t]
  /\ UNCHANGED <<inode, dir, symlink, faults>>

(* fs.rs lookup: read-only, it matters here only through the shared lock *)
(* it holds on dir(p); the name it looks up changes no state.              *)
IssueLookup(s, p) ==
  /\ Spawn(s, Request("lookup", p, NoName, 0, NoName, 0))
  /\ UNCHANGED nextIno

(* fs.rs mkdir/mknod/symlink; the driver method first calls next_ino.     *)
IssueCreate(s, op, p, n) ==
  /\ ~Sees(p, n)
  /\ inode[p].size < MaxSize
  /\ nextIno <= MaxIno
  /\ nextIno' = nextIno + 1
  /\ Spawn(s, Request(op, p, n, 0, NoName, nextIno))

(* fs.rs unlink and rmdir *)
IssueRemove(s, op, p, n) ==
  /\ Sees(p, n)
  /\ (op = "rmdir") = IsDir(dir[p][n].ino)
  /\ Spawn(s, Request(op, p, n, 0, NoName, 0))
  /\ UNCHANGED nextIno

(* fs.rs link: the kernel refuses to link a directory.                    *)
IssueLink(s, i, p2, n2) ==
  /\ inode[i].nlink < MaxNlink
  /\ ~IsDir(i)
  /\ ~Sees(p2, n2)
  /\ Spawn(s, Request("link", 0, NoName, p2, n2, i))
  /\ UNCHANGED nextIno

(* fs.rs rename *)
IssueRename(s, p, n, p2, n2) ==
  /\ Sees(p, n)
  /\ inode[p2].size < MaxSize
  /\ LET src == dir[p][n].ino
     IN /\ Sees(p2, n2) => /\ dir[p2][n2].ino # src
                           /\ IsDir(dir[p2][n2].ino) = IsDir(src)
        /\ IsDir(src) => p2 \notin Subtree(src)
  /\ Spawn(s, Request("rename", p, n, p2, n2, 0))
  /\ UNCHANGED nextIno

(* A request names directories the kernel reached (D) and, for link, an   *)
(* inode it reached (R).                                                   *)
Issue(s) ==
  /\ Free(s)
  /\ LET R == Reachable
         D == {d \in R : IsDir(d)}
     IN \/ "lookup" \in Workload /\ \E p \in D : IssueLookup(s, p)
        \/ \E op \in {"mkdir", "mknod", "symlink"} \cap Workload, p \in D,
             n \in Names : IssueCreate(s, op, p, n)
        \/ \E op \in {"unlink", "rmdir"} \cap Workload, p \in D, n \in Names :
             IssueRemove(s, op, p, n)
        \/ "link" \in Workload /\
             \E i \in R, p2 \in D, n2 \in Names : IssueLink(s, i, p2, n2)
        \/ "rename" \in Workload /\
             \E p, p2 \in D, n, n2 \in Names : IssueRename(s, p, n, p2, n2)

(* pool.acquire *)
Acquire(s) ==
  /\ ~Free(s)
  /\ task[s].pc = "conn"
  /\ Cardinality(Leased) < MaxConnections
  /\ task' = [task EXCEPT ![s].pc = "lock"]
  /\ UNCHANGED <<inode, dir, symlink, nextIno, faults>>

(* transaction_with_locks, then every read of the operation.              *)
Begin(s) ==
  /\ ~Free(s)
  /\ task[s].pc = "lock"
  /\ LocksFree(s)
  /\ LET x == TxOf(task[s])
     IN task' = [task EXCEPT ![s].pc = "run", ![s].eff = x.eff,
                             ![s].sched = x.sched]
  /\ UNCHANGED <<inode, dir, symlink, nextIno, faults>>

(* tx.commit (or tx.abort), then schedule_delete for unlink and rmdir.    *)
Commit(s) ==
  /\ ~Free(s)
  /\ task[s].pc = "run"
  /\ LET st == FoldLeft(Apply, Store, task[s].eff)
     IN /\ inode' = st.inode
        /\ dir' = st.dir
        /\ symlink' = st.symlink
  /\ task' = [task EXCEPT ![s] =
                IF task[s].sched # 0
                THEN Request("delete", 0, NoName, 0, NoName, task[s].sched)
                ELSE Idle]
  /\ UNCHANGED <<nextIno, faults>>

(* A transport error (spec 7: EIO, timeouts inherited from the backend    *)
(* client) at pool.acquire, at the begin, at a read or update, or at a     *)
(* commit the server never applied: the `?` returns, the dropped          *)
(* connection aborts the transaction and releases its locks.  A           *)
(* delete_later task ends the same way; task::spawn drops its error.      *)
TransportError(s) ==
  /\ ~Free(s)
  /\ faults < MaxFaults
  /\ faults' = faults + 1
  /\ task' = [task EXCEPT ![s] = Idle]
  /\ UNCHANGED <<inode, dir, symlink, nextIno>>

(* tx.commit().await? fails after the server applied the transaction (the *)
(* reply is lost): the updates are in, the request returns EIO, and       *)
(* schedule_delete after the `?` is never called.                         *)
AmbiguousCommit(s) ==
  /\ ~Free(s)
  /\ task[s].pc = "run"
  /\ faults < MaxFaults
  /\ faults' = faults + 1
  /\ LET st == FoldLeft(Apply, Store, task[s].eff)
     IN /\ inode' = st.inode
        /\ dir' = st.dir
        /\ symlink' = st.symlink
  /\ task' = [task EXCEPT ![s] = Idle]
  /\ UNCHANGED nextIno

Next == \E s \in Slots : \/ Issue(s) \/ Acquire(s) \/ Begin(s) \/ Commit(s)
                         \/ TransportError(s) \/ AmbiguousCommit(s)

Spec == Init /\ [][Next]_vars

(* The kernel need not send anything, so Issue is not fair.  tokio runs   *)
(* every task that is ready, so a transaction that has begun commits (WF). *)
(* A task waiting for a connection or for its locks can find them taken   *)
(* again each time they are released; the pool hands connections out in   *)
(* FIFO order and the backend queues lock requests, so a waiter that is    *)
(* enabled infinitely often is eventually served (SF).                     *)
Fairness ==
  \A s \in Slots : /\ SF_vars(Acquire(s))
                  /\ SF_vars(Begin(s))
                  /\ WF_vars(Commit(s))

FairSpec == Spec /\ Fairness

(* The driver's handlers, each run alone from the current namespace, as   *)
(* the sequential meaning of the operations in flight.                     *)
Serial == INSTANCE SerialNamespace WITH
  alone <- [t \in {task[s] : s \in {x \in Slots : ~Free(x)}} |->
              FoldLeft(Apply, Store, TxOf(t).eff)],
  Root <- Root

-----------------------------------------------------------------------------
TypeOK ==
  /\ inode \in [Ino -> [kind: Kind \cup {NoKind}, size: Int,
                        nlink: Int]]
  /\ dir \in [Ino -> [Names \cup {Dot} -> [ino: Ino, kind: Kind] \cup {NoEntry}]]
  /\ symlink \in [Ino -> BOOLEAN]
  /\ nextIno \in (ROOT_INO + 1)..(MaxIno + 1)
  /\ \A s \in Slots : task[s].op \in Ops \cup {"idle"}
                      /\ task[s].pc \in {"conn", "lock", "run"}
                      /\ task[s].sched \in Ino \cup {0}

-----------------------------------------------------------------------------
(* Properties.                                                             *)

(* Names in existing directory maps that refer to inode i.                 *)
EntriesOf(i) == Cardinality({<<d, n>> \in Ino \X Names : dir[d][n].ino = i})

(* The nlink counter of a live inode is never below the number of entries *)
(* that name it (plus the self link of a directory).  unlink, rmdir, link *)
(* and rename change entries and counters in separate updates of one      *)
(* transaction, and the deferred deleter reclaims an inode on the counter *)
(* alone, so a counter below the entry count lets it reclaim a live file. *)
NlinkCoversEntries ==
  \A i \in Ino \ {ROOT_INO} :
    Present(i) => inode[i].nlink >= EntriesOf(i) + (IF IsDir(i) THEN 1 ELSE 0)

(* The deferred deleter (delete_later) only removes an inode that no      *)
(* directory entry names any more, even though it runs in its own         *)
(* transaction after the unlink or rmdir that scheduled it committed.     *)
DeleterRemovesOnlyUnreferenced ==
  [][\A s \in Slots :
       (/\ task[s].op = "delete" /\ task[s].pc = "run" /\ task'[s] = Idle
        /\ task[s].eff # <<>>)
         => EntriesOf(task[s].i) = 0]_vars

(* Every entry of a directory names an inode that exists (spec 3: every   *)
(* referenced ino exists at commit time).                                  *)
NoDanglingEntry ==
  \A d \in Ino, n \in Names :
    dir[d][n] # NoEntry => Present(dir[d][n].ino)

(* The inode lifecycle of spec 4.5: an inode no entry keeps alive --     *)
(* nlink 0, or a directory left with only its "." self link -- is an      *)
(* ORPHAN, and only the deferred deleter removes it.                       *)
Orphan(i) ==
  /\ Present(i)
  /\ \/ inode[i].nlink = 0
     \/ IsDir(i) /\ inode[i].nlink <= 1

(* Every ORPHAN is eventually removed (or linked again): unlink and rmdir *)
(* hand the inode to schedule_delete after they commit, and the           *)
(* delete_later task that finds nlink at the threshold removes it, however *)
(* the deleters of several unlinks of one inode and concurrent links      *)
(* interleave.                                                             *)
OrphansReclaimed ==
  \A i \in Ino \ {ROOT_INO} : Orphan(i) ~> ~Orphan(i)

(* Every request the kernel sends gets its reply, and every deleter it    *)
(* spawns ends: no task waits forever on the pool or on locks that other  *)
(* tasks hold.                                                             *)
RequestsComplete ==
  \A s \in Slots : ~Free(s) ~> Free(s)

(* The driver implements SerialNamespace: every commit changes the        *)
(* namespace exactly as its operation would running alone at that moment, *)
(* i.e. nothing the operation read at its snapshot has been changed under *)
(* it by a transaction its locks did not exclude.                          *)
SerialSpec == Serial!Spec

====
