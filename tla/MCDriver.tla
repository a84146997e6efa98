------------------------------ MODULE MCDriver ------------------------------
(* Model-checking instance of Driver: names and task slots are model      *)
(* values, interchangeable for the safety properties checked here.        *)
EXTENDS Driver, TLC

CONSTANTS a, b, s1, s2, s3

MCNames == {a, b}
MCSlots == {s1, s2}

(* One more task than the pool has connections.                           *)
MCSlots3 == {s1, s2, s3}

(* Every request kind fs.rs forwards to the namespace handlers.           *)
AllRequests ==
  {"lookup", "mkdir", "mknod", "symlink", "unlink", "rmdir", "link", "rename"}

(* The same workload without rename, the one handler that writes keys it *)
(* does not lock.                                                          *)
LockedRequests == AllRequests \ {"rename"}

(* The workload of the liveness run: the requests that make orphans      *)
(* (unlink, rmdir), revive them (link) and create what they remove.        *)
(* lookup changes nothing, and rename neither makes an orphan nor hands    *)
(* one to the deleter.                                                     *)
ReclaimRequests == AllRequests \ {"lookup", "rename"}

(* The workload of the pool run: creates and removes, which contend for   *)
(* the parent's keys and hand inodes to deleters that need a lease too.    *)
PoolRequests == {"mkdir", "mknod", "unlink", "rmdir"}

Symmetry == Permutations(MCNames) \cup Permutations(MCSlots)
====
