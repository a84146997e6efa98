-------------------------- MODULE SerialNamespace --------------------------
(***************************************************************************)
(* What the lock discipline of the driver promises (spec 3: "mutation      *)
(* happens only inside a transaction that has taken the corresponding      *)
(* lock"; spec 5: per-inode ordering is enforced by the lock sets): the    *)
(* namespace -- inode maps, directory maps, symlink registers -- changes   *)
(* one whole operation at a time, and each change is exactly what that     *)
(* operation does when it runs alone on the namespace as it is at that     *)
(* moment.  Operations that abort leave the namespace unchanged, which is  *)
(* a stuttering step.                                                      *)
(*                                                                         *)
(* The operations in flight and their sequential meaning are a variable  *)
(* of the module: alone maps each operation that may run next to the      *)
(* namespace it leaves when it runs alone from the current one.            *)
(***************************************************************************)
CONSTANT Root  \* the namespace Driver::new leaves on an empty bucket

VARIABLES inode, dir, symlink, alone

namespace == [inode |-> inode, dir |-> dir, symlink |-> symlink]

Init == namespace = Root

(* One operation runs to completion with nothing interleaved, and it is    *)
(* the operation that completes: it leaves the set in flight.             *)
Run(t) == namespace' = alone[t] /\ t \notin DOMAIN alone'

Next == \E t \in DOMAIN alone : Run(t)

Spec == Init /\ [][Next]_<<inode, dir, symlink>>

====
