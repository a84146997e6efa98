----------------------------- MODULE MCFileData -----------------------------
(* Model-checking instance of FileData: request slots are model values.   *)
EXTENDS FileData, TLC

CONSTANTS s1, s2

MCSlots == {s1, s2}

(* Every request fs.rs forwards for the file's data and size.             *)
DataRequests == {"write", "setattr", "read", "rename"}

(* The requests that lock the inode they change.                           *)
LockedDataRequests == DataRequests \ {"rename"}

Symmetry == Permutations(MCSlots)
====
