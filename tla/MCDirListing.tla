---------------------------- MODULE MCDirListing ----------------------------
(* Model-checking instance of DirListing: two names besides ".", which    *)
(* the dir map iterates first.                                             *)
EXTENDS DirListing, TLC

CONSTANTS a, b

MCNames == {a, b}

(* The iteration order; any fixed order shows the same behaviours, so one *)
(* is enough and no symmetry is declared.                                  *)
MCOrder == <<Dot, a, b>>
====
