--------------------------- MODULE MCInoGenerator ---------------------------
(* Model-checking instance of InoGenerator: two concurrent creating       *)
(* requests, interchangeable.                                              *)
EXTENDS InoGenerator, TLC

CONSTANTS c1, c2

MCClients == {c1, c2}

Symmetry == Permutations(MCClients)
====
