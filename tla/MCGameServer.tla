---------------------------- MODULE MCGameServer ----------------------------
(* Players, and I/O threads, are interchangeable: nothing in GameServer    *)
(* tells one from another.                                                 *)
EXTENDS GameServer, TLC

Symmetry == Permutations(Player) \cup Permutations(Worker)
=============================================================================
