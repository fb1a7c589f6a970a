---------------------------- MODULE MCLinuxServer ---------------------------
(* Players are interchangeable: nothing in LinuxServer tells them apart    *)
(* (NextToFlush goes by descriptors).                                      *)
EXTENDS LinuxServer, TLC

Symmetry == Permutations(Player)
=============================================================================
