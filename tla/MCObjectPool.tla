---------------------------- MODULE MCObjectPool ----------------------------
EXTENDS ObjectPool, TLC

(* Nothing tells threads or blocks apart.                                  *)
Symmetry == Permutations(Thread) \cup Permutations(Block)
=============================================================================
