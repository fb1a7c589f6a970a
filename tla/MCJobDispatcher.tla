-------------------------- MODULE MCJobDispatcher --------------------------
EXTENDS JobDispatcher, TLC

CONSTANTS t1, t2, t3, o1, o2, j1, j2, j3

MCOwner == (j1 :> o1) @@ (j2 :> o1) @@ (j3 :> o2)
=============================================================================
