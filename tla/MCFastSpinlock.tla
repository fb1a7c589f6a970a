--------------------------- MODULE MCFastSpinlock ---------------------------
(* Four threads: one inside, one backing out, two about to announce.        *)
EXTENDS FastSpinlock
=============================================================================
