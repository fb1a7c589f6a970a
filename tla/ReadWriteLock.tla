---------------------------- MODULE ReadWriteLock ---------------------------
(***************************************************************************)
(* What FastSpinlock promises its users: exclusive mode is held by one     *)
(* thread and nobody else, shared mode by any number of threads.           *)
(***************************************************************************)
CONSTANT Thread

VARIABLES writing, reading   \* the threads inside, in either mode

Init == writing = {} /\ reading = {}

EnterWrite(t) ==
  /\ writing = {} /\ reading = {}
  /\ writing' = {t} /\ UNCHANGED reading

LeaveWrite(t) ==
  /\ writing = {t}
  /\ writing' = {} /\ UNCHANGED reading

EnterRead(t) ==
  /\ writing = {} /\ t \notin reading
  /\ reading' = reading \cup {t} /\ UNCHANGED writing

LeaveRead(t) ==
  /\ t \in reading
  /\ reading' = reading \ {t} /\ UNCHANGED writing

Next ==
  \E t \in Thread :
    EnterWrite(t) \/ LeaveWrite(t) \/ EnterRead(t) \/ LeaveRead(t)

Spec == Init /\ [][Next]_<<writing, reading>>
=============================================================================
