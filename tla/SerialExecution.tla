-------------------------- MODULE SerialExecution --------------------------
(***************************************************************************)
(* What an AsyncExecutable promises to those who post jobs to it: its jobs *)
(* are executed one at a time, each once, in the order in which they       *)
(* entered its queue.                                                      *)
(***************************************************************************)
EXTENDS Sequences

CONSTANTS Object, Job, Owner
VARIABLES queue, running   \* per object: jobs waiting, jobs being executed

Init ==
  /\ queue = [o \in Object |-> <<>>]
  /\ running = [o \in Object |-> {}]

Enqueue(j) ==
  /\ queue' = [queue EXCEPT ![Owner[j]] = Append(@, j)]
  /\ UNCHANGED running

Begin(o) ==
  /\ queue[o] # <<>> /\ running[o] = {}
  /\ running' = [running EXCEPT ![o] = {Head(queue[o])}]
  /\ queue' = [queue EXCEPT ![o] = Tail(@)]

End(o) ==
  /\ running[o] # {}
  /\ running' = [running EXCEPT ![o] = {}]
  /\ UNCHANGED queue

Next ==
  \/ \E j \in Job : Enqueue(j)
  \/ \E o \in Object : Begin(o) \/ End(o)

Spec == Init /\ [][Next]_<<queue, running>>
=============================================================================
