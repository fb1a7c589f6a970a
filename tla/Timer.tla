------------------------------- MODULE Timer -------------------------------
(***************************************************************************)
(* The priority queue of a Timer (Timer.cpp), as a value: the element on   *)
(* top and the others below it, whose order in the heap the code does not  *)
(* fix.  An element is due at mExecutionTick; the model counts ticks from  *)
(* now, so that time passing lowers every due tick and no clock grows.     *)
(*                                                                         *)
(* The queue matters because DoTimerJob runs the top element before it     *)
(* pops "the top": the element it pops is the one it ran only if nothing   *)
(* that was pushed meanwhile took its place.                               *)
(***************************************************************************)
EXTENDS Integers

NoJob == [owner |-> <<>>, due |-> 0]

EmptyQueue == [top |-> NoJob, rest |-> {}]

IsEmpty(q) == q.top = NoJob

(* push: an element rises to the top only past one that is due later.      *)
Push(q, e) ==
  IF IsEmpty(q) THEN [top |-> e, rest |-> {}]
  ELSE IF e.due < q.top.due
  THEN [top |-> e, rest |-> q.rest \cup {q.top}]
  ELSE [q EXCEPT !.rest = @ \cup {e}]

(* pop: the queues that may remain.                                        *)
Pop(q) ==
  IF q.rest = {} THEN {EmptyQueue}
  ELSE {[top |-> e, rest |-> q.rest \ {e}] :
          e \in {f \in q.rest : \A g \in q.rest : f.due <= g.due}}

Elements(q) == IF IsEmpty(q) THEN {} ELSE {q.top} \cup q.rest

(* One tick later.                                                         *)
Sooner(e) == [e EXCEPT !.due = @ - 1]
TickPassed(q) ==
  IF IsEmpty(q) THEN q
  ELSE [top |-> Sooner(q.top), rest |-> {Sooner(e) : e \in q.rest}]
=============================================================================
