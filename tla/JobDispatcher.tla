--------------------------- MODULE JobDispatcher ---------------------------
(***************************************************************************)
(* The job dispatcher of the dummy clients: AsyncExecutable objects, each  *)
(* with a JobQueue that many threads push to and one thread at a time pops *)
(* from, and the jobs the threads' timers hand to it.                      *)
(*                                                                         *)
(* The thread that raises an object's mRemainTaskCount from zero must      *)
(* execute all its jobs, now or, when it is already executing an object,   *)
(* later from its LExecuterList.  The queue is a linked list whose head is *)
(* swapped before it is linked, so it is cut for a moment at every push.   *)
(*                                                                         *)
(* One action per access to shared memory.  A node is a job, or the object *)
(* itself for its mStub.  A job may call DoAsync or DoAsyncAfter while it  *)
(* is executed, and so may a thread outside of any job (a packet handler). *)
(* When a timer job is due is left open: any armed job may be next.        *)
(***************************************************************************)
EXTENDS Integers, FiniteSets, SequencesExt

CONSTANTS Thread, Object, Job,
  Owner,     \* job -> the object it was posted to
  nullptr

ASSUME DispatcherAssumption ==
  /\ Owner \in [Job -> Object]
  /\ Job \cap Object = {} /\ nullptr \notin Job \cup Object

VARIABLES
  \* per object
  mHead, mTail, mRemainTaskCount, mRefCount,
  mNext,             \* node -> node
  \* per thread
  post,              \* the DoTask call it is in, up to AddRefForThis
  flush,             \* the rest of DoTask: Flush, Pop and the executor list
  timer,             \* the job DoTimerJob is handing over
  armed,             \* the jobs in its timer queue
  LCurrentExecuterOccupyingThisThread, LExecuterList,
  \* history
  fresh,             \* jobs that do not exist yet
  freed,             \* jobs that were deleted
  waiting,           \* object -> jobs pushed and not yet popped, in order
  executing          \* object -> jobs being executed

queues  == <<mHead, mTail, mNext, waiting>>
counts  == <<mRemainTaskCount, mRefCount>>
lists   == <<LCurrentExecuterOccupyingThisThread, LExecuterList>>
timers  == <<timer, armed>>
jobs    == <<fresh, freed, executing>>
vars    == <<queues, counts, post, flush, timers, lists, jobs>>

Node == Job \cup Object

NoPost  == [at |-> "no", job |-> nullptr, first |-> FALSE, prev |-> nullptr]
NoFlush == [at |-> "no", obj |-> nullptr, job |-> nullptr, prev |-> nullptr,
            listed |-> FALSE]

Posts(t, at)    == post[t].at = at
Flushes(t, at)  == post[t].at = "no" /\ flush[t].at = at
Target(t)       == Owner[post[t].job]
Goes(t, at)     == flush' = [flush EXCEPT ![t].at = at]

Init ==
  /\ mHead = [o \in Object |-> o] /\ mTail = [o \in Object |-> o]
  /\ mNext = [n \in Node |-> nullptr]
  /\ mRemainTaskCount = [o \in Object |-> 0]
  /\ mRefCount = [o \in Object |-> 0]
  /\ post = [t \in Thread |-> NoPost] /\ flush = [t \in Thread |-> NoFlush]
  /\ timer = [t \in Thread |-> nullptr] /\ armed = [t \in Thread |-> {}]
  /\ LCurrentExecuterOccupyingThisThread = [t \in Thread |-> nullptr]
  /\ LExecuterList = [t \in Thread |-> <<>>]
  /\ fresh = Job /\ freed = {}
  /\ waiting = [o \in Object |-> <<>>]
  /\ executing = [o \in Object |-> {}]

-----------------------------------------------------------------------------
(* The ways into DoTask.                                                   *)

InUserCode(t) ==
  /\ Posts(t, "no")
  /\ flush[t].at = "execute" \/ (flush[t].at = "no" /\ timer[t] = nullptr)

DoTask(t, j) ==
  post' = [post EXCEPT ![t] = [NoPost EXCEPT !.at = "add", !.job = j]]

DoAsync(t, j) ==
  /\ InUserCode(t) /\ j \in fresh
  /\ fresh' = fresh \ {j}
  /\ DoTask(t, j)
  /\ UNCHANGED <<queues, counts, flush, timers, lists, freed, executing>>

(* PushTimerJob takes a reference for the timer.                           *)
DoAsyncAfter(t, j) ==
  /\ InUserCode(t) /\ j \in fresh
  /\ fresh' = fresh \ {j}
  /\ mRefCount' = [mRefCount EXCEPT ![Owner[j]] = @ + 1]
  /\ armed' = [armed EXCEPT ![t] = @ \cup {j}]
  /\ UNCHANGED <<queues, mRemainTaskCount, post, flush, timer, lists, freed,
                 executing>>

(* The worker's loop finds a timer job due and passes it to DoTask ...     *)
DoTimerJob(t) ==
  /\ Posts(t, "no") /\ flush[t].at = "no" /\ timer[t] = nullptr
  /\ \E j \in armed[t] : timer' = [timer EXCEPT ![t] = j] /\ DoTask(t, j)
  /\ UNCHANGED <<queues, counts, flush, armed, lists, jobs>>

(* Mutant: the timer keeps its reference.                                  *)
TimerReleaseForgotten(t) ==
  /\ Flushes(t, "no") /\ timer[t] # nullptr
  /\ armed' = [armed EXCEPT ![t] = @ \ {timer[t]}]
  /\ timer' = [timer EXCEPT ![t] = nullptr]
  /\ UNCHANGED <<queues, counts, post, flush, lists, jobs>>

(* ... then gives the timer's reference back and pops the element.         *)
TimerRelease(t) ==
  /\ Flushes(t, "no") /\ timer[t] # nullptr
  /\ mRefCount' = [mRefCount EXCEPT ![Owner[timer[t]]] = @ - 1]
  /\ armed' = [armed EXCEPT ![t] = @ \ {timer[t]}]
  /\ timer' = [timer EXCEPT ![t] = nullptr]
  /\ UNCHANGED <<queues, mRemainTaskCount, post, flush, lists, jobs>>

-----------------------------------------------------------------------------
(* DoTask up to AddRefForThis.                                             *)

CountTask(t) ==
  /\ Posts(t, "add")
  /\ mRemainTaskCount' = [mRemainTaskCount EXCEPT ![Target(t)] = @ + 1]
  /\ post' = [post EXCEPT ![t].at = "exchange",
                          ![t].first = mRemainTaskCount[Target(t)] = 0]
  /\ UNCHANGED <<queues, mRefCount, flush, timers, lists, jobs>>

(* JobQueue::Push: the exchange puts the job into the order of the queue;  *)
(* it can be reached only after the link.                                  *)
PushExchange(t) ==
  /\ Posts(t, "exchange")
  /\ post' = [post EXCEPT ![t].at = "link", ![t].prev = mHead[Target(t)]]
  /\ mHead' = [mHead EXCEPT ![Target(t)] = post[t].job]
  /\ waiting' = [waiting EXCEPT ![Target(t)] = Append(@, post[t].job)]
  /\ UNCHANGED <<mTail, mNext, counts, flush, timers, lists, jobs>>

(* Mutant: every poster takes the object over.                             *)
PushLinkTakesOver(t) ==
  /\ Posts(t, "link")
  /\ mNext' = [mNext EXCEPT ![post[t].prev] = post[t].job]
  /\ post' = [post EXCEPT ![t].at = "addref"]
  /\ UNCHANGED <<mHead, mTail, waiting, counts, flush, timers, lists, jobs>>

PushLink(t) ==
  /\ Posts(t, "link")
  /\ mNext' = [mNext EXCEPT ![post[t].prev] = post[t].job]
  /\ post' = [post EXCEPT ![t] = IF post[t].first
                                 THEN [@ EXCEPT !.at = "addref"] ELSE NoPost]
  /\ UNCHANGED <<mHead, mTail, waiting, counts, flush, timers, lists, jobs>>

(* Mutant: an object in a list is not referenced.                          *)
AddRefOnlyWhenExecuted(t) ==
  LET o == Target(t) IN
  /\ Posts(t, "addref")
  /\ post' = [post EXCEPT ![t] = NoPost]
  /\ \/ /\ LCurrentExecuterOccupyingThisThread[t] # nullptr
        /\ LExecuterList' = [LExecuterList EXCEPT ![t] = Append(@, o)]
        /\ UNCHANGED <<LCurrentExecuterOccupyingThisThread, flush, mRefCount>>
     \/ /\ LCurrentExecuterOccupyingThisThread[t] = nullptr
        /\ mRefCount' = [mRefCount EXCEPT ![o] = @ + 1]
        /\ LCurrentExecuterOccupyingThisThread' =
             [LCurrentExecuterOccupyingThisThread EXCEPT ![t] = o]
        /\ flush' = [flush EXCEPT ![t] = [NoFlush EXCEPT !.at = "pop", !.obj = o]]
        /\ UNCHANGED LExecuterList
  /\ UNCHANGED <<queues, mRemainTaskCount, timers, jobs>>

(* The first poster takes the object over: it executes it, or registers it *)
(* in its list when it is inside another object's job.                     *)
AddRefForThis(t) ==
  LET o == Target(t) IN
  /\ Posts(t, "addref")
  /\ mRefCount' = [mRefCount EXCEPT ![o] = @ + 1]
  /\ post' = [post EXCEPT ![t] = NoPost]
  /\ \/ /\ LCurrentExecuterOccupyingThisThread[t] # nullptr
        /\ LExecuterList' = [LExecuterList EXCEPT ![t] = Append(@, o)]
        /\ UNCHANGED <<LCurrentExecuterOccupyingThisThread, flush>>
     \/ /\ LCurrentExecuterOccupyingThisThread[t] = nullptr
        /\ LCurrentExecuterOccupyingThisThread' =
             [LCurrentExecuterOccupyingThisThread EXCEPT ![t] = o]
        /\ flush' = [flush EXCEPT ![t] = [NoFlush EXCEPT !.at = "pop", !.obj = o]]
        /\ UNCHANGED LExecuterList
  /\ UNCHANGED <<queues, mRemainTaskCount, timers, jobs>>

-----------------------------------------------------------------------------
(* JobQueue::Pop, called in a loop by Flush until it returns a job.        *)

(* Pop returns the job tail and next is the new tail; OnExecute begins.    *)
PopReturns(t, tail, next) ==
  LET o == flush[t].obj IN
  /\ mTail' = [mTail EXCEPT ![o] = next]
  /\ flush' = [flush EXCEPT ![t].at = "execute", ![t].job = tail]
  /\ waiting' = [waiting EXCEPT ![o] = RemoveFirst(@, tail)]
  /\ executing' = [executing EXCEPT ![o] = @ \cup {tail}]
  /\ UNCHANGED <<mHead, mNext, counts, post, timers, lists, fresh, freed>>

(* Pop gives up or goes on; nothing but the thread's position changes.     *)
PopGoes(t, at, tail) ==
  /\ flush' = [flush EXCEPT ![t].at = at, ![t].job = tail]
  /\ UNCHANGED <<queues, counts, post, timers, lists, jobs>>

(* The empty queue, where tail is the stub without a next, is spun on.     *)
Pop(t) ==
  LET o    == flush[t].obj
      tail == mTail[o]
      next == mNext[tail]
  IN
  /\ Flushes(t, "pop")
  /\ \/ /\ tail = o /\ next # nullptr
        /\ mTail' = [mTail EXCEPT ![o] = next]
        /\ flush' = [flush EXCEPT ![t].at = "second", ![t].job = next]
        /\ UNCHANGED <<mHead, mNext, waiting, counts, post, timers, lists, jobs>>
     \/ tail # o /\ next # nullptr /\ PopReturns(t, tail, next)
     \/ tail # o /\ next = nullptr /\ PopGoes(t, "head", tail)

PopSecond(t) ==
  LET tail == flush[t].job
      next == mNext[tail]
  IN
  /\ Flushes(t, "second")
  /\ \/ next # nullptr /\ PopReturns(t, tail, next)
     \/ next = nullptr /\ PopGoes(t, "head", tail)

(* Mutant: the job is returned as soon as it has no next.                  *)
PopHeadReturns(t) ==
  LET tail == flush[t].job IN
  /\ Flushes(t, "head")
  /\ PopReturns(t, tail, flush[t].obj)

(* A head further on means that a push has swapped and not linked yet.     *)
PopHead(t) ==
  LET tail == flush[t].job IN
  /\ Flushes(t, "head")
  /\ PopGoes(t, IF tail # mHead[flush[t].obj] THEN "pop" ELSE "clear", tail)

PopClearStub(t) ==
  /\ Flushes(t, "clear")
  /\ mNext' = [mNext EXCEPT ![flush[t].obj] = nullptr]
  /\ Goes(t, "swap")
  /\ UNCHANGED <<mHead, mTail, waiting, counts, post, timers, lists, jobs>>

PopExchange(t) ==
  LET o == flush[t].obj IN
  /\ Flushes(t, "swap")
  /\ mHead' = [mHead EXCEPT ![o] = o]
  /\ flush' = [flush EXCEPT ![t].at = "link", ![t].prev = mHead[o]]
  /\ UNCHANGED <<mTail, mNext, waiting, counts, post, timers, lists, jobs>>

(* Mutant: the stub is linked behind tail, not behind the previous head.   *)
PopLinkTail(t) ==
  /\ Flushes(t, "link")
  /\ mNext' = [mNext EXCEPT ![flush[t].job] = flush[t].obj]
  /\ Goes(t, "last")
  /\ UNCHANGED <<mHead, mTail, waiting, counts, post, timers, lists, jobs>>

PopLink(t) ==
  /\ Flushes(t, "link")
  /\ mNext' = [mNext EXCEPT ![flush[t].prev] = flush[t].obj]
  /\ Goes(t, "last")
  /\ UNCHANGED <<mHead, mTail, waiting, counts, post, timers, lists, jobs>>

PopLast(t) ==
  LET tail == flush[t].job
      next == mNext[tail]
  IN
  /\ Flushes(t, "last")
  /\ \/ next # nullptr /\ PopReturns(t, tail, next)
     \/ next = nullptr /\ PopGoes(t, "pop", tail)

-----------------------------------------------------------------------------
(* Flush and the executor list.                                            *)

(* OnExecute returns and the job is deleted.                               *)
DeleteJob(t) ==
  /\ Flushes(t, "execute")
  /\ freed' = freed \cup {flush[t].job}
  /\ executing' = [executing EXCEPT ![flush[t].obj] = @ \ {flush[t].job}]
  /\ Goes(t, "count")
  /\ UNCHANGED <<queues, counts, post, timers, lists, fresh>>

(* Mutant: the loop ends one job early.                                    *)
CountDownTooFar(t) ==
  LET o == flush[t].obj IN
  /\ Flushes(t, "count")
  /\ mRemainTaskCount' = [mRemainTaskCount EXCEPT ![o] = @ - 1]
  /\ Goes(t, IF mRemainTaskCount[o] > 2 THEN "pop"
             ELSE IF flush[t].listed THEN "release" ELSE "list")
  /\ UNCHANGED <<queues, mRefCount, post, timers, lists, jobs>>

CountDown(t) ==
  LET o == flush[t].obj IN
  /\ Flushes(t, "count")
  /\ mRemainTaskCount' = [mRemainTaskCount EXCEPT ![o] = @ - 1]
  /\ Goes(t, IF mRemainTaskCount[o] # 1 THEN "pop"
             ELSE IF flush[t].listed THEN "release" ELSE "list")
  /\ UNCHANGED <<queues, mRefCount, post, timers, lists, jobs>>

(* The reference of an object taken from the list.                         *)
ReleaseListed(t) ==
  /\ Flushes(t, "release")
  /\ mRefCount' = [mRefCount EXCEPT ![flush[t].obj] = @ - 1]
  /\ Goes(t, "list")
  /\ UNCHANGED <<queues, mRemainTaskCount, post, timers, lists, jobs>>

NextExecuter(t) ==
  /\ Flushes(t, "list") /\ LExecuterList[t] # <<>>
  /\ flush' = [flush EXCEPT ![t] = [NoFlush EXCEPT !.at = "pop", !.listed = TRUE,
                                                   !.obj = Head(LExecuterList[t])]]
  /\ LExecuterList' = [LExecuterList EXCEPT ![t] = Tail(@)]
  /\ UNCHANGED <<queues, counts, post, timers, jobs,
                 LCurrentExecuterOccupyingThisThread>>

(* The thread is free again and the first object's reference is returned.  *)
LeaveThread(t) ==
  LET o == LCurrentExecuterOccupyingThisThread[t] IN
  /\ Flushes(t, "list") /\ LExecuterList[t] = <<>>
  /\ mRefCount' = [mRefCount EXCEPT ![o] = @ - 1]
  /\ LCurrentExecuterOccupyingThisThread' =
       [LCurrentExecuterOccupyingThisThread EXCEPT ![t] = nullptr]
  /\ flush' = [flush EXCEPT ![t] = NoFlush]
  /\ UNCHANGED <<queues, mRemainTaskCount, post, timers, LExecuterList, jobs>>

-----------------------------------------------------------------------------
DispatchStep(t) ==
  \/ TimerRelease(t) \/ CountTask(t) \/ PushExchange(t) \/ PushLink(t)
  \/ AddRefForThis(t) \/ Pop(t) \/ PopSecond(t) \/ PopHead(t)
  \/ PopClearStub(t) \/ PopExchange(t) \/ PopLink(t) \/ PopLast(t)
  \/ DeleteJob(t) \/ CountDown(t) \/ ReleaseListed(t) \/ NextExecuter(t)
  \/ LeaveThread(t)

(* All jobs are done and every worker waits in its loop.                   *)
Quiet ==
  /\ freed = Job
  /\ \A t \in Thread : post[t] = NoPost /\ flush[t] = NoFlush /\ timer[t] = nullptr
  /\ UNCHANGED vars

Next ==
  \/ \E t \in Thread :
       \/ \E j \in Job : DoAsync(t, j) \/ DoAsyncAfter(t, j)
       \/ DoTimerJob(t) \/ DispatchStep(t)
  \/ Quiet

(* Every worker thread keeps running: it goes on with the call it is in    *)
(* and, outside of it, its loop comes back to the timer jobs that are due. *)
Fairness == \A t \in Thread : WF_vars(DoTimerJob(t) \/ DispatchStep(t))

Spec == Init /\ [][Next]_vars /\ Fairness

-----------------------------------------------------------------------------
(* Properties.                                                             *)

PostAt  == {"no", "add", "exchange", "link", "addref"}
FlushAt == {"no", "pop", "second", "head", "clear", "swap", "link", "last",
            "execute", "count", "release", "list"}

(* t is between its first Pop of o and the count-down that ends its Flush. *)
Consumes(t, o) ==
  flush[t].obj = o /\ flush[t].at \notin {"no", "list", "release"}

(* The queue is for a "single consume": whoever posts, through whichever   *)
(* nesting of objects and lists, two threads never flush one object.       *)
SingleConsumer ==
  \A o \in Object : \A t, u \in Thread : Consumes(t, o) /\ Consumes(u, o) => t = u

(* A deleted job is out of everyone's reach: no head, tail or next of a    *)
(* node in the queue, and no thread in the middle of a push or a pop, still*)
(* points to it.  (A stub that is out of the queue may.)                   *)
NoDangling ==
  /\ \A o \in Object : {mHead[o], mTail[o], mNext[mTail[o]]} \cap freed = {}
  /\ \A j \in Job \ freed : mNext[j] \notin freed
  /\ \A t \in Thread :
       /\ Posts(t, "link") => post[t].prev \notin freed
       /\ flush[t].at = "link" => flush[t].prev \notin freed
       /\ flush[t].at \in {"second", "head", "clear", "swap", "link", "last"}
            => flush[t].job \notin freed

(* The object "should not [be released] when it is in the dispatcher": as  *)
(* long as jobs wait or run it is referenced, unless the thread that takes *)
(* it over is still inside its call on the object.                         *)
StillReferenced ==
  \A o \in Object :
     (waiting[o] # <<>> \/ executing[o] # {}) =>
        \/ mRefCount[o] > 0
        \/ \E t \in Thread : post[t].at # "no" /\ post[t].first /\ Target(t) = o

(* The destructor's assertion: an object that no thread and no timer has   *)
(* anything to do with has no reference left.                              *)
AllReleased ==
  \A o \in Object :
     \/ mRefCount[o] = 0
     \/ \E t \in Thread :
          \/ \E j \in armed[t] : Owner[j] = o
          \/ LCurrentExecuterOccupyingThisThread[t] = o \/ flush[t].obj = o
          \/ \E i \in 1 .. Len(LExecuterList[t]) : LExecuterList[t][i] = o

(* The reference count is right in both directions: never too low while    *)
(* the dispatcher has the object, never left over when it is done.         *)
Referenced == StillReferenced /\ AllReleased

(* Each object executes its jobs one at a time, once each, in the order of *)
(* the exchanges that queued them.                                         *)
Serial == INSTANCE SerialExecution WITH queue <- waiting, running <- executing
IsSerial == Serial!Spec

(* No job is lost: what was posted or armed is executed and deleted.       *)
EveryJobRuns == \A j \in Job : (j \notin fresh) ~> (j \in freed)
=============================================================================
