------------------------ MODULE JobDispatcherProofs ------------------------
(***************************************************************************)
(* For every set of threads, objects and jobs: no two threads consume the  *)
(* queue of one object (SingleConsumer), nothing in reach is deleted       *)
(* (NoDangling), each object's jobs run one at a time and in order         *)
(* (IsSerial), and the reference counts are right (Referenced).            *)
(*                                                                         *)
(* The argument has three layers, each using the one before.               *)
(*   IInv: a thread becomes the consumer several steps after its fetch_add *)
(* has found zero.  The right to execute an object is followed from hand   *)
(* to hand: the poster that found zero has it, then the thread's executor  *)
(* list or its Flush.  Such a claim is unique, and an object whose count   *)
(* is zero has none.                                                       *)
(*   QInv: the nodes from mTail to mHead are a sequence, some of whose     *)
(* links are still to come, each from the one thread that will write it.   *)
(* The consumer knows its first node, and it alone takes nodes away.       *)
(*   CInv: the two counts are sizes of sets, the jobs that are not done    *)
(* and the holders of references; and while jobs are left someone has a    *)
(* claim on the object.                                                    *)
(***************************************************************************)
EXTENDS JobDispatcher, FiniteSetTheorems, TLAPS

(* The claims a thread's post p, flush f and list l hold on o.             *)
HasPost(p, o) ==
  /\ p.at = "addref" \/ (p.at \in {"exchange", "link"} /\ p.first)
  /\ Owner[p.job] = o

HasFlush(f, o) == f.obj = o /\ f.at \notin {"no", "list", "release"}

InList(l, o) == \E i \in 1 .. Len(l) : l[i] = o

Distinct(l) == \A i, k \in 1 .. Len(l) : l[i] = l[k] => i = k

Free(p, f, l, o) ==
  \A t \in Thread :
     ~ HasPost(p[t], o) /\ ~ HasFlush(f[t], o) /\ ~ InList(l[t], o)

Unique(p, f, l, o) ==
  \A t, u \in Thread :
     /\ HasPost(p[t], o) /\ HasPost(p[u], o) => t = u
     /\ HasFlush(f[t], o) /\ HasFlush(f[u], o) => t = u
     /\ InList(l[t], o) /\ InList(l[u], o) => t = u
     /\ ~ (HasPost(p[t], o) /\ HasFlush(f[u], o))
     /\ ~ (HasPost(p[t], o) /\ InList(l[u], o))
     /\ ~ (HasFlush(f[t], o) /\ InList(l[u], o))

Claims(p, f, l, r) ==
  /\ \A t \in Thread : Distinct(l[t])
  /\ \A o \in Object : Unique(p, f, l, o) /\ (r[o] = 0 => Free(p, f, l, o))

PostType ==
  [at : PostAt, job : Job \cup {nullptr}, first : BOOLEAN,
   prev : Node \cup {nullptr}]
FlushType ==
  [at : FlushAt, obj : Object \cup {nullptr}, job : Node \cup {nullptr},
   prev : Node \cup {nullptr}, listed : BOOLEAN]

(* The part of the types that the argument needs.                          *)
Types ==
  /\ mHead \in [Object -> Node] /\ mTail \in [Object -> Node]
  /\ mNext \in [Node -> Node \cup {nullptr}]
  /\ mRemainTaskCount \in [Object -> Nat]
  /\ post \in [Thread -> PostType] /\ flush \in [Thread -> FlushType]
  /\ armed \in [Thread -> SUBSET Job] /\ fresh \subseteq Job
  /\ LExecuterList \in [Thread -> Seq(Object)]
  /\ \A t \in Thread :
       /\ post[t].at # "no" => post[t].job \in Job
       /\ flush[t].at # "no" => flush[t].obj \in Object
       /\ flush[t].at \in {"second", "head", "clear", "swap", "link", "last"}
            => flush[t].job \in Node

(* The inductive invariant.                                                *)
IInv ==
  /\ Types
  /\ Claims(post, flush, LExecuterList, mRemainTaskCount)

-----------------------------------------------------------------------------
(* How claims change when one thread acts.                                 *)

(* Nothing is claimed anew: claims stay unique.                            *)
LEMMA KeepUnique ==
  ASSUME NEW p, NEW f, NEW l, NEW p2, NEW f2, NEW l2, NEW t \in Thread, NEW o,
         Unique(p, f, l, o),
         \A u \in Thread \ {t} : p2[u] = p[u] /\ f2[u] = f[u] /\ l2[u] = l[u],
         HasPost(p2[t], o) => HasPost(p[t], o),
         HasFlush(f2[t], o) => HasFlush(f[t], o),
         InList(l2[t], o) => InList(l[t], o)
  PROVE  Unique(p2, f2, l2, o)
<1>1. \A u \in Thread : /\ HasPost(p2[u], o) => HasPost(p[u], o)
                        /\ HasFlush(f2[u], o) => HasFlush(f[u], o)
                        /\ InList(l2[u], o) => InList(l[u], o)
  OBVIOUS
<1> QED BY <1>1 DEF Unique

(* Nothing is claimed anew: an object without claims stays so.             *)
LEMMA KeepFree ==
  ASSUME NEW p, NEW f, NEW l, NEW p2, NEW f2, NEW l2, NEW t \in Thread, NEW o,
         Free(p, f, l, o),
         \A u \in Thread \ {t} : p2[u] = p[u] /\ f2[u] = f[u] /\ l2[u] = l[u],
         HasPost(p2[t], o) => HasPost(p[t], o),
         HasFlush(f2[t], o) => HasFlush(f[t], o),
         InList(l2[t], o) => InList(l[t], o)
  PROVE  Free(p2, f2, l2, o)
<1>1. \A u \in Thread : /\ HasPost(p2[u], o) => HasPost(p[u], o)
                        /\ HasFlush(f2[u], o) => HasFlush(f[u], o)
                        /\ InList(l2[u], o) => InList(l[u], o)
  OBVIOUS
<1> QED BY <1>1 DEF Free

(* No other thread claims o, and t claims it in one way only.              *)
LEMMA OneTakes ==
  ASSUME NEW p2, NEW f2, NEW l2, NEW t \in Thread, NEW o,
         \A u \in Thread \ {t} : /\ ~ HasPost(p2[u], o)
                                 /\ ~ HasFlush(f2[u], o)
                                 /\ ~ InList(l2[u], o),
         ~ (HasPost(p2[t], o) /\ HasFlush(f2[t], o)),
         ~ (HasPost(p2[t], o) /\ InList(l2[t], o)),
         ~ (HasFlush(f2[t], o) /\ InList(l2[t], o))
  PROVE  Unique(p2, f2, l2, o)
BY DEF Unique

(* A step of t that claims nothing anew and leaves the counts alone.       *)
LEMMA KeepClaims ==
  ASSUME NEW p, NEW f, NEW l, NEW r, NEW p2, NEW f2, NEW l2,
         NEW t \in Thread,
         Claims(p, f, l, r),
         \A u \in Thread \ {t} : p2[u] = p[u] /\ f2[u] = f[u] /\ l2[u] = l[u],
         l2[t] = l[t],
         \A o \in Object : HasPost(p2[t], o) => HasPost(p[t], o),
         \A o \in Object : HasFlush(f2[t], o) => HasFlush(f[t], o)
  PROVE  Claims(p2, f2, l2, r)
<1>1. \A u \in Thread : Distinct(l2[u])
  BY DEF Claims
<1>2. ASSUME NEW o \in Object PROVE Unique(p2, f2, l2, o)
  <2>1. Unique(p, f, l, o) BY DEF Claims
  <2> QED BY <2>1, KeepUnique
<1>3. ASSUME NEW o \in Object, r[o] = 0 PROVE Free(p2, f2, l2, o)
  <2>1. Free(p, f, l, o) BY <1>3 DEF Claims
  <2> QED BY <2>1, KeepFree
<1> QED BY <1>1, <1>2, <1>3 DEF Claims

-----------------------------------------------------------------------------
(* Every action preserves the invariant.                                   *)

(* Initially every queue is empty and nobody claims an object.             *)
LEMMA InitIInv == Init => IInv
<1> SUFFICES ASSUME Init PROVE IInv
  OBVIOUS
<1>1. Types
  BY DispatcherAssumption
  DEF Init, Types, NoPost, NoFlush, PostType, FlushType, PostAt, FlushAt, Node
<1>2. \A t \in Thread : LExecuterList[t] = <<>>
  BY DEF Init
<1>3. \A t \in Thread : Distinct(LExecuterList[t])
  BY <1>2 DEF Distinct
<1>4. \A o \in Object : Free(post, flush, LExecuterList, o)
  BY <1>2 DEF Init, Free, HasPost, HasFlush, InList, NoPost, NoFlush
<1>5. \A o \in Object : Unique(post, flush, LExecuterList, o)
  BY <1>4 DEF Free, Unique
<1> QED BY <1>1, <1>3, <1>4, <1>5 DEF IInv, Claims

(* The calls that lead to DoTask, before its fetch_add, claim nothing.     *)
LEMMA CallStep ==
  ASSUME IInv, NEW t \in Thread,
         (\E j \in Job : DoAsync(t, j)) \/ DoTimerJob(t)
  PROVE  IInv'
<1>1. PICK j \in Job : DoTask(t, j) /\ post[t].at = "no"
  BY DEF IInv, Types, DoAsync, DoTimerJob, InUserCode, Posts
<1>2. UNCHANGED <<mHead, mTail, mNext, mRemainTaskCount, flush, armed,
                  LExecuterList>> /\ fresh' \subseteq fresh
  BY DEF DoAsync, DoTimerJob, queues, counts, timers, lists, jobs
<1>3. post' = [post EXCEPT ![t] = [NoPost EXCEPT !.at = "add", !.job = j]]
  BY <1>1 DEF DoTask
<1>4. post'[t].at = "add" /\ post'[t].job = j /\ post' \in [Thread -> PostType]
  BY <1>3 DEF IInv, Types, NoPost, PostType, PostAt
<1>5. Types'
  BY <1>2, <1>3, <1>4 DEF IInv, Types
<1>6. \A o \in Object : ~ HasPost(post'[t], o)
  BY <1>4 DEF HasPost
<1>7. \A u \in Thread \ {t} : post'[u] = post[u]
  BY <1>3 DEF IInv, Types
<1>8. Claims(post', flush', LExecuterList', mRemainTaskCount)
  BY <1>2, <1>6, <1>7, KeepClaims DEF IInv
<1> QED BY <1>2, <1>5, <1>8 DEF IInv

(* Arming a timer and releasing its reference do not touch claims.         *)
LEMMA TimerStep ==
  ASSUME IInv, NEW t \in Thread,
         (\E j \in Job : DoAsyncAfter(t, j)) \/ TimerRelease(t)
  PROVE  IInv'
<1>1. UNCHANGED <<mHead, mTail, mNext, mRemainTaskCount, post, flush,
                  LExecuterList>> /\ fresh' \subseteq fresh
  BY DEF DoAsyncAfter, TimerRelease, queues, counts, timers, lists, jobs
<1>2. armed \in [Thread -> SUBSET Job]
  BY DEF IInv, Types
<1>3. armed' \in [Thread -> SUBSET Job]
  <2>1. ASSUME NEW j \in Job, DoAsyncAfter(t, j) PROVE armed' \in [Thread -> SUBSET Job]
    BY <1>2, <2>1 DEF DoAsyncAfter
  <2>2. CASE TimerRelease(t)
    BY <1>2, <2>2 DEF TimerRelease
  <2> QED BY <2>1, <2>2
<1>4. Types'
  BY <1>1, <1>3 DEF IInv, Types
<1> QED BY <1>1, <1>4 DEF IInv

(* A push keeps the claim of the poster that found zero.                   *)
LEMMA PushStep ==
  ASSUME IInv, NEW t \in Thread, PushExchange(t) \/ PushLink(t)
  PROVE  IInv'
<1>1. /\ post[t] \in PostType /\ post[t].job \in Job
      /\ post[t].at \in {"exchange", "link"} /\ Target(t) \in Object
  BY DispatcherAssumption DEF IInv, Types, PushExchange, PushLink, Posts, Target
<1>2. /\ UNCHANGED <<mTail, mRemainTaskCount, flush, armed, LExecuterList, fresh>>
      /\ \A u \in Thread \ {t} : post'[u] = post[u]
      /\ mHead' \in [Object -> Node] /\ mNext' \in [Node -> Node \cup {nullptr}]
  BY <1>1 DEF IInv, Types, PushExchange, PushLink, counts, timers, lists, jobs, Node
<1>3. /\ post' \in [Thread -> PostType]
      /\ \/ /\ post'[t].job = post[t].job /\ post'[t].first = post[t].first
            /\ post'[t].at = "link"
         \/ /\ post'[t].job = post[t].job /\ post[t].first
            /\ post'[t].at = "addref"
         \/ post'[t].at = "no"
  <2>1. CASE PushExchange(t)
    BY <1>1, <2>1 DEF IInv, Types, PushExchange, PostType, PostAt, Node
  <2>2. CASE PushLink(t) /\ post[t].first
    BY <1>1, <2>2 DEF IInv, Types, PushLink, PostType, PostAt, Node
  <2>3. CASE PushLink(t) /\ ~ post[t].first
    BY <1>1, <2>3 DEF IInv, Types, PushLink, PostType, PostAt, Node, NoPost
  <2> QED BY <2>1, <2>2, <2>3
<1>4. Types'
  BY <1>1, <1>2, <1>3 DEF IInv, Types
<1>5. \A o \in Object : HasPost(post'[t], o) => HasPost(post[t], o)
  BY <1>1, <1>3 DEF HasPost
<1>6. Claims(post', flush', LExecuterList', mRemainTaskCount)
  <2>1. Claims(post, flush, LExecuterList, mRemainTaskCount) BY DEF IInv
  <2> QED BY <1>2, <1>5, <2>1, KeepClaims
<1> QED BY <1>2, <1>4, <1>6 DEF IInv

(* The steps of Pop, and the end of a job, stay inside Flush.              *)
InFlush == {"pop", "second", "head", "clear", "swap", "link", "last", "execute",
            "count"}

(* A step of t inside the Flush it is in keeps its claim.                  *)
LEMMA FlushMoves ==
  ASSUME IInv, NEW t \in Thread, flush[t].at \in InFlush,
         flush' \in [Thread -> FlushType],
         \A u \in Thread \ {t} : flush'[u] = flush[u],
         flush'[t].obj = flush[t].obj, flush'[t].at \in InFlush,
         flush'[t].at \in {"second", "head", "clear", "swap", "link", "last"}
           => flush'[t].job \in Node,
         mHead' \in [Object -> Node], mTail' \in [Object -> Node],
         mNext' \in [Node -> Node \cup {nullptr}],
         UNCHANGED <<mRemainTaskCount, post, armed, LExecuterList, fresh>>
  PROVE  IInv'
<1>1. flush[t].obj \in Object
  BY DEF IInv, Types, InFlush
<1>2. Types'
  BY <1>1 DEF IInv, Types
<1>3. \A o \in Object : HasFlush(flush'[t], o) => HasFlush(flush[t], o)
  BY DEF HasFlush, InFlush
<1>4. Claims(post', flush', LExecuterList', mRemainTaskCount)
  BY <1>3, KeepClaims DEF IInv
<1> QED BY <1>2, <1>4 DEF IInv

(* All steps of JobQueue::Pop, and the end of a job, are such steps.       *)
LEMMA PopStep ==
  ASSUME IInv, NEW t \in Thread,
         \/ Pop(t) \/ PopSecond(t) \/ PopHead(t) \/ PopClearStub(t)
         \/ PopExchange(t) \/ PopLink(t) \/ PopLast(t) \/ DeleteJob(t)
  PROVE  IInv'
<1>1. /\ flush[t] \in FlushType /\ flush[t].at \in InFlush
      /\ flush[t].obj \in Object
  BY DEF IInv, Types, Flushes, InFlush, Pop, PopSecond, PopHead, PopClearStub,
         PopExchange, PopLink, PopLast, DeleteJob
<1>2. Types
  BY DEF IInv
<1>3. ASSUME NEW tail \in Node, NEW next \in Node, PopReturns(t, tail, next)
      PROVE  IInv'
  <2>1. /\ flush' \in [Thread -> FlushType]
        /\ flush'[t].obj = flush[t].obj /\ flush'[t].at = "execute"
        /\ \A u \in Thread \ {t} : flush'[u] = flush[u]
    BY <1>1, <1>2, <1>3 DEF Types, PopReturns, FlushType, FlushAt
  <2>2. /\ mHead' \in [Object -> Node] /\ mTail' \in [Object -> Node]
        /\ mNext' \in [Node -> Node \cup {nullptr}]
        /\ UNCHANGED <<mRemainTaskCount, post, armed, LExecuterList, fresh>>
    BY <1>1, <1>2, <1>3 DEF Types, PopReturns, counts, timers, lists
  <2> QED BY <1>1, <2>1, <2>2, FlushMoves DEF InFlush
<1>4. ASSUME NEW at \in {"pop", "head", "clear"}, NEW tail \in Node,
             PopGoes(t, at, tail)
      PROVE  IInv'
  <2>1. /\ flush' \in [Thread -> FlushType]
        /\ flush'[t].obj = flush[t].obj /\ flush'[t].at = at
        /\ flush'[t].job = tail
        /\ \A u \in Thread \ {t} : flush'[u] = flush[u]
    BY <1>1, <1>2, <1>4 DEF Types, PopGoes, FlushType, FlushAt
  <2>2. /\ mHead' \in [Object -> Node] /\ mTail' \in [Object -> Node]
        /\ mNext' \in [Node -> Node \cup {nullptr}]
        /\ UNCHANGED <<mRemainTaskCount, post, armed, LExecuterList, fresh>>
    BY <1>2, <1>4 DEF Types, PopGoes, queues, counts, timers, lists, jobs
  <2> QED BY <1>1, <2>1, <2>2, FlushMoves DEF InFlush
<1>5. CASE Pop(t)
  <2> DEFINE o    == flush[t].obj
             tail == mTail[o]
             next == mNext[tail]
  <2>1. tail \in Node /\ next \in Node \cup {nullptr}
    BY <1>1, <1>2 DEF Types
  <2>2. CASE next # nullptr /\ PopReturns(t, tail, next)
    BY <1>3, <2>1, <2>2
  <2>3. CASE PopGoes(t, "head", tail)
    BY <1>4, <2>1, <2>3
  <2>4. CASE /\ next # nullptr
             /\ mTail' = [mTail EXCEPT ![o] = next]
             /\ flush' = [flush EXCEPT ![t].at = "second", ![t].job = next]
             /\ UNCHANGED <<mHead, mNext, waiting, counts, post, timers, lists, jobs>>
    <3>1. next \in Node BY <2>1, <2>4
    <3>2. /\ flush' \in [Thread -> FlushType]
          /\ flush'[t].obj = flush[t].obj /\ flush'[t].at = "second"
          /\ flush'[t].job \in Node
          /\ \A u \in Thread \ {t} : flush'[u] = flush[u]
      BY <1>1, <1>2, <2>4, <3>1 DEF Types, FlushType, FlushAt
    <3>3. /\ mHead' \in [Object -> Node] /\ mTail' \in [Object -> Node]
          /\ mNext' \in [Node -> Node \cup {nullptr}]
          /\ UNCHANGED <<mRemainTaskCount, post, armed, LExecuterList, fresh>>
      BY <1>1, <1>2, <2>4, <3>1 DEF Types, counts, timers, lists, jobs
    <3> QED BY <1>1, <3>2, <3>3, FlushMoves DEF InFlush
  <2> QED BY <1>5, <2>2, <2>3, <2>4 DEF Pop
<1>6. CASE PopSecond(t) \/ PopLast(t)
  <2> DEFINE tail == flush[t].job
             next == mNext[tail]
  <2>1. tail \in Node /\ next \in Node \cup {nullptr}
    BY <1>2, <1>6 DEF Types, PopSecond, PopLast, Flushes
  <2>2. CASE next # nullptr /\ PopReturns(t, tail, next)
    BY <1>3, <2>1, <2>2
  <2>3. CASE PopGoes(t, "head", tail) \/ PopGoes(t, "pop", tail)
    BY <1>4, <2>1, <2>3
  <2> QED BY <1>6, <2>2, <2>3 DEF PopSecond, PopLast
<1>7. CASE PopHead(t)
  <2>1. flush[t].job \in Node
    BY <1>2, <1>7 DEF Types, PopHead, Flushes
  <2>2. PopGoes(t, "pop", flush[t].job) \/ PopGoes(t, "clear", flush[t].job)
    BY <1>7 DEF PopHead
  <2> QED BY <1>4, <2>1, <2>2
<1>8. CASE PopClearStub(t) \/ PopExchange(t) \/ PopLink(t) \/ DeleteJob(t)
  <2>1. /\ flush' \in [Thread -> FlushType]
        /\ flush'[t].obj = flush[t].obj /\ flush'[t].at \in InFlush
        /\ flush'[t].job = flush[t].job
        /\ \A u \in Thread \ {t} : flush'[u] = flush[u]
    <3>1. CASE PopExchange(t)
      BY <1>1, <1>2, <3>1 DEF Types, PopExchange, FlushType, FlushAt, InFlush
    <3>2. CASE PopClearStub(t) \/ PopLink(t) \/ DeleteJob(t)
      <4>1. PICK at \in {"swap", "last", "count"} : Goes(t, at)
        BY <3>2 DEF PopClearStub, PopLink, DeleteJob
      <4> QED BY <1>1, <1>2, <4>1 DEF Types, Goes, FlushType, FlushAt, InFlush
    <3> QED BY <1>8, <3>1, <3>2
  <2>2. /\ mHead' \in [Object -> Node] /\ mTail' \in [Object -> Node]
        /\ mNext' \in [Node -> Node \cup {nullptr}]
    <3>1. CASE PopExchange(t)
      BY <1>1, <1>2, <3>1 DEF Types, PopExchange, Node
    <3>2. CASE PopClearStub(t) \/ PopLink(t)
      BY <1>1, <1>2, <3>2 DEF Types, PopClearStub, PopLink, Node
    <3>3. CASE DeleteJob(t)
      BY <1>2, <3>3 DEF Types, DeleteJob, queues
    <3> QED BY <1>8, <3>1, <3>2, <3>3
  <2>3. UNCHANGED <<mRemainTaskCount, post, armed, LExecuterList, fresh>>
    BY <1>8 DEF PopClearStub, PopExchange, PopLink, DeleteJob, counts, timers,
                lists, jobs
  <2>4. flush'[t].at \in {"second", "head", "clear", "swap", "link", "last"}
          => flush'[t].job \in Node
    <3>1. CASE DeleteJob(t)
      <4>1. flush'[t].at = "count"
        BY <1>1, <1>2, <3>1 DEF Types, DeleteJob, Goes, FlushType
      <4> QED BY <4>1
    <3>2. CASE PopClearStub(t) \/ PopExchange(t) \/ PopLink(t)
      <4>1. flush[t].at \in {"clear", "swap", "link"}
        BY <3>2 DEF PopClearStub, PopExchange, PopLink, Flushes
      <4> QED BY <1>2, <2>1, <4>1 DEF Types
    <3> QED BY <1>8, <3>1, <3>2
  <2> QED BY <1>1, <2>1, <2>2, <2>3, <2>4, FlushMoves
<1> QED BY <1>5, <1>6, <1>7, <1>8

(* The steps that pass a claim on.                                         *)

(* fetch_add: the poster that finds zero gets the claim nobody has.        *)
LEMMA CountTaskStep ==
  ASSUME IInv, NEW t \in Thread, CountTask(t)
  PROVE  IInv'
<1> DEFINE q == Target(t)
           r == mRemainTaskCount
<1>1. Types /\ Claims(post, flush, LExecuterList, r)
  BY DEF IInv
<1>2. post[t] \in PostType /\ post[t].job \in Job /\ q \in Object
  BY <1>1, DispatcherAssumption DEF Types, CountTask, Posts, Target
<1>3. /\ UNCHANGED <<mHead, mTail, mNext, flush, armed, LExecuterList, fresh>>
      /\ \A u \in Thread \ {t} : post'[u] = post[u]
      /\ r' \in [Object -> Nat] /\ r'[q] # 0
      /\ \A o \in Object \ {q} : r'[o] = r[o]
  BY <1>1, <1>2 DEF CountTask, Types, queues, timers, lists, jobs
<1>4. /\ post' \in [Thread -> PostType]
      /\ post'[t].at = "exchange" /\ post'[t].job = post[t].job
      /\ post'[t].first = (r[q] = 0)
  BY <1>1, <1>2 DEF CountTask, Types, PostType, PostAt
<1>5. Types'
  BY <1>1, <1>2, <1>3, <1>4 DEF Types
<1>6. ASSUME NEW o \in Object, o # q \/ r[q] # 0
      PROVE  ~ HasPost(post'[t], o)
  BY <1>4, <1>6 DEF HasPost, Target
<1>7. ASSUME NEW o \in Object PROVE Unique(post', flush', LExecuterList', o)
  <2>1. CASE o # q \/ r[q] # 0
    <3>1. Unique(post, flush, LExecuterList, o) BY <1>1 DEF Claims
    <3>2. ~ HasPost(post'[t], o) BY <1>6, <2>1
    <3> QED BY <1>3, <3>1, <3>2, KeepUnique
  <2>2. CASE o = q /\ r[q] = 0
    <3>1. Free(post, flush, LExecuterList, o) BY <1>1, <2>2 DEF Claims
    <3> QED BY <1>3, <3>1, OneTakes DEF Free
  <2> QED BY <2>1, <2>2
<1>8. ASSUME NEW o \in Object, r'[o] = 0 PROVE Free(post', flush', LExecuterList', o)
  <2>1. o # q /\ r[o] = 0 BY <1>3, <1>8
  <2>2. Free(post, flush, LExecuterList, o) BY <1>1, <2>1 DEF Claims
  <2>3. ~ HasPost(post'[t], o) BY <1>6, <2>1
  <2> QED BY <1>3, <2>2, <2>3, KeepFree
<1>9. Claims(post', flush', LExecuterList', r')
  BY <1>1, <1>3, <1>7, <1>8 DEF Claims
<1> QED BY <1>5, <1>9 DEF IInv

(* push_back of an object that is not in the executor list.                *)
LEMMA AppendList ==
  ASSUME NEW l \in Seq(Object), NEW q \in Object, Distinct(l), ~ InList(l, q)
  PROVE  /\ Distinct(Append(l, q))
         /\ \A o \in Object : o # q /\ InList(Append(l, q), o) => InList(l, o)
<1>1. /\ Len(Append(l, q)) = Len(l) + 1 /\ Len(l) \in Nat
      /\ \A i \in 1 .. Len(l) : Append(l, q)[i] = l[i]
      /\ Append(l, q)[Len(l) + 1] = q
  OBVIOUS
<1> QED BY <1>1 DEF Distinct, InList

(* front and pop_front of an executor list without repetition.             *)
LEMMA TailList ==
  ASSUME NEW l \in Seq(Object), l # <<>>, Distinct(l)
  PROVE  /\ Head(l) \in Object /\ Tail(l) \in Seq(Object)
         /\ InList(l, Head(l)) /\ ~ InList(Tail(l), Head(l)) /\ Distinct(Tail(l))
         /\ \A o \in Object : InList(Tail(l), o) => InList(l, o)
<1>1. /\ Len(Tail(l)) = Len(l) - 1 /\ Len(l) \in Nat /\ Len(l) > 0
      /\ \A i \in 1 .. Len(l) - 1 : Tail(l)[i] = l[i + 1]
      /\ Head(l) = l[1] /\ Tail(l) \in Seq(Object) /\ l[1] \in Object
  OBVIOUS
<1> QED BY <1>1 DEF Distinct, InList

(* The claim on q moves inside t from its post or its list to its list or  *)
(* its Flush.                                                              *)
Moved(p, f, l, p2, f2, l2, t, q) ==
  /\ \A u \in Thread \ {t} : p2[u] = p[u] /\ f2[u] = f[u] /\ l2[u] = l[u]
  /\ HasPost(p[t], q) \/ InList(l[t], q)
  /\ Distinct(l2[t])
  /\ \A o \in Object : ~ HasPost(p2[t], o)
  /\ \A o \in Object : o # q /\ HasFlush(f2[t], o) => HasFlush(f[t], o)
  /\ \A o \in Object : o # q /\ InList(l2[t], o) => InList(l[t], o)
  /\ ~ (HasFlush(f2[t], q) /\ InList(l2[t], q))

(* Passing a claim on inside one thread keeps it the only one.             *)
LEMMA ClaimMoves ==
  ASSUME NEW p, NEW f, NEW l, NEW r, NEW p2, NEW f2, NEW l2,
         NEW t \in Thread, NEW q \in Object,
         Claims(p, f, l, r), Moved(p, f, l, p2, f2, l2, t, q)
  PROVE  Claims(p2, f2, l2, r)
<1> USE DEF Moved
<1>1. \A u \in Thread : Distinct(l2[u])
  BY DEF Claims
<1>2. \A o \in Object : Unique(p, f, l, o) /\ (r[o] = 0 => Free(p, f, l, o))
  BY DEF Claims
<1>3. r[q] # 0
  BY <1>2 DEF Free
<1>4. ASSUME NEW o \in Object PROVE Unique(p2, f2, l2, o)
  <2>1. CASE o # q
    <3>1. Unique(p, f, l, o) BY <1>2
    <3> QED BY <2>1, <3>1, KeepUnique
  <2>2. CASE o = q
    <3>1. Unique(p, f, l, q) BY <1>2
    <3>2. \A u \in Thread \ {t} : /\ ~ HasPost(p2[u], q) /\ ~ HasFlush(f2[u], q)
                                  /\ ~ InList(l2[u], q)
      BY <3>1 DEF Unique
    <3>3. Unique(p2, f2, l2, q)
      BY <3>2, OneTakes
    <3> QED BY <2>2, <3>3
  <2> QED BY <2>1, <2>2
<1>5. ASSUME NEW o \in Object, r[o] = 0 PROVE Free(p2, f2, l2, o)
  <2>1. o # q /\ Free(p, f, l, o) BY <1>2, <1>3, <1>5
  <2> QED BY <2>1, KeepFree
<1> QED BY <1>1, <1>4, <1>5 DEF Claims

(* The first poster's claim goes to its executor list or its Flush.        *)
LEMMA AddRefStep ==
  ASSUME IInv, NEW t \in Thread, AddRefForThis(t)
  PROVE  IInv'
<1> DEFINE q == Target(t)
           l == LExecuterList[t]
<1>1. Types /\ Claims(post, flush, LExecuterList, mRemainTaskCount)
  BY DEF IInv
<1>2. /\ post[t].at = "addref" /\ post[t].job \in Job /\ q \in Object
      /\ l \in Seq(Object)
  BY <1>1, DispatcherAssumption DEF Types, AddRefForThis, Posts, Target
<1>3. HasPost(post[t], q)
  BY <1>2 DEF HasPost, Target
<1>4. Distinct(l) /\ ~ InList(l, q)
  BY <1>1, <1>2, <1>3 DEF Claims, Unique
<1>5. /\ UNCHANGED <<mHead, mTail, mNext, mRemainTaskCount, armed, fresh>>
      /\ post' = [post EXCEPT ![t] = NoPost]
  BY DEF AddRefForThis, queues, timers, jobs
<1>6. /\ post' \in [Thread -> PostType] /\ post'[t].at = "no"
      /\ \A u \in Thread \ {t} : post'[u] = post[u]
  BY <1>1, <1>5 DEF Types, NoPost, PostType, PostAt
<1>7. \A o \in Object : ~ HasPost(post'[t], o)
  BY <1>6 DEF HasPost
<1>8. CASE /\ LExecuterList' = [LExecuterList EXCEPT ![t] = Append(@, q)]
           /\ UNCHANGED flush
  <2>1. /\ LExecuterList' \in [Thread -> Seq(Object)]
        /\ LExecuterList'[t] = Append(l, q)
        /\ \A u \in Thread \ {t} : LExecuterList'[u] = LExecuterList[u]
    BY <1>1, <1>2, <1>8 DEF Types
  <2>2. Types'
    BY <1>1, <1>5, <1>6, <1>8, <2>1 DEF Types
  <2>3. /\ Distinct(LExecuterList'[t])
        /\ \A o \in Object : o # q /\ InList(LExecuterList'[t], o) => InList(l, o)
    BY <1>2, <1>4, <2>1, AppendList
  <2>4. ~ HasFlush(flush'[t], q)
    BY <1>1, <1>2, <1>3, <1>8 DEF Claims, Unique
  <2>5. \A u \in Thread \ {t} : /\ post'[u] = post[u] /\ flush'[u] = flush[u]
                                /\ LExecuterList'[u] = LExecuterList[u]
    BY <1>6, <1>8, <2>1
  <2>6. \A o \in Object : HasFlush(flush'[t], o) => HasFlush(flush[t], o)
    BY <1>8
  <2>7. Moved(post, flush, LExecuterList, post', flush', LExecuterList', t, q)
    BY <1>3, <1>7, <2>3, <2>4, <2>5, <2>6 DEF Moved
  <2>8. Claims(post', flush', LExecuterList', mRemainTaskCount)
    BY <1>1, <1>2, <2>7, ClaimMoves
  <2> QED BY <1>5, <2>2, <2>8 DEF IInv
<1>9. CASE /\ flush' = [flush EXCEPT ![t] = [NoFlush EXCEPT !.at = "pop", !.obj = q]]
           /\ UNCHANGED LExecuterList
  <2>1. /\ flush' \in [Thread -> FlushType]
        /\ flush'[t].at = "pop" /\ flush'[t].obj = q
        /\ \A u \in Thread \ {t} : flush'[u] = flush[u]
    BY <1>1, <1>2, <1>9 DEF Types, NoFlush, FlushType, FlushAt
  <2>2. Types'
    BY <1>1, <1>2, <1>5, <1>6, <1>9, <2>1 DEF Types
  <2>3. \A o \in Object : o # q /\ HasFlush(flush'[t], o) => HasFlush(flush[t], o)
    BY <2>1 DEF HasFlush
  <2>4. \A u \in Thread \ {t} : /\ post'[u] = post[u] /\ flush'[u] = flush[u]
                                /\ LExecuterList'[u] = LExecuterList[u]
    BY <1>6, <1>9, <2>1
  <2>5. /\ Distinct(LExecuterList'[t]) /\ ~ InList(LExecuterList'[t], q)
        /\ \A o \in Object : o # q /\ InList(LExecuterList'[t], o) => InList(l, o)
    BY <1>4, <1>9
  <2>6. Moved(post, flush, LExecuterList, post', flush', LExecuterList', t, q)
    BY <1>3, <1>7, <2>3, <2>4, <2>5 DEF Moved
  <2>7. Claims(post', flush', LExecuterList', mRemainTaskCount)
    BY <1>1, <1>2, <2>6, ClaimMoves
  <2> QED BY <1>5, <2>2, <2>7 DEF IInv
<1> QED BY <1>8, <1>9 DEF AddRefForThis

(* The claim of the listed object goes to the Flush that begins.           *)
LEMMA NextExecuterStep ==
  ASSUME IInv, NEW t \in Thread, NextExecuter(t)
  PROVE  IInv'
<1> DEFINE l == LExecuterList[t]
           q == Head(l)
<1>1. Types /\ Claims(post, flush, LExecuterList, mRemainTaskCount)
  BY DEF IInv
<1>2. l \in Seq(Object) /\ l # <<>> /\ Distinct(l) /\ post[t].at = "no"
  BY <1>1 DEF Types, Claims, NextExecuter, Flushes
<1>3. /\ q \in Object /\ Tail(l) \in Seq(Object)
      /\ InList(l, q) /\ ~ InList(Tail(l), q) /\ Distinct(Tail(l))
      /\ \A o \in Object : InList(Tail(l), o) => InList(l, o)
  BY <1>2, TailList
<1>4. UNCHANGED <<mHead, mTail, mNext, mRemainTaskCount, post, armed, fresh>>
  BY DEF NextExecuter, queues, counts, timers, jobs
<1>5. /\ LExecuterList' \in [Thread -> Seq(Object)]
      /\ LExecuterList'[t] = Tail(l)
      /\ \A u \in Thread \ {t} : LExecuterList'[u] = LExecuterList[u]
  BY <1>1, <1>3 DEF Types, NextExecuter
<1>6. /\ flush' \in [Thread -> FlushType]
      /\ flush'[t].at = "pop" /\ flush'[t].obj = q
      /\ \A u \in Thread \ {t} : flush'[u] = flush[u]
  BY <1>1, <1>3 DEF Types, NextExecuter, NoFlush, FlushType, FlushAt
<1>7. Types'
  BY <1>1, <1>3, <1>4, <1>5, <1>6 DEF Types
<1>8. \A o \in Object : ~ HasPost(post'[t], o)
  BY <1>2, <1>4 DEF HasPost
<1>9. \A o \in Object : o # q /\ HasFlush(flush'[t], o) => HasFlush(flush[t], o)
  BY <1>6 DEF HasFlush
<1>10. \A u \in Thread \ {t} : /\ post'[u] = post[u] /\ flush'[u] = flush[u]
                               /\ LExecuterList'[u] = LExecuterList[u]
  BY <1>4, <1>5, <1>6
<1>11. /\ InList(LExecuterList[t], q) /\ ~ InList(LExecuterList'[t], q)
       /\ Distinct(LExecuterList'[t])
       /\ \A o \in Object : o # q /\ InList(LExecuterList'[t], o)
                            => InList(LExecuterList[t], o)
  BY <1>3, <1>5
<1>12. Moved(post, flush, LExecuterList, post', flush', LExecuterList', t, q)
  BY <1>8, <1>9, <1>10, <1>11 DEF Moved
<1>13. Claims(post', flush', LExecuterList', mRemainTaskCount)
  BY <1>1, <1>3, <1>12, ClaimMoves
<1> QED BY <1>4, <1>7, <1>13 DEF IInv

(* fetch_sub: the consumer leaves exactly when the count becomes zero.     *)
LEMMA CountDownStep ==
  ASSUME IInv, NEW t \in Thread, CountDown(t)
  PROVE  IInv'
<1> DEFINE q == flush[t].obj
           r == mRemainTaskCount
<1>1. Types /\ Claims(post, flush, LExecuterList, r)
  BY DEF IInv
<1>2. flush[t] \in FlushType /\ flush[t].at = "count" /\ q \in Object
  BY <1>1 DEF Types, CountDown, Flushes
<1>3. HasFlush(flush[t], q)
  BY <1>2 DEF HasFlush
<1>4. r[q] \in Nat \ {0}
  BY <1>1, <1>2, <1>3 DEF Types, Claims, Free
<1>5. /\ UNCHANGED <<mHead, mTail, mNext, post, armed, LExecuterList, fresh>>
      /\ r' = [r EXCEPT ![q] = @ - 1]
  BY DEF CountDown, queues, timers, lists, jobs
<1>6. /\ r' \in [Object -> Nat] /\ r'[q] = r[q] - 1
      /\ \A o \in Object \ {q} : r'[o] = r[o]
  BY <1>1, <1>2, <1>4, <1>5 DEF Types
<1>7. /\ flush' \in [Thread -> FlushType] /\ flush'[t].obj = q
      /\ flush'[t].at = IF r[q] # 1 THEN "pop"
                        ELSE IF flush[t].listed THEN "release" ELSE "list"
      /\ \A u \in Thread \ {t} : flush'[u] = flush[u]
  BY <1>1, <1>2 DEF Types, CountDown, Goes, FlushType, FlushAt
<1>8. Types'
  BY <1>1, <1>2, <1>5, <1>6, <1>7 DEF Types
<1>9. \A o \in Object : HasFlush(flush'[t], o) => HasFlush(flush[t], o)
  BY <1>3, <1>7 DEF HasFlush
<1>10. ASSUME NEW o \in Object PROVE Unique(post', flush', LExecuterList', o)
  <2>1. Unique(post, flush, LExecuterList, o) BY <1>1 DEF Claims
  <2>2. /\ \A u \in Thread \ {t} : /\ post'[u] = post[u] /\ flush'[u] = flush[u]
                                   /\ LExecuterList'[u] = LExecuterList[u]
        /\ HasPost(post'[t], o) => HasPost(post[t], o)
        /\ InList(LExecuterList'[t], o) => InList(LExecuterList[t], o)
    BY <1>5, <1>7
  <2> QED BY <1>9, <2>1, <2>2, KeepUnique
<1>11. ASSUME NEW o \in Object, r'[o] = 0 PROVE Free(post', flush', LExecuterList', o)
  <2>1. CASE o # q
    <3>1. Free(post, flush, LExecuterList, o) BY <1>1, <1>6, <1>11, <2>1 DEF Claims
    <3>2. UNCHANGED <<post, LExecuterList>> BY <1>5
    <3> QED BY <1>7, <1>9, <3>1, <3>2, KeepFree
  <2>2. CASE o = q
    <3>1. ~ HasFlush(flush'[t], q)
      BY <1>4, <1>6, <1>7, <1>11, <2>2 DEF HasFlush
    <3>2. Unique(post, flush, LExecuterList, q)
      BY <1>1, <1>2 DEF Claims
    <3>3. \A u \in Thread : /\ ~ HasPost(post[u], q) /\ ~ InList(LExecuterList[u], q)
                            /\ u # t => ~ HasFlush(flush[u], q)
      BY <1>3, <3>2 DEF Unique
    <3> QED BY <1>5, <1>7, <2>2, <3>1, <3>3 DEF Free
  <2> QED BY <2>1, <2>2
<1>12. Claims(post', flush', LExecuterList', r')
  BY <1>1, <1>5, <1>10, <1>11 DEF Claims
<1> QED BY <1>8, <1>12 DEF IInv

(* After Flush nothing is claimed, and the references are only counted.    *)
LEMMA LeaveStep ==
  ASSUME IInv, NEW t \in Thread, ReleaseListed(t) \/ LeaveThread(t)
  PROVE  IInv'
<1>1. Types /\ Claims(post, flush, LExecuterList, mRemainTaskCount)
  BY DEF IInv
<1>2. UNCHANGED <<mHead, mTail, mNext, mRemainTaskCount, post, armed,
                  LExecuterList, fresh>>
  BY DEF ReleaseListed, LeaveThread, queues, timers, lists, jobs
<1>3. /\ flush' \in [Thread -> FlushType]
      /\ flush'[t].at \in {"no", "list"}
      /\ flush'[t].at # "no" => flush'[t].obj \in Object
      /\ \A u \in Thread \ {t} : flush'[u] = flush[u]
  <2>1. CASE ReleaseListed(t)
    <3>1. flush[t] \in FlushType /\ flush[t].obj \in Object
      BY <1>1, <2>1 DEF Types, ReleaseListed, Flushes
    <3> QED BY <1>1, <2>1, <3>1 DEF Types, ReleaseListed, Goes, FlushType, FlushAt
  <2>2. CASE LeaveThread(t)
    BY <1>1, <2>2 DEF Types, LeaveThread, NoFlush, FlushType, FlushAt
  <2> QED BY <2>1, <2>2
<1>4. Types'
  BY <1>1, <1>2, <1>3 DEF Types
<1>5. \A o \in Object : ~ HasFlush(flush'[t], o)
  BY <1>3 DEF HasFlush
<1>6. Claims(post', flush', LExecuterList', mRemainTaskCount)
  BY <1>1, <1>2, <1>3, <1>5, KeepClaims
<1> QED BY <1>2, <1>4, <1>6 DEF IInv

(* The invariant is inductive.                                             *)
LEMMA StepIInv == IInv /\ [Next]_vars => IInv'
<1> SUFFICES ASSUME IInv, [Next]_vars PROVE IInv'
  OBVIOUS
<1>1. ASSUME NEW t \in Thread, NEW j \in Job, DoAsync(t, j) \/ DoAsyncAfter(t, j)
      PROVE  IInv'
  BY <1>1, CallStep, TimerStep
<1>2. ASSUME NEW t \in Thread, DoTimerJob(t) \/ DispatchStep(t) PROVE IInv'
  BY <1>2, CallStep, TimerStep, CountTaskStep, PushStep, AddRefStep, PopStep,
     CountDownStep, LeaveStep, NextExecuterStep
  DEF DispatchStep
<1>3. CASE UNCHANGED vars
  BY <1>3 DEF IInv, Types, vars, queues, counts, lists, timers, jobs
<1> QED BY <1>1, <1>2, <1>3 DEF Next, Quiet

(* Two consumers would be two claims on one object.                        *)
LEMMA UniqueConsumer == IInv => SingleConsumer
<1> SUFFICES ASSUME IInv, NEW o \in Object, NEW t \in Thread, NEW u \in Thread,
                    Consumes(t, o), Consumes(u, o)
             PROVE  t = u
  BY DEF SingleConsumer
<1>1. HasFlush(flush[t], o) /\ HasFlush(flush[u], o)
  BY DEF Consumes, HasFlush
<1>2. Unique(post, flush, LExecuterList, o)
  BY DEF IInv, Claims
<1> QED BY <1>1, <1>2 DEF Unique

(* JobQueue::Pop is only for a "single consume": no two threads are ever   *)
(* inside AsyncExecutable::Flush of the same object, for any number of     *)
(* threads, objects and jobs and any nesting of posts.                     *)
THEOREM OneConsumer == Spec => []SingleConsumer
<1>1. Init => IInv BY InitIInv
<1>2. IInv /\ [Next]_vars => IInv' BY StepIInv
<1>3. IInv => SingleConsumer BY UniqueConsumer
<1> QED BY <1>1, <1>2, <1>3, PTL DEF Spec

-----------------------------------------------------------------------------
(* The types of the rest of the state.                                     *)

More ==
  /\ timer \in [Thread -> Job \cup {nullptr}]
  /\ waiting \in [Object -> Seq(Job)] /\ executing \in [Object -> SUBSET Job]
  /\ freed \subseteq Job
  /\ LCurrentExecuterOccupyingThisThread \in [Thread -> Object \cup {nullptr}]
  /\ mRefCount \in [Object -> Int]

(* A thread is occupied by the first object whose Flush it is in.          *)
Occupied ==
  \A t \in Thread :
     /\ LCurrentExecuterOccupyingThisThread[t] \in Object \cup {nullptr}
     /\ LCurrentExecuterOccupyingThisThread[t] = nullptr <=> flush[t].at = "no"
     /\ flush[t].at \notin {"no", "list"} /\ ~ flush[t].listed =>
          flush[t].obj = LCurrentExecuterOccupyingThisThread[t]
     /\ flush[t].at = "release" => flush[t].listed

(* RemoveAt leaves the elements before and behind.                         *)
LEMMA ConcatLength ==
  ASSUME NEW S, NEW a \in Seq(S), NEW b \in Seq(S)
  PROVE  Len(a \o b) = Len(a) + Len(b) /\ a \o b \in Seq(S)
OBVIOUS

LEMMA RemoveAtElements ==
  ASSUME NEW S, NEW w \in Seq(S), NEW k \in 1 .. Len(w)
  PROVE  /\ RemoveAt(w, k) \in Seq(S) /\ Len(RemoveAt(w, k)) = Len(w) - 1
         /\ \A i \in 1 .. Len(w) - 1 :
              RemoveAt(w, k)[i] = IF i < k THEN w[i] ELSE w[i + 1]
<1> DEFINE a == SubSeq(w, 1, k - 1)
           b == SubSeq(w, k + 1, Len(w))
<1>1. Len(w) \in Nat /\ k \in Nat /\ k <= Len(w) /\ 1 <= k
  OBVIOUS
<1>2. a \in Seq(S) /\ Len(a) = k - 1 /\ \A i \in 1 .. k - 1 : a[i] = w[i]
  <2>1. \A i \in 1 .. k - 1 : w[i] \in S OBVIOUS
  <2> QED BY <2>1
<1>3. /\ b \in Seq(S) /\ Len(b) = Len(w) - k
      /\ \A i \in 1 .. Len(w) - k : b[i] = w[i + k]
  <2>1. \A i \in k + 1 .. Len(w) : w[i] \in S OBVIOUS
  <2> QED BY <2>1
<1> HIDE DEF a, b
<1>4. a \o b \in Seq(S) /\ Len(a \o b) = Len(w) - 1
  <2>1. Len(a \o b) = Len(a) + Len(b) /\ a \o b \in Seq(S)
    BY <1>2, <1>3, ConcatLength
  <2> QED BY <1>1, <1>2, <1>3, <2>1
<1>5. ASSUME NEW i \in 1 .. Len(w) - 1
      PROVE  (a \o b)[i] = IF i < k THEN w[i] ELSE w[i + 1]
  <2>1. CASE i < k BY <1>2, <1>3, <2>1
  <2>2. CASE i >= k
    <3>1. (a \o b)[i] = b[i - Len(a)] BY <1>2, <1>3, <2>2
    <3>2. /\ i - Len(a) = i - k + 1 /\ i - k + 1 \in 1 .. Len(w) - k
          /\ (i - k + 1) + k = i + 1
      BY <1>2, <2>2
    <3> QED BY <1>3, <2>2, <3>1, <3>2
  <2>3. i < k \/ i >= k BY <1>1
  <2> QED BY <2>1, <2>2, <2>3
<1>6. RemoveAt(w, k) = a \o b BY DEF RemoveAt, a, b
<1> QED BY <1>4, <1>5, <1>6

(* RemoveFirst of an element that is there once.                           *)
LEMMA RemoveFirstAt ==
  ASSUME NEW S, NEW w \in Seq(S), NEW k \in 1 .. Len(w), Distinct(w)
  PROVE  RemoveFirst(w, w[k]) = RemoveAt(w, k)
<1>1. SelectInSeq(w, LAMBDA v : v = w[k]) = k
  <2>1. {i \in 1 .. Len(w) : w[i] = w[k]} = {k} BY DEF Distinct
  <2>2. Min({k}) = k BY DEF Min
  <2> QED BY <2>1, <2>2, Zenon DEF SelectInSeq
<1> QED BY <1>1, Zenon DEF RemoveFirst

(* ... and of one that is not there.                                       *)
LEMMA RemoveFirstNone ==
  ASSUME NEW w, NEW e, ~ InList(w, e)
  PROVE  RemoveFirst(w, e) = w
BY Zenon DEF RemoveFirst, InList

(* Sequences that agree are equal.                                         *)
LEMMA SameSeq ==
  ASSUME NEW S, NEW a \in Seq(S), NEW b \in Seq(S), Len(a) = Len(b),
         \A i \in 1 .. Len(a) : a[i] = b[i]
  PROVE  a = b
OBVIOUS

(* Appending behind, and then leaving e out.                               *)
LEMMA RemoveAppend ==
  ASSUME NEW S, NEW w \in Seq(S), NEW x \in S, NEW e, Distinct(w), x # e,
         ~ InList(w, x)
  PROVE  RemoveFirst(Append(w, x), e) = Append(RemoveFirst(w, e), x)
<1> DEFINE v == Append(w, x)
<1>1. /\ v \in Seq(S) /\ Len(v) = Len(w) + 1 /\ Len(w) \in Nat
      /\ \A i \in 1 .. Len(w) : v[i] = w[i]
      /\ v[Len(w) + 1] = x
  OBVIOUS
<1> HIDE DEF v
<1>2. Distinct(v)
  BY <1>1 DEF Distinct, InList
<1>3. CASE InList(w, e)
  <2>1. PICK k \in 1 .. Len(w) : w[k] = e
    BY <1>3 DEF InList
  <2>2. k \in 1 .. Len(v) /\ v[k] = e
    BY <1>1, <2>1
  <2>3. RemoveFirst(v, e) = RemoveAt(v, k) /\ RemoveFirst(w, e) = RemoveAt(w, k)
    BY <1>1, <1>2, <2>1, <2>2, RemoveFirstAt
  <2> DEFINE a == RemoveAt(v, k)
             b == RemoveAt(w, k)
             c == Append(b, x)
  <2>4. /\ a \in Seq(S) /\ Len(a) = Len(w)
        /\ \A i \in 1 .. Len(w) : a[i] = IF i < k THEN v[i] ELSE v[i + 1]
    <3>1. /\ a \in Seq(S) /\ Len(a) = Len(v) - 1
          /\ \A i \in 1 .. Len(v) - 1 : a[i] = IF i < k THEN v[i] ELSE v[i + 1]
      BY <1>1, <2>2, RemoveAtElements
    <3>2. Len(v) - 1 = Len(w) BY <1>1
    <3> QED BY <3>1, <3>2
  <2>5. /\ b \in Seq(S) /\ Len(b) = Len(w) - 1
        /\ \A i \in 1 .. Len(w) - 1 : b[i] = IF i < k THEN w[i] ELSE w[i + 1]
    BY <2>1, RemoveAtElements
  <2> HIDE DEF a, b
  <2>6. /\ c \in Seq(S) /\ Len(c) = Len(w)
        /\ \A i \in 1 .. Len(w) - 1 : c[i] = b[i]
        /\ c[Len(w)] = x
    BY <1>1, <2>5
  <2> HIDE DEF c
  <2>7. ASSUME NEW i \in 1 .. Len(w) PROVE a[i] = c[i]
    <3>1. CASE i = Len(w) BY <1>1, <2>1, <2>4, <2>6, <3>1
    <3>2. CASE i # Len(w)
      <4>1. i \in 1 .. Len(w) - 1 /\ i + 1 \in 1 .. Len(w)
        BY <1>1, <3>2
      <4>2. a[i] = IF i < k THEN w[i] ELSE w[i + 1]
        BY <1>1, <2>4, <4>1
      <4> QED BY <2>5, <2>6, <4>1, <4>2
    <3> QED BY <3>1, <3>2
  <2>8. a = c BY <1>1, <2>4, <2>6, <2>7, SameSeq
  <2> QED BY <2>3, <2>8 DEF a, b, c, v
<1>4. CASE ~ InList(w, e)
  <2>1. ~ InList(v, e) BY <1>1, <1>4 DEF InList
  <2> QED BY <1>4, <2>1, RemoveFirstNone DEF v
<1> QED BY <1>3, <1>4

(* Appending e itself and leaving it out again.                            *)
LEMMA RemoveAppended ==
  ASSUME NEW S, NEW w \in Seq(S), NEW e \in S, Distinct(w), ~ InList(w, e)
  PROVE  RemoveFirst(Append(w, e), e) = w
<1> DEFINE v == Append(w, e)
           k == Len(w) + 1
<1>1. /\ v \in Seq(S) /\ Len(v) = Len(w) + 1 /\ Len(w) \in Nat
      /\ \A i \in 1 .. Len(w) : v[i] = w[i]
      /\ v[k] = e /\ k \in 1 .. Len(v)
  OBVIOUS
<1> HIDE DEF v
<1>2. Distinct(v)
  BY <1>1 DEF Distinct, InList
<1>3. RemoveFirst(v, e) = RemoveAt(v, k)
  BY <1>1, <1>2, RemoveFirstAt
<1>4. /\ RemoveAt(v, k) \in Seq(S) /\ Len(RemoveAt(v, k)) = Len(w)
      /\ \A i \in 1 .. Len(w) : RemoveAt(v, k)[i] = w[i]
  <2>1. /\ RemoveAt(v, k) \in Seq(S) /\ Len(RemoveAt(v, k)) = Len(v) - 1
        /\ \A i \in 1 .. Len(v) - 1 :
             RemoveAt(v, k)[i] = IF i < k THEN v[i] ELSE v[i + 1]
    BY <1>1, RemoveAtElements
  <2>2. Len(v) - 1 = Len(w) BY <1>1
  <2> QED BY <1>1, <2>1, <2>2
<1>5. RemoveAt(v, k) = w
  BY <1>1, <1>4, SameSeq
<1> QED BY <1>3, <1>5 DEF v

(* The first element is left out.                                          *)
LEMMA RemoveHead ==
  ASSUME NEW S, NEW w \in Seq(S), w # <<>>, Distinct(w)
  PROVE  RemoveFirst(w, w[1]) = Tail(w)
<1>1. 1 \in 1 .. Len(w) /\ Len(w) \in Nat /\ Len(w) > 0
  OBVIOUS
<1>2. RemoveFirst(w, w[1]) = RemoveAt(w, 1)
  BY <1>1, RemoveFirstAt
<1>3. /\ RemoveAt(w, 1) \in Seq(S) /\ Len(RemoveAt(w, 1)) = Len(w) - 1
      /\ \A i \in 1 .. Len(w) - 1 : RemoveAt(w, 1)[i] = w[i + 1]
  BY <1>1, RemoveAtElements
<1>4. /\ Tail(w) \in Seq(S) /\ Len(Tail(w)) = Len(w) - 1
      /\ \A i \in 1 .. Len(w) - 1 : Tail(w)[i] = w[i + 1]
  BY <1>1
<1> QED BY <1>2, <1>3, <1>4, SameSeq

(* An element behind the first is left out.                                *)
LEMMA RemoveBehind ==
  ASSUME NEW S, NEW w \in Seq(S), w # <<>>, NEW e, Distinct(w), w[1] # e
  PROVE  /\ RemoveFirst(w, e) \in Seq(S) /\ RemoveFirst(w, e) # <<>>
         /\ RemoveFirst(w, e)[1] = w[1]
         /\ Tail(RemoveFirst(w, e)) = RemoveFirst(Tail(w), e)
         /\ Distinct(RemoveFirst(w, e))
<1>1. Len(w) \in Nat /\ Len(w) > 0
  OBVIOUS
<1> DEFINE v == Tail(w)
<1>2. /\ v \in Seq(S) /\ Len(v) = Len(w) - 1
      /\ \A i \in 1 .. Len(w) - 1 : v[i] = w[i + 1]
  BY <1>1
<1> HIDE DEF v
<1>3. Distinct(v)
  BY <1>1, <1>2 DEF Distinct
<1>4. CASE InList(w, e)
  <2>1. PICK k \in 1 .. Len(w) : w[k] = e
    BY <1>4 DEF InList
  <2>2. k # 1 /\ k - 1 \in 1 .. Len(v) /\ v[k - 1] = e
    BY <1>1, <1>2, <2>1
  <2>3. RemoveFirst(v, e) = RemoveAt(v, k - 1) /\ RemoveFirst(w, e) = RemoveAt(w, k)
    BY <1>2, <1>3, <2>1, <2>2, RemoveFirstAt
  <2> DEFINE a == RemoveAt(v, k - 1)
             b == RemoveAt(w, k)
             c == Tail(b)
  <2>4. /\ a \in Seq(S) /\ Len(a) = Len(w) - 2
        /\ \A i \in 1 .. Len(w) - 2 : a[i] = IF i < k - 1 THEN v[i] ELSE v[i + 1]
    <3>1. /\ a \in Seq(S) /\ Len(a) = Len(v) - 1
          /\ \A i \in 1 .. Len(v) - 1 :
               a[i] = IF i < k - 1 THEN v[i] ELSE v[i + 1]
      BY <1>2, <2>2, RemoveAtElements
    <3>2. Len(v) - 1 = Len(w) - 2 BY <1>1, <1>2
    <3> QED BY <3>1, <3>2
  <2>5. /\ b \in Seq(S) /\ Len(b) = Len(w) - 1
        /\ \A i \in 1 .. Len(w) - 1 : b[i] = IF i < k THEN w[i] ELSE w[i + 1]
    BY <2>1, RemoveAtElements
  <2> HIDE DEF a, b
  <2>6. b # <<>> /\ b[1] = w[1] /\ Len(w) - 1 > 0
    BY <1>1, <2>1, <2>2, <2>5
  <2>7. /\ c \in Seq(S) /\ Len(c) = Len(w) - 2
        /\ \A i \in 1 .. Len(w) - 2 : c[i] = b[i + 1]
    BY <1>1, <2>5, <2>6
  <2> HIDE DEF c
  <2>8. ASSUME NEW i \in 1 .. Len(w) - 2 PROVE a[i] = c[i]
    <3>1. /\ i + 1 \in 1 .. Len(w) - 1 /\ i \in 1 .. Len(w) - 1
          /\ (i < k - 1) = (i + 1 < k) /\ (i + 1) + 1 = i + 2
      BY <1>1, <2>1
    <3>2. v[i] = w[i + 1] /\ v[i + 1] = w[i + 2]
      BY <1>2, <3>1
    <3>3. a[i] = IF i + 1 < k THEN w[i + 1] ELSE w[i + 2]
      BY <2>4, <3>1, <3>2
    <3>4. c[i] = IF i + 1 < k THEN w[i + 1] ELSE w[i + 2]
      BY <2>5, <2>7, <3>1
    <3> QED BY <3>3, <3>4
  <2>9. a = c BY <1>1, <2>4, <2>7, <2>8, SameSeq
  <2>10. Distinct(b)
    <3> SUFFICES ASSUME NEW i \in 1 .. Len(b), NEW m \in 1 .. Len(b), b[i] = b[m]
                 PROVE  i = m
      BY DEF Distinct
    <3>1. PICK x \in 1 .. Len(w) : b[i] = w[x] /\ x = IF i < k THEN i ELSE i + 1
      BY <1>1, <2>1, <2>5
    <3>2. PICK y \in 1 .. Len(w) : b[m] = w[y] /\ y = IF m < k THEN m ELSE m + 1
      BY <1>1, <2>1, <2>5
    <3>3. x = y BY <3>1, <3>2 DEF Distinct
    <3> QED BY <1>1, <2>1, <2>5, <3>1, <3>2, <3>3
  <2> QED BY <2>3, <2>5, <2>6, <2>9, <2>10 DEF a, b, c, v
<1>5. CASE ~ InList(w, e)
  <2>1. ~ InList(v, e) BY <1>1, <1>2, <1>5 DEF InList
  <2> QED BY <1>5, <2>1, RemoveFirstNone DEF v
<1> QED BY <1>4, <1>5

-----------------------------------------------------------------------------
(* The queue: what the list and its jobs look like between any two steps.  *)

(* The nodes of o: its mStub, which is o itself, and the jobs posted to it. *)
Of(o) == {o} \cup {j \in Job : Owner[j] = o}

Follows(q, a, b) == \E i \in 1 .. Len(q) - 1 : q[i] = a /\ q[i + 1] = b

(* A job that no queue has seen: not created, in a timer, or in DoTask     *)
(* before the exchange.                                                    *)
New(j) ==
  \/ j \in fresh
  \/ \E t \in Thread : j \in armed[t] /\ j # timer[t]
  \/ \E t \in Thread : post[t].at \in {"add", "exchange"} /\ post[t].job = j

(* A job is created once, is in one timer at most, and is posted once.     *)
Once ==
  /\ \A t \in Thread : timer[t] = nullptr \/ timer[t] \in armed[t]
  /\ \A t \in Thread : armed[t] \cap fresh = {}
  /\ \A t, u \in Thread : t # u => armed[t] \cap armed[u] = {}
  /\ \A t \in Thread : post[t].at # "no" =>
       /\ post[t].job \notin fresh
       /\ \A u \in Thread : post[t].job \in armed[u] => post[t].job = timer[u]
       /\ \A u \in Thread : post[u].at # "no" /\ post[u].job = post[t].job => t = u

-----------------------------------------------------------------------------
(* Every job is posted once.                                               *)

(* No step makes an old job New again.                                     *)
Older == \A j \in Job : New(j)' => New(j)

(* A step of the calls in progress keeps the rule.                         *)
LEMMA OnceKept ==
  ASSUME Once, UNCHANGED <<fresh, armed, timer>>,
         \A u \in Thread : post'[u].at # "no" =>
            /\ post[u].at # "no" /\ post'[u].job = post[u].job
            /\ post'[u].at \in {"add", "exchange"} => post[u].at \in {"add", "exchange"}
  PROVE  Once' /\ Older
<1>1. Once' BY DEF Once
<1>2. Older BY DEF Older, New
<1> QED BY <1>1, <1>2

LEMMA OnceDispatch ==
  ASSUME Types, Once, NEW t \in Thread, DispatchStep(t), ~ TimerRelease(t)
  PROVE  Once' /\ Older
<1>1. post \in [Thread -> PostType]
  BY DEF Types
<1>2. CASE UNCHANGED <<fresh, timers, post>>
  BY <1>2, OnceKept DEF timers
<1>3. CASE CountTask(t)
  <2>1. UNCHANGED <<fresh, armed, timer>> BY <1>3 DEF CountTask, timers, jobs
  <2>2. \A u \in Thread : post'[u].job = post[u].job /\ (u # t => post'[u] = post[u])
    BY <1>1, <1>3 DEF CountTask, PostType
  <2>3. post[t].at = "add" BY <1>3 DEF CountTask, Posts
  <2> QED BY <2>1, <2>2, <2>3, OnceKept
<1>4. CASE PushExchange(t)
  <2>1. UNCHANGED <<fresh, armed, timer>> BY <1>4 DEF PushExchange, timers, jobs
  <2>2. \A u \in Thread : post'[u].job = post[u].job /\ (u # t => post'[u] = post[u])
    BY <1>1, <1>4 DEF PushExchange, PostType
  <2>3. post[t].at = "exchange" BY <1>4 DEF PushExchange, Posts
  <2> QED BY <2>1, <2>2, <2>3, OnceKept
<1>5. CASE PushLink(t)
  <2>1. UNCHANGED <<fresh, armed, timer>> BY <1>5 DEF PushLink, timers, jobs
  <2>2. \A u \in Thread \ {t} : post'[u] = post[u]
    BY <1>1, <1>5 DEF PushLink
  <2>3. post[t].at = "link" BY <1>5 DEF PushLink, Posts
  <2>4. \/ post'[t].at = "no"
        \/ post'[t].at = "addref" /\ post'[t].job = post[t].job
    BY <1>1, <1>5 DEF PushLink, PostType, NoPost
  <2> QED BY <2>1, <2>2, <2>3, <2>4, OnceKept
<1>6. CASE AddRefForThis(t)
  <2>1. UNCHANGED <<fresh, armed, timer>> BY <1>6 DEF AddRefForThis, timers, jobs
  <2>2. \A u \in Thread \ {t} : post'[u] = post[u]
    BY <1>1, <1>6 DEF AddRefForThis
  <2>3. post'[t].at = "no"
    BY <1>1, <1>6 DEF AddRefForThis, NoPost
  <2> QED BY <2>1, <2>2, <2>3, OnceKept
<1>7. CASE \/ Pop(t) \/ PopSecond(t) \/ PopHead(t) \/ PopClearStub(t) \/ PopExchange(t)
           \/ PopLink(t) \/ PopLast(t) \/ DeleteJob(t) \/ CountDown(t)
           \/ ReleaseListed(t) \/ NextExecuter(t) \/ LeaveThread(t)
  <2>1. UNCHANGED <<fresh, timers, post>>
    BY <1>7 DEF Pop, PopSecond, PopHead, PopClearStub, PopExchange, PopLink, PopLast,
       PopReturns, PopGoes, DeleteJob, CountDown, ReleaseListed, NextExecuter,
       LeaveThread, jobs
  <2> QED BY <1>2, <2>1
<1> QED BY <1>3, <1>4, <1>5, <1>6, <1>7 DEF DispatchStep

(* A timer job that was handed over leaves its timer.                      *)
LEMMA OnceRelease ==
  ASSUME Types, More, Once, NEW t \in Thread, TimerRelease(t)
  PROVE  Once' /\ Older
<1>1. /\ UNCHANGED <<fresh, post>> /\ timer[t] # nullptr
      /\ armed'[t] = armed[t] \ {timer[t]} /\ timer'[t] = nullptr
      /\ \A u \in Thread \ {t} : armed'[u] = armed[u] /\ timer'[u] = timer[u]
  BY DEF Types, More, TimerRelease, jobs
<1>2. Once'
  <2>1. \A u \in Thread : timer'[u] = nullptr \/ timer'[u] \in armed'[u]
    BY <1>1 DEF Once
  <2>2. \A u \in Thread : armed'[u] \cap fresh' = {}
    BY <1>1 DEF Once
  <2>3. \A u, v \in Thread : u # v => armed'[u] \cap armed'[v] = {}
    BY <1>1 DEF Once
  <2>4. \A u, v \in Thread : post'[u].at # "no" /\ post'[u].job \in armed'[v]
                               => post'[u].job = timer'[v]
    BY <1>1 DEF Once
  <2> QED BY <1>1, <2>1, <2>2, <2>3, <2>4 DEF Once
<1>3. Older
  BY <1>1 DEF Older, New
<1> QED BY <1>2, <1>3

(* The calls into DoTask.                                                  *)
LEMMA OnceCall ==
  ASSUME Types, More, Once, NEW t \in Thread,
         DoTimerJob(t) \/ \E j \in Job : DoAsync(t, j) \/ DoAsyncAfter(t, j)
  PROVE  Once' /\ Older
<1>1. /\ post \in [Thread -> PostType] /\ timer \in [Thread -> Job \cup {nullptr}]
      /\ armed \in [Thread -> SUBSET Job] /\ nullptr \notin Job
  BY DispatcherAssumption DEF Types, More
<1>2. ASSUME NEW j \in Job, DoTask(t, j)
      PROVE  /\ post'[t].at = "add" /\ post'[t].job = j
             /\ \A u \in Thread \ {t} : post'[u] = post[u]
  BY <1>1, <1>2 DEF DoTask, NoPost
<1>3. ASSUME NEW j \in Job, DoAsync(t, j) PROVE Once' /\ Older
  <2>1. /\ UNCHANGED <<armed, timer>> /\ fresh' = fresh \ {j} /\ j \in fresh
        /\ post[t].at = "no"
    BY <1>3 DEF DoAsync, timers, InUserCode, Posts
  <2>2. /\ post'[t].at = "add" /\ post'[t].job = j
        /\ \A u \in Thread \ {t} : post'[u] = post[u]
    BY <1>2, <1>3 DEF DoAsync
  <2>3. Once'
    <3>1. ASSUME NEW u \in Thread, post'[u].at # "no"
          PROVE  /\ post'[u].job \notin fresh'
                 /\ \A v \in Thread : post'[u].job \in armed'[v] => post'[u].job = timer'[v]
      BY <2>1, <2>2, <3>1 DEF Once
    <3>2. ASSUME NEW u \in Thread, NEW v \in Thread, post'[u].at # "no",
                 post'[v].at # "no", post'[u].job = post'[v].job
          PROVE  u = v
      BY <2>1, <2>2, <3>2 DEF Once
    <3> QED BY <2>1, <3>1, <3>2 DEF Once
  <2>4. Older
    BY <2>1, <2>2 DEF Older, New
  <2> QED BY <2>3, <2>4
<1>4. ASSUME NEW j \in Job, DoAsyncAfter(t, j) PROVE Once' /\ Older
  <2>1. /\ UNCHANGED <<post, timer>> /\ fresh' = fresh \ {j} /\ j \in fresh
        /\ armed'[t] = armed[t] \cup {j}
        /\ \A u \in Thread \ {t} : armed'[u] = armed[u]
    BY <1>1, <1>4 DEF DoAsyncAfter
  <2>2. Once'
    <3>1. \A u \in Thread : timer'[u] = nullptr \/ timer'[u] \in armed'[u]
      BY <2>1 DEF Once
    <3>2. \A u \in Thread : armed'[u] \cap fresh' = {}
      BY <2>1 DEF Once
    <3>3. \A u, v \in Thread : u # v => armed'[u] \cap armed'[v] = {}
      BY <2>1 DEF Once
    <3>4. \A u, v \in Thread : post'[u].at # "no" /\ post'[u].job \in armed'[v]
                                 => post'[u].job = timer'[v]
      BY <2>1 DEF Once
    <3> QED BY <2>1, <3>1, <3>2, <3>3, <3>4 DEF Once
  <2>3. Older
    BY <2>1 DEF Older, New
  <2> QED BY <2>2, <2>3
<1>5. CASE DoTimerJob(t)
  <2>1. PICK j \in armed[t] : timer' = [timer EXCEPT ![t] = j] /\ DoTask(t, j)
    BY <1>5 DEF DoTimerJob
  <2>2. /\ UNCHANGED <<fresh, armed>> /\ post[t].at = "no" /\ timer[t] = nullptr
        /\ timer'[t] = j /\ \A u \in Thread \ {t} : timer'[u] = timer[u]
        /\ j \in Job
    BY <1>1, <1>5, <2>1 DEF DoTimerJob, Posts, jobs
  <2>3. /\ post'[t].at = "add" /\ post'[t].job = j
        /\ \A u \in Thread \ {t} : post'[u] = post[u]
    BY <1>2, <2>1, <2>2
  <2>4. \A u \in Thread : post[u].at # "no" => post[u].job # j
    BY <1>1, <2>2 DEF Once
  <2>5. Once'
    <3>1. \A u \in Thread : timer'[u] = nullptr \/ timer'[u] \in armed'[u]
      BY <2>2 DEF Once
    <3>2. ASSUME NEW u \in Thread, NEW v \in Thread, post'[u].at # "no",
                 post'[u].job \in armed'[v]
          PROVE  post'[u].job = timer'[v]
      <4>1. CASE u = t
        <5>1. v = t BY <2>2, <2>3, <3>2, <4>1 DEF Once
        <5> QED BY <2>2, <2>3, <4>1, <5>1
      <4>2. CASE u # t
        <5>1. /\ post[u].at # "no" /\ post'[u].job = post[u].job
              /\ post[u].job \in armed[v]
          BY <2>2, <2>3, <3>2, <4>2
        <5>2. post[u].job = timer[v] /\ post[u].job \in Job
          BY <1>1, <5>1 DEF Once
        <5>3. v # t BY <1>1, <2>2, <5>2
        <5> QED BY <2>2, <5>1, <5>2, <5>3
      <4> QED BY <4>1, <4>2
    <3>3. ASSUME NEW u \in Thread, NEW v \in Thread, post'[u].at # "no",
                 post'[v].at # "no", post'[u].job = post'[v].job
          PROVE  u = v
      BY <2>3, <2>4, <3>3 DEF Once
    <3>4. \A u \in Thread : post'[u].at # "no" => post'[u].job \notin fresh'
      BY <2>2, <2>3 DEF Once
    <3> QED BY <2>2, <3>1, <3>2, <3>3, <3>4 DEF Once
  <2>6. Older
    BY <1>1, <2>2, <2>3 DEF Older, New
  <2> QED BY <2>5, <2>6
<1> QED BY <1>3, <1>4, <1>5

(* The list of o from mTail to mHead is q, some of its links still to come. *)
Chain(o, q) ==
  /\ q # <<>> /\ Distinct(q)
  /\ mTail[o] = q[1] /\ mHead[o] = q[Len(q)] /\ mNext[q[Len(q)]] = nullptr
  /\ \A i \in 1 .. Len(q) - 1 : mNext[q[i]] \in {q[i + 1], nullptr}

(* A link to come is one of q, and it is the only writer of that mNext.    *)
Pushing(o, q) ==
  \A t \in Thread :
     post[t].at = "link" /\ Owner[post[t].job] = o =>
        Follows(q, post[t].prev, post[t].job) /\ mNext[post[t].prev] = nullptr

Holding == {"second", "head", "clear", "swap", "link", "last"}

(* What the thread t in Pop knows of the list between its accesses to it.  *)
PopKnows(o, q, t) ==
  /\ flush[t].at \in Holding => flush[t].job = q[1] /\ q[1] # o
  /\ flush[t].at \in {"clear", "swap"} => ~ InList(q, o)
  /\ flush[t].at = "swap" => mNext[o] = nullptr
  /\ flush[t].at = "link" =>
       Follows(q, flush[t].prev, o) /\ mNext[flush[t].prev] = nullptr
  /\ flush[t].at = "execute" =>
       executing[o] = {flush[t].job} /\ mNext[flush[t].job] = q[1]
  /\ flush[t].at = "count" => flush[t].job \in freed \cap Of(o)

Popping(o, q) == \A t \in Thread : flush[t].obj = o => PopKnows(o, q, t)

Executes(o) ==
  /\ executing[o] \subseteq Of(o)
  /\ executing[o] # {} => \E t \in Thread : flush[t].at = "execute" /\ flush[t].obj = o

(* Where a job of o is, from New through the queue to its end.             *)
Living(o, q) ==
  \A j \in Job : Owner[j] = o =>
     /\ InList(q, j) => j \notin freed /\ j \notin executing[o] /\ ~ New(j)
     /\ j \in executing[o] => j \notin freed /\ ~ New(j)
     /\ j \in freed => ~ New(j)
     /\ \/ InList(q, j) \/ j \in executing[o] \/ j \in freed
        \/ mNext[j] = nullptr

Queue(o, q) ==
  /\ Chain(o, q) /\ waiting[o] = RemoveFirst(q, o)
  /\ Pushing(o, q) /\ Popping(o, q) /\ Executes(o) /\ Living(o, q)

(* The sequence q is named only in the proofs; the code has just the links. *)
Queues == \A o \in Object : \E q \in Seq(Of(o)) : Queue(o, q)

-----------------------------------------------------------------------------
(* What append and pop do to the sequence.                                 *)

(* v is q with x behind it.                                                *)
Grown(S, q, x, v) ==
  /\ v \in Seq(S) /\ v # <<>> /\ Distinct(v)
  /\ Len(v) = Len(q) + 1 /\ Len(q) \in Nat /\ Len(q) > 0
  /\ \A i \in 1 .. Len(q) : v[i] = q[i]
  /\ v[1] = q[1] /\ v[Len(v)] = x
  /\ \A a, b : Follows(q, a, b) => Follows(v, a, b)
  /\ Follows(v, q[Len(q)], x)
  /\ \A e : InList(v, e) <=> InList(q, e) \/ e = x

(* v is q without its first element.                                       *)
Cut(S, q, v) ==
  /\ v \in Seq(S) /\ v # <<>> /\ Distinct(v)
  /\ Len(v) = Len(q) - 1 /\ Len(q) \in Nat /\ Len(q) > 1
  /\ \A i \in 1 .. Len(q) - 1 : v[i] = q[i + 1]
  /\ v[1] = q[2] /\ v[Len(v)] = q[Len(q)]
  /\ \A a, b : Follows(q, a, b) /\ a # q[1] => Follows(v, a, b)
  /\ \A e : InList(q, e) <=> InList(v, e) \/ e = q[1]
  /\ ~ InList(v, q[1])

LEMMA AppendFacts ==
  ASSUME NEW S, NEW q \in Seq(S), NEW x \in S, q # <<>>, Distinct(q), ~ InList(q, x),
         NEW v, v = Append(q, x)
  PROVE  Grown(S, q, x, v)
<1>1. /\ v \in Seq(S) /\ Len(v) = Len(q) + 1 /\ Len(q) \in Nat /\ Len(q) > 0
      /\ \A i \in 1 .. Len(q) : v[i] = q[i]
      /\ v[Len(q) + 1] = x
  OBVIOUS
<1>2. v # <<>>
  BY <1>1
<1>3. Distinct(v)
  BY <1>1 DEF Distinct, InList
<1>4. v[1] = q[1] /\ v[Len(v)] = x
  BY <1>1
<1>5. ASSUME NEW a, NEW b, Follows(q, a, b) PROVE Follows(v, a, b)
  <2>1. PICK i \in 1 .. Len(q) - 1 : q[i] = a /\ q[i + 1] = b
    BY <1>5 DEF Follows
  <2>2. i \in 1 .. Len(v) - 1 /\ v[i] = a /\ v[i + 1] = b
    BY <1>1, <2>1
  <2> QED BY <2>2 DEF Follows
<1>6. Follows(v, q[Len(q)], x)
  <2>1. /\ Len(q) \in 1 .. Len(v) - 1 /\ v[Len(q)] = q[Len(q)]
        /\ v[Len(q) + 1] = x
    BY <1>1
  <2> QED BY <2>1 DEF Follows
<1>7. ASSUME NEW e PROVE InList(v, e) <=> InList(q, e) \/ e = x
  BY <1>1 DEF InList
<1> QED BY <1>1, <1>2, <1>3, <1>4, <1>5, <1>6, <1>7 DEF Grown

LEMMA SecondNode ==
  ASSUME NEW S, NEW q \in Seq(S), q # <<>>, Len(q) # 1
  PROVE  1 \in 1 .. Len(q) - 1
<1>1. PICK n \in Nat : n = Len(q)
  OBVIOUS
<1>2. n # 0 /\ n # 1
  BY <1>1
<1>3. 1 \in 1 .. n - 1
  BY <1>2
<1> QED BY <1>1, <1>3

LEMMA TailFacts ==
  ASSUME NEW S, NEW q \in Seq(S), q # <<>>, Len(q) # 1, Distinct(q),
         NEW v, v = Tail(q)
  PROVE  Cut(S, q, v)
<1>1. /\ v \in Seq(S) /\ Len(v) = Len(q) - 1 /\ Len(q) \in Nat /\ Len(q) > 1
      /\ \A i \in 1 .. Len(q) - 1 : v[i] = q[i + 1]
  <2>1. Len(q) \in Nat /\ Len(q) > 1 OBVIOUS
  <2>2. v \in Seq(S) /\ Len(v) = Len(q) - 1 OBVIOUS
  <2>3. \A i \in 1 .. Len(q) - 1 : v[i] = q[i + 1] OBVIOUS
  <2> QED BY <2>1, <2>2, <2>3
<1>2. v # <<>>
  BY <1>1
<1>3. Distinct(v)
  BY <1>1 DEF Distinct
<1>4. v[1] = q[2] /\ v[Len(v)] = q[Len(q)]
  BY <1>1
<1>5. ASSUME NEW a, NEW b, Follows(q, a, b), a # q[1] PROVE Follows(v, a, b)
  <2>1. PICK i \in 1 .. Len(q) - 1 : q[i] = a /\ q[i + 1] = b
    BY <1>5 DEF Follows
  <2>2. i # 1
    BY <1>5, <2>1
  <2>3. i - 1 \in 1 .. Len(v) - 1 /\ v[i - 1] = a /\ v[(i - 1) + 1] = b
    BY <1>1, <2>1, <2>2
  <2> QED BY <2>3 DEF Follows
<1>6. ASSUME NEW e PROVE InList(q, e) <=> InList(v, e) \/ e = q[1]
  <2>1. ASSUME InList(q, e), e # q[1] PROVE InList(v, e)
    <3>1. PICK i \in 1 .. Len(q) : q[i] = e BY <2>1 DEF InList
    <3>2. i - 1 \in 1 .. Len(v) /\ v[i - 1] = e BY <1>1, <2>1, <3>1
    <3> QED BY <3>2 DEF InList
  <2>2. ASSUME InList(v, e) PROVE InList(q, e)
    <3>1. PICK i \in 1 .. Len(v) : v[i] = e BY <2>2 DEF InList
    <3>2. i + 1 \in 1 .. Len(q) /\ q[i + 1] = e BY <1>1, <3>1
    <3> QED BY <3>2 DEF InList
  <2>3. InList(q, q[1])
    <3>1. 1 \in 1 .. Len(q) BY <1>1
    <3> QED BY <3>1 DEF InList
  <2> QED BY <2>1, <2>2, <2>3
<1>7. ~ InList(v, q[1])
  BY <1>1 DEF InList, Distinct
<1> QED BY <1>1, <1>2, <1>3, <1>4, <1>5, <1>6, <1>7 DEF Cut

(* Both ends of a pair are in the sequence, and one determines the other.  *)
LEMMA FollowsFacts ==
  ASSUME NEW S, NEW q \in Seq(S), Distinct(q), NEW a, NEW b, Follows(q, a, b)
  PROVE  /\ InList(q, a) /\ InList(q, b) /\ a \in S /\ b \in S
         /\ a # q[Len(q)]
         /\ \A c : Follows(q, a, c) => c = b
<1>1. PICK i \in 1 .. Len(q) - 1 : q[i] = a /\ q[i + 1] = b
  BY DEF Follows
<1>2. Len(q) \in Nat /\ i \in 1 .. Len(q) /\ i + 1 \in 1 .. Len(q) /\ i # Len(q)
  BY <1>1
<1>3. Len(q) \in 1 .. Len(q)
  BY <1>2
<1>4. InList(q, a) /\ InList(q, b) /\ a \in S /\ b \in S
  BY <1>1, <1>2 DEF InList
<1>5. a # q[Len(q)]
  BY <1>1, <1>2, <1>3 DEF Distinct
<1>6. ASSUME NEW c, Follows(q, a, c) PROVE c = b
  <2>1. PICK k \in 1 .. Len(q) - 1 : q[k] = a /\ q[k + 1] = c
    BY <1>6 DEF Follows
  <2>2. k \in 1 .. Len(q) BY <1>2, <2>1
  <2>3. k = i BY <1>1, <1>2, <2>1, <2>2 DEF Distinct
  <2> QED BY <1>1, <2>1, <2>3
<1> QED BY <1>4, <1>5, <1>6

-----------------------------------------------------------------------------
(* A step that does not touch o.                                           *)

Inside == Holding \cup {"execute", "count"}

LEMMA ApartQueue ==
  ASSUME Types, More, Older, NEW o \in Object, NEW q \in Seq(Of(o)), Queue(o, q),
         mHead'[o] = mHead[o], mTail'[o] = mTail[o],
         waiting'[o] = waiting[o], executing'[o] = executing[o],
         freed \subseteq freed',
         \A n \in Of(o) : mNext'[n] = mNext[n] /\ (n \in freed' <=> n \in freed),
         \A t \in Thread : post'[t].at = "link" /\ Owner[post'[t].job] = o
                             => post'[t] = post[t],
         \A t \in Thread : flush'[t].obj = o /\ flush'[t].at \in Inside
                             => flush'[t] = flush[t],
         \A t \in Thread : flush[t].obj = o /\ flush[t].at = "execute"
                             => flush'[t] = flush[t]
  PROVE  Queue(o, q)'
<1>1. /\ Chain(o, q) /\ waiting[o] = RemoveFirst(q, o)
      /\ Pushing(o, q) /\ Popping(o, q) /\ Executes(o) /\ Living(o, q)
  BY DEF Queue
<1>2. \A i \in 1 .. Len(q) : q[i] \in Of(o)
  OBVIOUS
<1>3. q # <<>> /\ Distinct(q) /\ Len(q) \in Nat /\ Len(q) > 0
  BY <1>1 DEF Chain
<1>4. o \in Of(o) /\ \A j \in Job : Owner[j] = o => j \in Of(o)
  BY DEF Of
<1>5. Chain(o, q)'
  <2>1. 1 \in 1 .. Len(q) /\ Len(q) \in 1 .. Len(q)
    BY <1>3
  <2>2. mNext'[q[Len(q)]] = mNext[q[Len(q)]]
    BY <1>2, <2>1
  <2>3. \A i \in 1 .. Len(q) - 1 : mNext'[q[i]] = mNext[q[i]]
    BY <1>2, <1>3
  <2> QED BY <1>1, <2>2, <2>3 DEF Chain
<1>6. Pushing(o, q)'
  <2> SUFFICES ASSUME NEW t \in Thread, post'[t].at = "link", Owner[post'[t].job] = o
               PROVE  Follows(q, post'[t].prev, post'[t].job)
                      /\ mNext'[post'[t].prev] = nullptr
    BY DEF Pushing
  <2>1. post'[t] = post[t]
    OBVIOUS
  <2>2. Follows(q, post[t].prev, post[t].job) /\ mNext[post[t].prev] = nullptr
    BY <1>1, <2>1 DEF Pushing
  <2>3. post[t].prev \in Of(o)
    BY <1>3, <2>2, FollowsFacts
  <2> QED BY <2>1, <2>2, <2>3
<1>7. Popping(o, q)'
  <2> SUFFICES ASSUME NEW t \in Thread, flush'[t].obj = o, flush'[t].at \in Inside
               PROVE  /\ flush'[t].at \in Holding => flush'[t].job = q[1] /\ q[1] # o
                      /\ flush'[t].at \in {"clear", "swap"} => ~ InList(q, o)
                      /\ flush'[t].at = "swap" => mNext'[o] = nullptr
                      /\ flush'[t].at = "link" => Follows(q, flush'[t].prev, o)
                                                  /\ mNext'[flush'[t].prev] = nullptr
                      /\ flush'[t].at = "execute" =>
                           executing'[o] = {flush'[t].job}
                           /\ mNext'[flush'[t].job] = q[1]
                      /\ flush'[t].at = "count" => flush'[t].job \in freed' \cap Of(o)
    BY DEF Popping, PopKnows, Inside, Holding
  <2>1. flush'[t] = flush[t]
    OBVIOUS
  <2>2. /\ flush[t].at \in Holding => flush[t].job = q[1] /\ q[1] # o
        /\ flush[t].at \in {"clear", "swap"} => ~ InList(q, o)
        /\ flush[t].at = "swap" => mNext[o] = nullptr
    BY <1>1, <2>1 DEF Popping, PopKnows
  <2>3. flush[t].at = "link" =>
          Follows(q, flush[t].prev, o) /\ mNext[flush[t].prev] = nullptr
    BY <1>1, <2>1 DEF Popping, PopKnows
  <2>4. flush[t].at = "link" => flush[t].prev \in Of(o)
    BY <1>3, <2>3, FollowsFacts
  <2>5. flush[t].at = "execute" =>
          executing[o] = {flush[t].job} /\ mNext[flush[t].job] = q[1]
    BY <1>1, <2>1 DEF Popping, PopKnows
  <2>6. flush[t].at = "execute" => flush[t].job \in Of(o)
    BY <1>1, <2>5 DEF Executes
  <2>7. flush[t].at = "count" => flush[t].job \in freed \cap Of(o)
    BY <1>1, <2>1 DEF Popping, PopKnows
  <2>8. flush[t].at = "count" => flush[t].job \in freed' \cap Of(o)
    BY <2>7
  <2> QED BY <1>4, <2>1, <2>2, <2>3, <2>4, <2>5, <2>6, <2>8
<1>8. Executes(o)'
  BY <1>1 DEF Executes
<1>9. Living(o, q)'
  BY <1>1, <1>4 DEF Living, Older
<1> QED BY <1>1, <1>5, <1>6, <1>7, <1>8, <1>9 DEF Queue

-----------------------------------------------------------------------------
(* A step of t that touches only the object z.                             *)

Local(t, z) ==
  /\ \A o \in Object \ {z} :
       /\ mHead'[o] = mHead[o] /\ mTail'[o] = mTail[o]
       /\ waiting'[o] = waiting[o] /\ executing'[o] = executing[o]
  /\ freed \subseteq freed'
  /\ \A n \in Node \ Of(z) : mNext'[n] = mNext[n] /\ (n \in freed' => n \in freed)
  /\ \A u \in Thread \ {t} : post'[u] = post[u] /\ flush'[u] = flush[u]
  /\ post'[t] = post[t] \/ post'[t].at # "link" \/ Owner[post'[t].job] = z
  /\ flush'[t] = flush[t] \/ (flush'[t].obj = z /\ flush[t].obj = z)

LEMMA LocalStep ==
  ASSUME Types, More, Older, Queues, NEW t \in Thread, NEW z \in Object, Local(t, z),
         \E q \in Seq(Of(z)) : Queue(z, q)'
  PROVE  Queues'
<1> SUFFICES ASSUME NEW o \in Object PROVE \E q \in Seq(Of(o)) : Queue(o, q)'
  BY DEF Queues
<1>1. CASE o = z
  BY <1>1
<1>2. CASE o # z
  <2>1. PICK q \in Seq(Of(o)) : Queue(o, q)
    BY DEF Queues
  <2>2. /\ mHead'[o] = mHead[o] /\ mTail'[o] = mTail[o] /\ freed \subseteq freed'
        /\ waiting'[o] = waiting[o] /\ executing'[o] = executing[o]
    BY <1>2 DEF Local
  <2>3. \A n \in Of(o) : n \in Node \ Of(z)
    BY <1>2, DispatcherAssumption DEF Of, Node
  <2>4. \A n \in Of(o) : mNext'[n] = mNext[n] /\ (n \in freed' <=> n \in freed)
    BY <2>3 DEF Local
  <2>5. \A u \in Thread : post'[u].at = "link" /\ Owner[post'[u].job] = o
                            => post'[u] = post[u]
    BY <1>2 DEF Local
  <2>6. \A u \in Thread : flush'[u].obj = o /\ flush'[u].at \in Inside
                            => flush'[u] = flush[u]
    BY <1>2 DEF Local
  <2>7. \A u \in Thread : flush[u].obj = o /\ flush[u].at = "execute"
                            => flush'[u] = flush[u]
    BY <1>2 DEF Local
  <2>8. Queue(o, q)'
    BY <2>1, <2>2, <2>4, <2>5, <2>6, <2>7, ApartQueue
  <2> QED BY <2>8
<1> QED BY <1>1, <1>2

(* A step that touches no object's list at all.                            *)
LEMMA QuietStep ==
  ASSUME Types, More, Older, Queues, UNCHANGED <<queues, freed, executing>>,
         \A t \in Thread : post'[t].at = "link" => post'[t] = post[t],
         \A t \in Thread : flush'[t].at \in Inside => flush'[t] = flush[t],
         \A t \in Thread : flush[t].at = "execute" => flush'[t] = flush[t]
  PROVE  Queues'
<1> SUFFICES ASSUME NEW o \in Object PROVE \E q \in Seq(Of(o)) : Queue(o, q)'
  BY DEF Queues
<1>1. PICK q \in Seq(Of(o)) : Queue(o, q)
  BY DEF Queues
<1>2. UNCHANGED <<mHead, mTail, mNext, waiting, freed, executing>>
  BY DEF queues
<1>3. Queue(o, q)'
  BY <1>1, <1>2, ApartQueue
<1> QED BY <1>3

-----------------------------------------------------------------------------
(* The steps, one by one.                                                  *)

(* One thread at a time is inside Flush of an object.                      *)
LEMMA OnlyConsumer ==
  ASSUME IInv, NEW t \in Thread, flush[t].at \in InFlush, NEW u \in Thread, u # t,
         flush[u].obj = flush[t].obj
  PROVE  flush[u].at \notin InFlush /\ flush[u].at \notin Inside
<1>1. flush[t].obj \in Object
  BY DEF IInv, Types, InFlush
<1>2. Unique(post, flush, LExecuterList, flush[t].obj)
  BY <1>1 DEF IInv, Claims
<1>3. HasFlush(flush[t], flush[t].obj)
  BY DEF HasFlush, InFlush
<1>4. ~ HasFlush(flush[u], flush[t].obj)
  BY <1>2, <1>3 DEF Unique
<1> QED BY <1>4 DEF HasFlush, InFlush, Inside, Holding

(* The calls, the counting, the executor list: no list is touched.         *)
LEMMA QueuesKept ==
  ASSUME IInv, More, Occupied, Older, Queues, NEW t \in Thread,
         \/ DoTimerJob(t) \/ \E j \in Job : DoAsync(t, j) \/ DoAsyncAfter(t, j)
         \/ TimerRelease(t) \/ CountTask(t) \/ AddRefForThis(t) \/ CountDown(t)
         \/ ReleaseListed(t) \/ NextExecuter(t) \/ LeaveThread(t)
  PROVE  Queues'
<1>1. Types /\ post \in [Thread -> PostType] /\ flush \in [Thread -> FlushType]
  BY DEF IInv, Types
<1>2. CASE DoTimerJob(t) \/ \E j \in Job : DoAsync(t, j)
  <2>1. PICK j \in Job : DoTask(t, j)
    BY <1>1, <1>2 DEF DoTimerJob, DoAsync, Types
  <2>2. /\ UNCHANGED <<queues, freed, executing, flush>> /\ post'[t].at = "add"
        /\ \A u \in Thread \ {t} : post'[u] = post[u]
    BY <1>1, <1>2, <2>1 DEF DoTimerJob, DoAsync, DoTask, NoPost, jobs
  <2> QED BY <1>1, <2>2, QuietStep
<1>3. CASE TimerRelease(t) \/ \E j \in Job : DoAsyncAfter(t, j)
  <2>1. UNCHANGED <<queues, freed, executing, flush, post>>
    BY <1>3 DEF TimerRelease, DoAsyncAfter, jobs
  <2> QED BY <1>1, <2>1, QuietStep
<1>4. CASE CountTask(t)
  <2>1. /\ UNCHANGED <<queues, freed, executing, flush>> /\ post'[t].at = "exchange"
        /\ \A u \in Thread \ {t} : post'[u] = post[u]
    BY <1>1, <1>4 DEF CountTask, PostType, jobs
  <2> QED BY <1>1, <2>1, QuietStep
<1>5. CASE AddRefForThis(t)
  <2>1. /\ UNCHANGED <<queues, freed, executing>> /\ post'[t].at = "no"
        /\ \A u \in Thread \ {t} : post'[u] = post[u]
    BY <1>1, <1>5 DEF AddRefForThis, NoPost, jobs
  <2>2. ASSUME flush' # flush PROVE flush'[t].at = "pop"
    BY <1>1, <1>5, <2>2 DEF AddRefForThis, NoFlush
  <2>3. \A u \in Thread \ {t} : flush'[u] = flush[u]
    BY <1>1, <1>5 DEF AddRefForThis
  <2>4. flush[t].at = "execute" => flush' = flush
    <3>1. CASE UNCHANGED flush BY <3>1
    <3>2. CASE LCurrentExecuterOccupyingThisThread[t] = nullptr
      BY <3>2 DEF Occupied
    <3> QED BY <1>5, <3>1, <3>2 DEF AddRefForThis
  <2>5. \A u \in Thread : flush'[u].at \in Inside => flush'[u] = flush[u]
    BY <2>2, <2>3 DEF Inside, Holding
  <2> QED BY <1>1, <2>1, <2>3, <2>4, <2>5, QuietStep
<1>6. CASE CountDown(t)
  <2>1. /\ UNCHANGED <<queues, freed, executing, post>>
        /\ flush[t].at = "count" /\ flush'[t].at \in {"pop", "release", "list"}
        /\ \A u \in Thread \ {t} : flush'[u] = flush[u]
    BY <1>1, <1>6 DEF CountDown, Goes, Flushes, FlushType, jobs
  <2>2. \A u \in Thread : flush'[u].at \in Inside => flush'[u] = flush[u]
    BY <2>1 DEF Inside, Holding
  <2> QED BY <1>1, <2>1, <2>2, QuietStep
<1>7. CASE ReleaseListed(t) \/ NextExecuter(t) \/ LeaveThread(t)
  <2>1. /\ UNCHANGED <<queues, freed, executing, post>>
        /\ flush[t].at \in {"release", "list"} /\ flush'[t].at \in {"list", "pop", "no"}
        /\ \A u \in Thread \ {t} : flush'[u] = flush[u]
    <3>1. CASE ReleaseListed(t)
      BY <1>1, <3>1 DEF ReleaseListed, Goes, Flushes, FlushType, jobs
    <3>2. CASE NextExecuter(t)
      BY <1>1, <3>2 DEF NextExecuter, NoFlush, Flushes, jobs
    <3>3. CASE LeaveThread(t)
      BY <1>1, <3>3 DEF LeaveThread, NoFlush, Flushes, jobs
    <3> QED BY <1>7, <3>1, <3>2, <3>3
  <2>2. \A u \in Thread : flush'[u].at \in Inside => flush'[u] = flush[u]
    BY <2>1 DEF Inside, Holding
  <2> QED BY <1>1, <2>1, <2>2, QuietStep
<1> QED BY <1>2, <1>3, <1>4, <1>5, <1>6, <1>7

(* The job that enters the queue is not New any more.                      *)
LEMMA NewEnds ==
  ASSUME Types, More, Once, NEW t \in Thread, PushExchange(t)
  PROVE  \E j \in Job : j = post[t].job /\ New(j) /\ ~ New(j)'
<1>0. PICK j \in Job : j = post[t].job
  BY DEF Types, PushExchange, Posts
<1>1. post[t].at = "exchange" /\ New(j)
  BY <1>0 DEF PushExchange, Posts, New
<1>2. /\ UNCHANGED <<fresh, armed, timer>> /\ post'[t].at = "link"
      /\ \A u \in Thread \ {t} : post'[u] = post[u]
  BY DEF Types, PushExchange, PostType, timers, jobs
<1>3. j \notin fresh'
  BY <1>0, <1>1, <1>2 DEF Once
<1>4. \A u \in Thread : j \in armed'[u] => j = timer'[u]
  BY <1>0, <1>1, <1>2 DEF Once
<1>5. \A u \in Thread : post'[u].at \in {"add", "exchange"} => post'[u].job # j
  BY <1>0, <1>1, <1>2 DEF Once
<1>6. ~ New(j)'
  BY <1>2, <1>3, <1>4, <1>5, Zenon DEF New
<1> QED BY <1>0, <1>1, <1>6

(* JobQueue::Push, the exchange: the job is the last of the list; only its *)
(* link is missing.                                                        *)
LEMMA PushExchangeQueue ==
  ASSUME IInv, More, Once, Older, Queues, NEW t \in Thread, PushExchange(t)
  PROVE  Queues'
<1>0. Types
  BY DEF IInv
<1>a. PICK j \in Job : j = post[t].job /\ New(j) /\ ~ New(j)'
  BY <1>0, NewEnds
<1>b. PICK z \in Object : z = Target(t)
  BY <1>a, DispatcherAssumption DEF Target
<1>1. Owner[j] = z /\ j \in Of(z) /\ j # z /\ z \notin Job
  BY <1>a, <1>b, DispatcherAssumption DEF Target, Of
<1>2. PICK q \in Seq(Of(z)) : Queue(z, q)
  BY <1>1 DEF Queues
<1>3. /\ Chain(z, q) /\ waiting[z] = RemoveFirst(q, z)
      /\ Pushing(z, q) /\ Popping(z, q) /\ Executes(z) /\ Living(z, q)
  BY <1>2 DEF Queue
<1>4. q # <<>> /\ Distinct(q) /\ mHead[z] = q[Len(q)] /\ mTail[z] = q[1]
  BY <1>3 DEF Chain
<1>5. ~ InList(q, j) /\ j \notin executing[z] /\ j \notin freed /\ mNext[j] = nullptr
  BY <1>a, <1>1, <1>3 DEF Living
<1>6. /\ mHead'[z] = j /\ waiting'[z] = Append(waiting[z], j)
      /\ UNCHANGED <<mTail, mNext, flush, freed, executing>>
      /\ \A o \in Object \ {z} : mHead'[o] = mHead[o] /\ waiting'[o] = waiting[o]
  BY <1>0, <1>a, <1>b DEF PushExchange, Types, More, jobs
<1>7. /\ post'[t].at = "link" /\ post'[t].job = j /\ post'[t].prev = mHead[z]
      /\ \A u \in Thread \ {t} : post'[u] = post[u]
  BY <1>0, <1>a, <1>b DEF PushExchange, Types, PostType
<1>8. Local(t, z)
  BY <1>1, <1>6, <1>7 DEF Local
<1>9. PICK v : v = Append(q, j)
  OBVIOUS
<1>10. Grown(Of(z), q, j, v)
  BY <1>1, <1>4, <1>5, <1>9, AppendFacts
<1> USE DEF Grown
<1>11. Chain(z, v)'
  <2>1. ASSUME NEW i \in 1 .. Len(v) - 1 PROVE mNext'[v[i]] \in {v[i + 1], nullptr}
    <3>1. CASE i = Len(q)
      BY <1>3, <1>6, <1>10, <3>1 DEF Chain
    <3>2. CASE i # Len(q)
      <4>1. i \in 1 .. Len(q) - 1 /\ v[i] = q[i] /\ v[i + 1] = q[i + 1]
        BY <1>10, <3>2
      <4> QED BY <1>3, <1>6, <4>1 DEF Chain
    <3> QED BY <3>1, <3>2
  <2>2. mNext'[v[Len(v)]] = nullptr
    BY <1>5, <1>6, <1>10
  <2>3. mTail'[z] = v[1] /\ mHead'[z] = v[Len(v)]
    BY <1>4, <1>6, <1>10
  <2> QED BY <1>10, <2>1, <2>2, <2>3 DEF Chain
<1>12. waiting'[z] = RemoveFirst(v, z)
  BY <1>1, <1>3, <1>4, <1>5, <1>6, <1>9, RemoveAppend
<1>13. Pushing(z, v)'
  <2>1. Follows(v, mHead[z], j) /\ mNext[mHead[z]] = nullptr
    BY <1>3, <1>4, <1>10 DEF Chain
  <2> QED BY <1>3, <1>6, <1>7, <1>10, <2>1 DEF Pushing
<1>14. Popping(z, v)'
  BY <1>1, <1>3, <1>6, <1>10 DEF Popping, PopKnows
<1>15. Executes(z)'
  BY <1>3, <1>6 DEF Executes
<1>16. Living(z, v)'
  <2> SUFFICES ASSUME NEW k \in Job, Owner[k] = z
               PROVE  /\ InList(v, k) => k \notin freed' /\ k \notin executing'[z]
                                         /\ ~ New(k)'
                      /\ k \in executing'[z] => k \notin freed' /\ ~ New(k)'
                      /\ k \in freed' => ~ New(k)'
                      /\ \/ InList(v, k) \/ k \in executing'[z] \/ k \in freed'
                         \/ mNext'[k] = nullptr
    BY DEF Living
  <2>1. CASE k = j BY <1>a, <1>5, <1>6, <1>10, <2>1
  <2>2. CASE k # j BY <1>3, <1>6, <1>10, <2>2 DEF Living, Older
  <2> QED BY <2>1, <2>2
<1>17. Queue(z, v)'
  BY <1>11, <1>12, <1>13, <1>14, <1>15, <1>16 DEF Queue
<1> QED BY <1>0, <1>8, <1>10, <1>17, LocalStep

(* JobQueue::Push, the link: the one pair of neighbours that it joins.     *)
LEMMA PushLinkQueue ==
  ASSUME IInv, More, Once, Older, Queues, NEW t \in Thread, PushLink(t)
  PROVE  Queues'
<1>1. Types
  BY DEF IInv
<1>2. PICK j \in Job : j = post[t].job
  BY <1>1 DEF Types, PushLink, Posts
<1>3. PICK z \in Object : z = Target(t)
  BY <1>2, DispatcherAssumption DEF Target
<1>4. Owner[j] = z /\ z \notin Job
  BY <1>2, <1>3, DispatcherAssumption DEF Target
<1>5. PICK q \in Seq(Of(z)) : Queue(z, q)
  BY DEF Queues
<1>6. /\ Chain(z, q) /\ waiting[z] = RemoveFirst(q, z)
      /\ Pushing(z, q) /\ Popping(z, q) /\ Executes(z) /\ Living(z, q)
  BY <1>5 DEF Queue
<1>7. q # <<>> /\ Distinct(q) /\ Len(q) \in Nat /\ Len(q) > 0
  BY <1>6 DEF Chain
<1>8. PICK p : p = post[t].prev /\ Follows(q, p, j) /\ mNext[p] = nullptr
  BY <1>2, <1>4, <1>6 DEF Pushing, PushLink, Posts
<1>9. /\ InList(q, p) /\ p \in Of(z) /\ p # q[Len(q)]
      /\ \A c : Follows(q, p, c) => c = j
  BY <1>7, <1>8, FollowsFacts
<1>10. p \in Node
  BY <1>9 DEF Of, Node
<1>11. /\ UNCHANGED <<mHead, mTail, waiting, flush, freed, executing>>
       /\ mNext'[p] = j /\ \A n \in Node \ {p} : mNext'[n] = mNext[n]
  BY <1>1, <1>2, <1>8, <1>10 DEF PushLink, Types, jobs
<1>12. /\ post[t].at = "link" /\ post'[t].at # "link"
       /\ \A u \in Thread \ {t} : post'[u] = post[u]
  BY <1>1 DEF PushLink, Posts, Types, PostType, NoPost
<1>13. Local(t, z)
  BY <1>9, <1>11, <1>12 DEF Local
<1>14. \A i \in 1 .. Len(q) : q[i] \in Node
  BY DEF Of, Node
<1>15. Chain(z, q)'
  <2>1. mNext'[q[Len(q)]] = nullptr
    BY <1>6, <1>7, <1>9, <1>11, <1>14 DEF Chain
  <2>2. ASSUME NEW i \in 1 .. Len(q) - 1 PROVE mNext'[q[i]] \in {q[i + 1], nullptr}
    <3>1. i \in 1 .. Len(q)
      BY <1>7
    <3>2. CASE q[i] = p
      <4>1. Follows(q, p, q[i + 1]) BY <3>2 DEF Follows
      <4> QED BY <1>9, <1>11, <3>2, <4>1
    <3>3. CASE q[i] # p
      BY <1>6, <1>11, <1>14, <3>1, <3>3 DEF Chain
    <3> QED BY <3>2, <3>3
  <2> QED BY <1>6, <1>11, <2>1, <2>2 DEF Chain
<1>16. Pushing(z, q)'
  <2> SUFFICES ASSUME NEW u \in Thread, post'[u].at = "link", Owner[post'[u].job] = z
               PROVE  Follows(q, post'[u].prev, post'[u].job)
                      /\ mNext'[post'[u].prev] = nullptr
    BY DEF Pushing
  <2>1. u # t /\ post'[u] = post[u]
    BY <1>12
  <2>2. Follows(q, post[u].prev, post[u].job) /\ mNext[post[u].prev] = nullptr
    BY <1>6, <2>1 DEF Pushing
  <2>3. post[u].prev # p
    BY <1>2, <1>9, <1>12, <2>1, <2>2 DEF Once
  <2>4. post[u].prev \in Node
    <3>1. post[u].prev \in Of(z) BY <1>7, <2>2, FollowsFacts
    <3> QED BY <3>1 DEF Of, Node
  <2> QED BY <1>11, <2>1, <2>2, <2>3, <2>4
<1>17. Popping(z, q)'
  <2> SUFFICES ASSUME NEW u \in Thread, flush[u].obj = z
               PROVE  /\ flush[u].at = "swap" => mNext'[z] = nullptr
                      /\ flush[u].at = "link" => mNext'[flush[u].prev] = nullptr
                      /\ flush[u].at = "execute" => mNext'[flush[u].job] = q[1]
    BY <1>6, <1>11 DEF Popping, PopKnows
  <2>1. ASSUME flush[u].at = "swap" PROVE mNext'[z] = nullptr
    <3>1. ~ InList(q, z) /\ mNext[z] = nullptr BY <1>6, <2>1 DEF Popping, PopKnows
    <3>2. z # p /\ z \in Node BY <1>9, <3>1 DEF Node
    <3> QED BY <1>11, <3>1, <3>2
  <2>2. ASSUME flush[u].at = "link" PROVE mNext'[flush[u].prev] = nullptr
    <3>1. Follows(q, flush[u].prev, z) /\ mNext[flush[u].prev] = nullptr
      BY <1>6, <2>2 DEF Popping, PopKnows
    <3>2. flush[u].prev # p
      BY <1>4, <1>9, <3>1
    <3>3. flush[u].prev \in Node
      <4>1. flush[u].prev \in Of(z) BY <1>7, <3>1, FollowsFacts
      <4> QED BY <4>1 DEF Of, Node
    <3> QED BY <1>11, <3>1, <3>2, <3>3
  <2>3. ASSUME flush[u].at = "execute" PROVE mNext'[flush[u].job] = q[1]
    <3>1. executing[z] = {flush[u].job} /\ mNext[flush[u].job] = q[1]
      BY <1>6, <2>3 DEF Popping, PopKnows
    <3>2. flush[u].job \in Job /\ Owner[flush[u].job] = z
      BY <1>6, <3>1, DispatcherAssumption DEF Executes, Of, More
    <3>3. ~ InList(q, flush[u].job)
      BY <1>6, <3>1, <3>2 DEF Living
    <3> QED BY <1>9, <1>11, <3>1, <3>2, <3>3 DEF Node
  <2> QED BY <2>1, <2>2, <2>3
<1>18. Executes(z)'
  BY <1>6, <1>11 DEF Executes
<1>19. Living(z, q)'
  <2> SUFFICES ASSUME NEW k \in Job, Owner[k] = z
               PROVE  /\ InList(q, k) => k \notin freed' /\ k \notin executing'[z]
                                         /\ ~ New(k)'
                      /\ k \in executing'[z] => k \notin freed' /\ ~ New(k)'
                      /\ k \in freed' => ~ New(k)'
                      /\ \/ InList(q, k) \/ k \in executing'[z] \/ k \in freed'
                         \/ mNext'[k] = nullptr
    BY DEF Living
  <2>1. k = p \/ mNext'[k] = mNext[k]
    BY <1>11 DEF Node
  <2> QED BY <1>6, <1>9, <1>11, <2>1 DEF Living, Older
<1>20. Queue(z, q)'
  BY <1>6, <1>11, <1>15, <1>16, <1>17, <1>18, <1>19 DEF Queue
<1> QED BY <1>1, <1>13, <1>20, LocalStep

(* Only the consumer has something to know about the list.                 *)
LEMMA PoppingAlone ==
  ASSUME IInv, NEW t \in Thread, flush[t].at \in InFlush,
         NEW z, z = flush[t].obj, NEW v,
         \A u \in Thread \ {t} : flush'[u] = flush[u],
         freed \subseteq freed', NEW q, Popping(z, q), PopKnows(z, v, t)'
  PROVE  Popping(z, v)'
<1> SUFFICES ASSUME NEW u \in Thread, flush'[u].obj = z PROVE PopKnows(z, v, u)'
  BY DEF Popping
<1>1. CASE u = t
  BY <1>1
<1>2. CASE u # t
  <2>1. flush'[u] = flush[u]
    BY <1>2
  <2>2. flush[u].at \notin Inside
    BY <1>2, <2>1, OnlyConsumer
  <2> QED BY <2>1, <2>2 DEF PopKnows, Inside, Holding
<1> QED BY <1>1, <1>2

(* Pop returns the first job: it is the one that has waited longest, and   *)
(* no other job of the object is being executed.                           *)
LEMMA PopReturnsQueue ==
  ASSUME IInv, More, Older, Queues, NEW t \in Thread,
         flush[t].at \in {"pop", "second", "last"},
         NEW z \in Object, z = flush[t].obj, NEW tail \in Node, NEW next \in Node,
         tail = mTail[z], tail # z, mNext[tail] = next, PopReturns(t, tail, next)
  PROVE  /\ Queues'
         /\ waiting[z] # <<>> /\ executing[z] = {}
         /\ executing' = [executing EXCEPT ![z] = {Head(waiting[z])}]
         /\ waiting' = [waiting EXCEPT ![z] = Tail(@)]
<1>1. Types /\ flush[t].at \in InFlush
  BY DEF IInv, InFlush
<1>2. PICK q \in Seq(Of(z)) : Queue(z, q)
  BY DEF Queues
<1>3. /\ Chain(z, q) /\ waiting[z] = RemoveFirst(q, z)
      /\ Pushing(z, q) /\ Popping(z, q) /\ Executes(z) /\ Living(z, q)
  BY <1>2 DEF Queue
<1>4. q # <<>> /\ Distinct(q) /\ mTail[z] = q[1] /\ mHead[z] = q[Len(q)]
  BY <1>3 DEF Chain
<1>5. Len(q) # 1 /\ next = q[2] /\ next # nullptr
  <2>1. next # nullptr BY DispatcherAssumption DEF Node
  <2>2. Len(q) # 1 BY <1>3, <1>4, <2>1 DEF Chain
  <2>3. 1 \in 1 .. Len(q) - 1 BY <1>4, <2>2, SecondNode
  <2> QED BY <1>3, <1>4, <2>1, <2>2, <2>3 DEF Chain
<1>6. PICK v : v = Tail(q)
  OBVIOUS
<1>7. Cut(Of(z), q, v)
  BY <1>4, <1>5, <1>6, TailFacts
<1>8. InList(q, tail) /\ tail \in Job /\ Owner[tail] = z
  <2>1. 1 \in 1 .. Len(q) /\ q[1] \in Of(z) BY <1>4
  <2>2. InList(q, tail) BY <1>4, <2>1 DEF InList
  <2> QED BY <1>4, <2>1, <2>2 DEF Of
<1>9. tail \notin freed /\ tail \notin executing[z] /\ ~ New(tail) /\ ~ New(tail)'
  BY <1>3, <1>8 DEF Living, Older
<1>10. executing[z] = {}
  <2>1. ASSUME NEW u \in Thread, flush[u].at = "execute", flush[u].obj = z PROVE FALSE
    BY <1>1, <2>1, OnlyConsumer DEF Inside
  <2> QED BY <1>3, <2>1 DEF Executes
<1>11. /\ mTail'[z] = next /\ waiting'[z] = RemoveFirst(waiting[z], tail)
       /\ executing'[z] = {tail}
       /\ UNCHANGED <<mHead, mNext, post, freed>>
       /\ \A o \in Object \ {z} : /\ mTail'[o] = mTail[o] /\ waiting'[o] = waiting[o]
                                  /\ executing'[o] = executing[o]
  BY <1>1, <1>10 DEF PopReturns, Types, More
<1>12. /\ flush'[t].at = "execute" /\ flush'[t].job = tail /\ flush'[t].obj = z
       /\ \A u \in Thread \ {t} : flush'[u] = flush[u]
  BY <1>1 DEF PopReturns, Types, FlushType
<1>13. Local(t, z)
  BY <1>11, <1>12 DEF Local
<1>14. /\ RemoveFirst(q, z) \in Seq(Of(z)) /\ RemoveFirst(q, z) # <<>>
       /\ RemoveFirst(q, z)[1] = q[1]
       /\ Tail(RemoveFirst(q, z)) = RemoveFirst(Tail(q), z)
       /\ Distinct(RemoveFirst(q, z))
  BY <1>4, RemoveBehind
<1>15. /\ waiting[z] \in Seq(Of(z)) /\ waiting[z] # <<>> /\ waiting[z][1] = tail
       /\ Tail(waiting[z]) = RemoveFirst(v, z) /\ Distinct(waiting[z])
  BY <1>3, <1>4, <1>6, <1>14
<1>16. waiting'[z] = Tail(waiting[z])
  BY <1>11, <1>15, RemoveHead
<1>17. Chain(z, v)'
  <2>1. ASSUME NEW i \in 1 .. Len(v) - 1 PROVE mNext'[v[i]] \in {v[i + 1], nullptr}
    <3>1. Len(v) = Len(q) - 1 /\ Len(q) \in Nat
      BY <1>7 DEF Cut
    <3>2. i \in 1 .. Len(q) - 1 /\ i + 1 \in 1 .. Len(q) - 1
      BY <3>1
    <3>3. v[i] = q[i + 1] /\ v[i + 1] = q[(i + 1) + 1]
      BY <1>7, <3>2 DEF Cut
    <3> QED BY <1>3, <1>11, <3>2, <3>3 DEF Chain
  <2> QED BY <1>3, <1>4, <1>5, <1>7, <1>11, <2>1 DEF Chain, Cut
<1>18. Pushing(z, v)'
  <2> SUFFICES ASSUME NEW u \in Thread, post[u].at = "link", Owner[post[u].job] = z
               PROVE  Follows(v, post[u].prev, post[u].job)
                      /\ mNext[post[u].prev] = nullptr
    BY <1>11 DEF Pushing
  <2>1. Follows(q, post[u].prev, post[u].job) /\ mNext[post[u].prev] = nullptr
    BY <1>3 DEF Pushing
  <2>2. post[u].prev # q[1]
    BY <1>4, <1>5, <2>1
  <2> QED BY <1>7, <2>1, <2>2 DEF Cut
<1>19. Popping(z, v)'
  <2>1. PopKnows(z, v, t)'
    BY <1>5, <1>7, <1>11, <1>12 DEF PopKnows, Holding, Cut
  <2> QED BY <1>1, <1>3, <1>11, <1>12, <2>1, PoppingAlone
<1>20. Executes(z)'
  BY <1>8, <1>11, <1>12 DEF Executes, Of
<1>21. Living(z, v)'
  <2> SUFFICES ASSUME NEW k \in Job, Owner[k] = z
               PROVE  /\ InList(v, k) => k \notin freed' /\ k \notin executing'[z]
                                         /\ ~ New(k)'
                      /\ k \in executing'[z] => k \notin freed' /\ ~ New(k)'
                      /\ k \in freed' => ~ New(k)'
                      /\ \/ InList(v, k) \/ k \in executing'[z] \/ k \in freed'
                         \/ mNext'[k] = nullptr
    BY DEF Living
  <2>1. /\ InList(v, k) => k # tail
        /\ InList(q, k) <=> InList(v, k) \/ k = tail
    BY <1>4, <1>7 DEF Cut
  <2> QED BY <1>3, <1>9, <1>10, <1>11, <2>1 DEF Living, Older
<1>22. Queue(z, v)'
  BY <1>15, <1>16, <1>17, <1>18, <1>19, <1>20, <1>21 DEF Queue
<1>23. v \in Seq(Of(z))
  BY <1>7 DEF Cut
<1>24. Queues'
  BY <1>1, <1>13, <1>22, <1>23, LocalStep
<1>25. /\ executing' = [executing EXCEPT ![z] = {Head(waiting[z])}]
       /\ waiting' = [waiting EXCEPT ![z] = Tail(@)]
  <2>1. /\ executing' = [executing EXCEPT ![z] = @ \cup {tail}]
        /\ waiting' = [waiting EXCEPT ![z] = RemoveFirst(@, tail)]
    BY DEF PopReturns
  <2>2. Head(waiting[z]) = tail
    BY <1>15
  <2>3. executing[z] \cup {tail} = {tail}
    BY <1>10
  <2>4. RemoveFirst(waiting[z], tail) = Tail(waiting[z])
    BY <1>15, RemoveHead
  <2> QED BY <2>1, <2>2, <2>3, <2>4
<1> QED BY <1>10, <1>15, <1>24, <1>25

(* Pop passes over the stub at the front: no job has been popped yet.      *)
LEMMA PopStubQueue ==
  ASSUME IInv, More, Older, Queues, NEW t \in Thread, flush[t].at = "pop",
         NEW z \in Object, z = flush[t].obj, NEW next \in Node,
         mTail[z] = z, mNext[z] = next,
         mTail' = [mTail EXCEPT ![z] = next],
         flush' = [flush EXCEPT ![t].at = "second", ![t].job = next],
         UNCHANGED <<mHead, mNext, waiting, post, freed, executing>>
  PROVE  Queues'
<1>1. Types /\ flush[t].at \in InFlush
  BY DEF IInv, InFlush
<1>2. PICK q \in Seq(Of(z)) : Queue(z, q)
  BY DEF Queues
<1>3. /\ Chain(z, q) /\ waiting[z] = RemoveFirst(q, z)
      /\ Pushing(z, q) /\ Popping(z, q) /\ Executes(z) /\ Living(z, q)
  BY <1>2 DEF Queue
<1>4. q # <<>> /\ Distinct(q) /\ mTail[z] = q[1] /\ mHead[z] = q[Len(q)]
  BY <1>3 DEF Chain
<1>5. Len(q) # 1 /\ next = q[2] /\ next # nullptr
  <2>1. next # nullptr BY DispatcherAssumption DEF Node
  <2>2. Len(q) # 1 BY <1>3, <1>4, <2>1 DEF Chain
  <2>3. 1 \in 1 .. Len(q) - 1 BY <1>4, <2>2, SecondNode
  <2> QED BY <1>3, <1>4, <2>1, <2>2, <2>3 DEF Chain
<1>6. PICK v : v = Tail(q)
  OBVIOUS
<1>7. Cut(Of(z), q, v)
  BY <1>4, <1>5, <1>6, TailFacts
<1>8. /\ mTail'[z] = next /\ \A o \in Object \ {z} : mTail'[o] = mTail[o]
      /\ flush'[t].at = "second" /\ flush'[t].job = next /\ flush'[t].obj = z
      /\ \A u \in Thread \ {t} : flush'[u] = flush[u]
  BY <1>1 DEF Types, FlushType
<1>9. Local(t, z)
  BY <1>8 DEF Local
<1>10. waiting[z] = RemoveFirst(v, z)
  <2>1. RemoveFirst(q, q[1]) = Tail(q) BY <1>4, RemoveHead
  <2>2. ~ InList(v, z) BY <1>4, <1>7 DEF Cut
  <2> QED BY <1>3, <1>4, <1>6, <2>1, <2>2, RemoveFirstNone
<1>11. Chain(z, v)'
  <2>1. ASSUME NEW i \in 1 .. Len(v) - 1 PROVE mNext'[v[i]] \in {v[i + 1], nullptr}
    <3>1. Len(v) = Len(q) - 1 /\ Len(q) \in Nat
      BY <1>7 DEF Cut
    <3>2. i \in 1 .. Len(q) - 1 /\ i + 1 \in 1 .. Len(q) - 1
      BY <3>1
    <3>3. v[i] = q[i + 1] /\ v[i + 1] = q[(i + 1) + 1]
      BY <1>7, <3>2 DEF Cut
    <3> QED BY <1>3, <3>2, <3>3 DEF Chain
  <2> QED BY <1>3, <1>4, <1>5, <1>7, <1>8, <2>1 DEF Chain, Cut
<1>12. Pushing(z, v)'
  <2> SUFFICES ASSUME NEW u \in Thread, post[u].at = "link", Owner[post[u].job] = z
               PROVE  Follows(v, post[u].prev, post[u].job)
                      /\ mNext[post[u].prev] = nullptr
    BY DEF Pushing
  <2>1. Follows(q, post[u].prev, post[u].job) /\ mNext[post[u].prev] = nullptr
    BY <1>3 DEF Pushing
  <2>2. post[u].prev # q[1]
    BY <1>4, <1>5, <2>1
  <2> QED BY <1>7, <2>1, <2>2 DEF Cut
<1>13. Popping(z, v)'
  <2>1. q[2] # z
    <3>1. 1 \in 1 .. Len(v) /\ v[1] = q[2] BY <1>7 DEF Cut
    <3> QED BY <1>4, <1>7, <3>1 DEF Cut, InList
  <2>2. PopKnows(z, v, t)'
    BY <1>5, <1>7, <1>8, <2>1 DEF PopKnows, Holding, Cut
  <2> QED BY <1>1, <1>3, <1>8, <2>2, PoppingAlone
<1>14. Executes(z)'
  <2>1. \A u \in Thread : flush[u].at = "execute" => flush'[u] = flush[u]
    BY <1>8
  <2> QED BY <1>3, <2>1 DEF Executes
<1>15. Living(z, v)'
  <2>1. \A k \in Job : InList(v, k) <=> InList(q, k)
    BY <1>4, <1>7, DispatcherAssumption DEF Cut
  <2> QED BY <1>3, <2>1 DEF Living, Older
<1>16. Queue(z, v)'
  BY <1>10, <1>11, <1>12, <1>13, <1>14, <1>15 DEF Queue
<1>17. v \in Seq(Of(z))
  BY <1>7 DEF Cut
<1> QED BY <1>1, <1>9, <1>16, <1>17, LocalStep

(* Steps of the consumer between its accesses to the list.                 *)
LEMMA PopGoesQueue ==
  ASSUME IInv, More, Older, Queues, NEW t \in Thread, flush[t].at \in InFlush,
         flush[t].at # "execute", NEW z \in Object, z = flush[t].obj,
         NEW at, NEW tail, PopGoes(t, at, tail),
         \/ at = "pop"
         \/ at = "head" /\ tail = mTail[z] /\ tail # z
         \/ at = "clear" /\ tail = mTail[z] /\ tail # z /\ tail = mHead[z]
  PROVE  Queues'
<1>1. Types
  BY DEF IInv
<1>2. PICK q \in Seq(Of(z)) : Queue(z, q)
  BY DEF Queues
<1>3. /\ Chain(z, q) /\ waiting[z] = RemoveFirst(q, z)
      /\ Pushing(z, q) /\ Popping(z, q) /\ Executes(z) /\ Living(z, q)
  BY <1>2 DEF Queue
<1>4. q # <<>> /\ Distinct(q) /\ mTail[z] = q[1] /\ mHead[z] = q[Len(q)]
  BY <1>3 DEF Chain
<1>5. /\ UNCHANGED <<mHead, mTail, mNext, waiting, post, freed, executing>>
      /\ flush'[t].at = at /\ flush'[t].job = tail /\ flush'[t].obj = z
      /\ \A u \in Thread \ {t} : flush'[u] = flush[u]
  BY <1>1 DEF PopGoes, Types, FlushType, queues, jobs
<1>6. Local(t, z)
  BY <1>5 DEF Local
<1>7. ASSUME at = "clear" PROVE ~ InList(q, z)
  <2>1. /\ 1 \in 1 .. Len(q) /\ Len(q) \in 1 .. Len(q) /\ Len(q) \in Nat
    BY <1>4
  <2>2. Len(q) = 1
    BY <1>4, <1>7, <2>1 DEF Distinct
  <2> QED BY <1>4, <1>7, <2>2 DEF InList
<1>8. PopKnows(z, q, t)'
  BY <1>4, <1>5, <1>7 DEF PopKnows, Holding
<1>9. Popping(z, q)'
  BY <1>3, <1>5, <1>8, PoppingAlone
<1>10. Executes(z)'
  <2>1. \A u \in Thread : flush[u].at = "execute" => flush'[u] = flush[u]
    BY <1>5
  <2> QED BY <1>3, <1>5, <2>1 DEF Executes
<1>11. Queue(z, q)'
  BY <1>3, <1>5, <1>9, <1>10 DEF Queue, Chain, Pushing, Living, Older
<1> QED BY <1>1, <1>6, <1>11, LocalStep

(* The stub is made ready before it is put behind the last node.           *)
LEMMA PopClearStubQueue ==
  ASSUME IInv, More, Older, Queues, NEW t \in Thread, PopClearStub(t)
  PROVE  Queues'
<1>1. Types /\ flush[t].at = "clear" /\ flush[t].at \in InFlush
  BY DEF IInv, PopClearStub, Flushes, InFlush
<1>2. PICK z \in Object : z = flush[t].obj
  BY <1>1 DEF Types
<1>3. PICK q \in Seq(Of(z)) : Queue(z, q)
  BY DEF Queues
<1>4. /\ Chain(z, q) /\ waiting[z] = RemoveFirst(q, z)
      /\ Pushing(z, q) /\ Popping(z, q) /\ Executes(z) /\ Living(z, q)
  BY <1>3 DEF Queue
<1>5. q # <<>> /\ Distinct(q) /\ Len(q) \in Nat /\ Len(q) > 0
  BY <1>4 DEF Chain
<1>6. /\ UNCHANGED <<mHead, mTail, waiting, post, freed, executing>>
      /\ mNext'[z] = nullptr /\ \A n \in Node \ {z} : mNext'[n] = mNext[n]
      /\ z \in Node
  BY <1>1, <1>2 DEF PopClearStub, Types, Node, jobs
<1>7. /\ flush'[t].at = "swap" /\ flush'[t].job = flush[t].job /\ flush'[t].obj = z
      /\ \A u \in Thread \ {t} : flush'[u] = flush[u]
  BY <1>1, <1>2 DEF PopClearStub, Goes, Types, FlushType
<1>8. z \in Of(z)
  BY DEF Of
<1>9. Local(t, z)
  BY <1>2, <1>6, <1>7, <1>8 DEF Local
<1>10. flush[t].job = q[1] /\ q[1] # z /\ ~ InList(q, z)
  BY <1>1, <1>2, <1>4 DEF Popping, PopKnows, Holding
<1>11. \A i \in 1 .. Len(q) : mNext'[q[i]] = mNext[q[i]]
  BY <1>6, <1>10 DEF Of, Node, InList
<1>12. Chain(z, q)'
  <2>1. Len(q) \in 1 .. Len(q) /\ \A i \in 1 .. Len(q) - 1 : i \in 1 .. Len(q)
    BY <1>5
  <2> QED BY <1>4, <1>6, <1>11, <2>1 DEF Chain
<1>13. Pushing(z, q)'
  <2> SUFFICES ASSUME NEW u \in Thread, post[u].at = "link", Owner[post[u].job] = z
               PROVE  Follows(q, post[u].prev, post[u].job)
                      /\ mNext'[post[u].prev] = nullptr
    BY <1>6 DEF Pushing
  <2>1. Follows(q, post[u].prev, post[u].job) /\ mNext[post[u].prev] = nullptr
    BY <1>4 DEF Pushing
  <2>2. post[u].prev \in Of(z) /\ post[u].prev # z
    BY <1>5, <1>10, <2>1, FollowsFacts
  <2> QED BY <1>6, <2>1, <2>2 DEF Of, Node
<1>14. PopKnows(z, q, t)'
  BY <1>6, <1>7, <1>10 DEF PopKnows, Holding
<1>15. Popping(z, q)'
  BY <1>1, <1>2, <1>4, <1>6, <1>7, <1>14, PoppingAlone
<1>16. Executes(z)'
  <2>1. \A u \in Thread : flush[u].at = "execute" => flush'[u] = flush[u]
    BY <1>1, <1>7
  <2> QED BY <1>4, <1>6, <2>1 DEF Executes
<1>17. Living(z, q)'
  <2>1. \A k \in Job : mNext'[k] = mNext[k]
    BY <1>6, DispatcherAssumption DEF Node
  <2> QED BY <1>4, <1>6, <2>1 DEF Living, Older
<1>18. Queue(z, q)'
  BY <1>4, <1>6, <1>12, <1>13, <1>15, <1>16, <1>17 DEF Queue
<1> QED BY <1>1, <1>9, <1>18, LocalStep

(* The exchange of Pop: the stub is behind the last node, not yet linked.  *)
LEMMA PopExchangeQueue ==
  ASSUME IInv, More, Older, Queues, NEW t \in Thread, PopExchange(t)
  PROVE  Queues'
<1>1. Types /\ flush[t].at = "swap" /\ flush[t].at \in InFlush
  BY DEF IInv, PopExchange, Flushes, InFlush
<1>2. PICK z \in Object : z = flush[t].obj
  BY <1>1 DEF Types
<1>3. PICK q \in Seq(Of(z)) : Queue(z, q)
  BY DEF Queues
<1>4. /\ Chain(z, q) /\ waiting[z] = RemoveFirst(q, z)
      /\ Pushing(z, q) /\ Popping(z, q) /\ Executes(z) /\ Living(z, q)
  BY <1>3 DEF Queue
<1>5. q # <<>> /\ Distinct(q) /\ mHead[z] = q[Len(q)] /\ mTail[z] = q[1]
  BY <1>4 DEF Chain
<1>6. /\ UNCHANGED <<mTail, mNext, waiting, post, freed, executing>>
      /\ mHead'[z] = z /\ \A o \in Object \ {z} : mHead'[o] = mHead[o]
  BY <1>1, <1>2 DEF PopExchange, Types, jobs
<1>7. /\ flush'[t].at = "link" /\ flush'[t].job = flush[t].job /\ flush'[t].obj = z
      /\ flush'[t].prev = mHead[z]
      /\ \A u \in Thread \ {t} : flush'[u] = flush[u]
  BY <1>1, <1>2 DEF PopExchange, Types, FlushType
<1>8. Local(t, z)
  BY <1>2, <1>6, <1>7 DEF Local
<1>9. flush[t].job = q[1] /\ q[1] # z /\ ~ InList(q, z) /\ mNext[z] = nullptr
  BY <1>1, <1>2, <1>4 DEF Popping, PopKnows, Holding
<1>10. PICK v : v = Append(q, z)
  OBVIOUS
<1>11. Grown(Of(z), q, z, v)
  <2>1. z \in Of(z) BY DEF Of
  <2> QED BY <1>5, <1>9, <1>10, <2>1, AppendFacts
<1>12. Chain(z, v)'
  <2>1. ASSUME NEW i \in 1 .. Len(v) - 1 PROVE mNext'[v[i]] \in {v[i + 1], nullptr}
    <3>1. CASE i = Len(q)
      BY <1>4, <1>6, <1>11, <3>1 DEF Chain, Grown
    <3>2. CASE i # Len(q)
      <4>1. i \in 1 .. Len(q) - 1 /\ v[i] = q[i] /\ v[i + 1] = q[i + 1]
        BY <1>11, <3>2 DEF Grown
      <4> QED BY <1>4, <1>6, <4>1 DEF Chain
    <3> QED BY <3>1, <3>2
  <2> QED BY <1>5, <1>6, <1>9, <1>11, <2>1 DEF Chain, Grown
<1>13. waiting'[z] = RemoveFirst(v, z)
  <2>1. RemoveFirst(q, z) = q BY <1>9, RemoveFirstNone
  <2>2. z \in Of(z) BY DEF Of
  <2>3. RemoveFirst(v, z) = q BY <1>5, <1>9, <1>10, <2>2, RemoveAppended
  <2> QED BY <1>4, <1>6, <2>1, <2>3
<1>14. Pushing(z, v)'
  BY <1>4, <1>6, <1>11 DEF Pushing, Grown
<1>15. PopKnows(z, v, t)'
  <2>1. mNext[mHead[z]] = nullptr /\ Follows(v, mHead[z], z) /\ v[1] = q[1]
    BY <1>4, <1>5, <1>11 DEF Chain, Grown
  <2> QED BY <1>6, <1>7, <1>9, <2>1 DEF PopKnows, Holding
<1>16. Popping(z, v)'
  BY <1>1, <1>2, <1>4, <1>6, <1>7, <1>15, PoppingAlone
<1>17. Executes(z)'
  <2>1. \A u \in Thread : flush[u].at = "execute" => flush'[u] = flush[u]
    BY <1>1, <1>7
  <2> QED BY <1>4, <1>6, <2>1 DEF Executes
<1>18. Living(z, v)'
  <2>1. \A k \in Job : InList(v, k) <=> InList(q, k)
    BY <1>11, DispatcherAssumption DEF Grown
  <2> QED BY <1>4, <1>6, <2>1 DEF Living, Older
<1>19. Queue(z, v)' /\ v \in Seq(Of(z))
  BY <1>11, <1>12, <1>13, <1>14, <1>16, <1>17, <1>18 DEF Queue, Grown
<1> QED BY <1>1, <1>8, <1>19, LocalStep

(* The link of Pop: the stub's predecessor gets its next.                  *)
LEMMA PopLinkQueue ==
  ASSUME IInv, More, Older, Queues, NEW t \in Thread, PopLink(t)
  PROVE  Queues'
<1>1. Types /\ flush[t].at = "link" /\ flush[t].at \in InFlush
  BY DEF IInv, PopLink, Flushes, InFlush
<1>2. PICK z \in Object : z = flush[t].obj
  BY <1>1 DEF Types
<1>3. PICK q \in Seq(Of(z)) : Queue(z, q)
  BY DEF Queues
<1>4. /\ Chain(z, q) /\ waiting[z] = RemoveFirst(q, z)
      /\ Pushing(z, q) /\ Popping(z, q) /\ Executes(z) /\ Living(z, q)
  BY <1>3 DEF Queue
<1>5. q # <<>> /\ Distinct(q) /\ Len(q) \in Nat /\ Len(q) > 0
  BY <1>4 DEF Chain
<1>6. PICK p : /\ p = flush[t].prev /\ Follows(q, p, z) /\ mNext[p] = nullptr
               /\ flush[t].job = q[1] /\ q[1] # z
  BY <1>1, <1>2, <1>4 DEF Popping, PopKnows, Holding
<1>7. /\ InList(q, p) /\ p \in Of(z) /\ p # q[Len(q)]
      /\ \A c : Follows(q, p, c) => c = z
  BY <1>5, <1>6, FollowsFacts
<1>8. p \in Node
  BY <1>7 DEF Of, Node
<1>9. /\ UNCHANGED <<mHead, mTail, waiting, post, freed, executing>>
      /\ mNext'[p] = z /\ \A n \in Node \ {p} : mNext'[n] = mNext[n]
  BY <1>1, <1>2, <1>6, <1>8 DEF PopLink, Types, jobs
<1>10. /\ flush'[t].at = "last" /\ flush'[t].job = flush[t].job /\ flush'[t].obj = z
       /\ \A u \in Thread \ {t} : flush'[u] = flush[u]
  BY <1>1, <1>2 DEF PopLink, Goes, Types, FlushType
<1>11. Local(t, z)
  BY <1>2, <1>7, <1>9, <1>10 DEF Local
<1>12. \A i \in 1 .. Len(q) : q[i] \in Node
  BY DEF Of, Node
<1>13. Chain(z, q)'
  <2>1. mNext'[q[Len(q)]] = nullptr
    BY <1>4, <1>5, <1>7, <1>9, <1>12 DEF Chain
  <2>2. ASSUME NEW i \in 1 .. Len(q) - 1 PROVE mNext'[q[i]] \in {q[i + 1], nullptr}
    <3>1. i \in 1 .. Len(q)
      BY <1>5
    <3>2. CASE q[i] = p
      <4>1. Follows(q, p, q[i + 1]) BY <3>2 DEF Follows
      <4> QED BY <1>7, <1>9, <3>2, <4>1
    <3>3. CASE q[i] # p
      BY <1>4, <1>9, <1>12, <3>1, <3>3 DEF Chain
    <3> QED BY <3>2, <3>3
  <2> QED BY <1>4, <1>9, <2>1, <2>2 DEF Chain
<1>14. Pushing(z, q)'
  <2> SUFFICES ASSUME NEW u \in Thread, post[u].at = "link", Owner[post[u].job] = z
               PROVE  Follows(q, post[u].prev, post[u].job)
                      /\ mNext'[post[u].prev] = nullptr
    BY <1>9 DEF Pushing
  <2>1. Follows(q, post[u].prev, post[u].job) /\ mNext[post[u].prev] = nullptr
    BY <1>4 DEF Pushing
  <2>2. post[u].job \in Job /\ z \notin Job
    BY <1>1, DispatcherAssumption DEF Types
  <2>3. post[u].prev # p
    BY <1>7, <2>1, <2>2
  <2>4. post[u].prev \in Node
    <3>1. post[u].prev \in Of(z) BY <1>5, <2>1, FollowsFacts
    <3> QED BY <3>1 DEF Of, Node
  <2> QED BY <1>9, <2>1, <2>3, <2>4
<1>15. PopKnows(z, q, t)'
  BY <1>6, <1>10 DEF PopKnows, Holding
<1>16. Popping(z, q)'
  BY <1>1, <1>2, <1>4, <1>9, <1>10, <1>15, PoppingAlone
<1>17. Executes(z)'
  <2>1. \A u \in Thread : flush[u].at = "execute" => flush'[u] = flush[u]
    BY <1>1, <1>10
  <2> QED BY <1>4, <1>9, <2>1 DEF Executes
<1>18. Living(z, q)'
  <2>1. \A k \in Job : InList(q, k) \/ mNext'[k] = mNext[k]
    BY <1>7, <1>9 DEF Node
  <2> QED BY <1>4, <1>9, <2>1 DEF Living, Older
<1>19. Queue(z, q)'
  BY <1>4, <1>9, <1>13, <1>14, <1>16, <1>17, <1>18 DEF Queue
<1> QED BY <1>1, <1>11, <1>19, LocalStep

(* The job that was executed is deleted: nothing in the list leads to it.  *)
LEMMA DeleteJobQueue ==
  ASSUME IInv, More, Older, Queues, NEW t \in Thread, DeleteJob(t)
  PROVE  /\ Queues'
         /\ \E o \in Object : /\ executing[o] # {} /\ UNCHANGED waiting
                              /\ executing' = [executing EXCEPT ![o] = {}]
<1>1. Types /\ flush[t].at = "execute" /\ flush[t].at \in InFlush
  BY DEF IInv, DeleteJob, Flushes, InFlush
<1>2. PICK z \in Object : z = flush[t].obj
  BY <1>1 DEF Types
<1>3. PICK q \in Seq(Of(z)) : Queue(z, q)
  BY DEF Queues
<1>4. /\ Chain(z, q) /\ waiting[z] = RemoveFirst(q, z)
      /\ Pushing(z, q) /\ Popping(z, q) /\ Executes(z) /\ Living(z, q)
  BY <1>3 DEF Queue
<1>5. PICK j : j = flush[t].job /\ executing[z] = {j}
  BY <1>1, <1>2, <1>4 DEF Popping, PopKnows
<1>6. j \in Job /\ Owner[j] = z
  BY <1>4, <1>5, DispatcherAssumption DEF Executes, Of, More
<1>7. /\ UNCHANGED <<mHead, mTail, mNext, waiting, post>>
      /\ freed' = freed \cup {j}
      /\ executing' = [executing EXCEPT ![z] = {}]
  BY <1>2, <1>5 DEF DeleteJob, queues
<1>8. /\ executing'[z] = {}
      /\ \A o \in Object \ {z} : executing'[o] = executing[o]
  BY <1>7 DEF More
<1>9. /\ flush'[t].at = "count" /\ flush'[t].job = j /\ flush'[t].obj = z
      /\ \A u \in Thread \ {t} : flush'[u] = flush[u]
  BY <1>1, <1>2, <1>5 DEF DeleteJob, Goes, Types, FlushType
<1>10. j \in Of(z)
  BY <1>6 DEF Of
<1>11. Local(t, z)
  BY <1>2, <1>7, <1>8, <1>9, <1>10 DEF Local
<1>12. PopKnows(z, q, t)'
  BY <1>7, <1>9, <1>10 DEF PopKnows, Holding
<1>13. Popping(z, q)'
  BY <1>1, <1>2, <1>4, <1>7, <1>9, <1>12, PoppingAlone
<1>14. Executes(z)'
  BY <1>8 DEF Executes
<1>15. Living(z, q)'
  BY <1>4, <1>5, <1>6, <1>7, <1>8 DEF Living, Older
<1>16. Chain(z, q)' /\ Pushing(z, q)'
  BY <1>4, <1>7 DEF Chain, Pushing
<1>17. Queue(z, q)'
  BY <1>4, <1>7, <1>13, <1>14, <1>15, <1>16 DEF Queue
<1>18. Queues'
  BY <1>1, <1>11, <1>17, LocalStep
<1> QED BY <1>5, <1>7, <1>18

(* Between its accesses to the list, Pop holds the first node, a job.      *)
LEMMA HoldsTail ==
  ASSUME IInv, Queues, NEW t \in Thread, flush[t].at \in Holding
  PROVE  flush[t].job = mTail[flush[t].obj] /\ flush[t].job # flush[t].obj
<1>1. PICK z \in Object : z = flush[t].obj
  BY DEF IInv, Types, Holding
<1>2. PICK q \in Seq(Of(z)) : Queue(z, q)
  BY DEF Queues
<1> QED BY <1>1, <1>2 DEF Queue, Chain, Popping, PopKnows

(* The three steps of Pop that may return a job.                           *)
LEMMA PopQueue ==
  ASSUME IInv, More, Older, Queues, NEW t \in Thread,
         Pop(t) \/ PopSecond(t) \/ PopLast(t)
  PROVE  /\ Queues'
         /\ \/ UNCHANGED <<waiting, executing>>
            \/ \E o \in Object : Serial!Begin(o)
<1>1. /\ Types /\ flush[t].at \in {"pop", "second", "last"} /\ flush[t].at \in InFlush
      /\ flush[t].at # "execute"
  BY DEF IInv, Pop, PopSecond, PopLast, Flushes, InFlush
<1>2. PICK z \in Object : z = flush[t].obj
  BY <1>1 DEF Types
<1>3. ASSUME NEW tail \in Node, NEW next, next # nullptr, tail = mTail[z], tail # z,
             mNext[tail] = next, PopReturns(t, tail, next)
      PROVE  Queues' /\ \E o \in Object : Serial!Begin(o)
  <2>1. next \in Node
    BY <1>1, <1>3 DEF Types
  <2>2. /\ Queues' /\ waiting[z] # <<>> /\ executing[z] = {}
        /\ executing' = [executing EXCEPT ![z] = {Head(waiting[z])}]
        /\ waiting' = [waiting EXCEPT ![z] = Tail(@)]
    BY <1>1, <1>2, <1>3, <2>1, PopReturnsQueue
  <2> QED BY <2>2 DEF Serial!Begin
<1>4. ASSUME NEW at, NEW tail, PopGoes(t, at, tail),
             at = "pop" \/ (at = "head" /\ tail = mTail[z] /\ tail # z)
      PROVE  Queues' /\ UNCHANGED <<waiting, executing>>
  <2>1. Queues' BY <1>1, <1>2, <1>4, PopGoesQueue
  <2> QED BY <1>4, <2>1 DEF PopGoes, queues, jobs
<1>5. CASE Pop(t)
  <2>1. PICK tail \in Node : tail = mTail[z]
    BY <1>1 DEF Types
  <2>2. PICK next \in Node \cup {nullptr} : next = mNext[tail]
    BY <1>1, <2>1 DEF Types
  <2>3. CASE tail # z /\ next # nullptr /\ PopReturns(t, tail, next)
    BY <1>3, <2>1, <2>2, <2>3
  <2>4. CASE tail # z /\ next = nullptr /\ PopGoes(t, "head", tail)
    BY <1>4, <2>1, <2>4
  <2>5. CASE /\ tail = z /\ next # nullptr
             /\ mTail' = [mTail EXCEPT ![z] = next]
             /\ flush' = [flush EXCEPT ![t].at = "second", ![t].job = next]
             /\ UNCHANGED <<mHead, mNext, waiting, counts, post, timers, lists, jobs>>
    <3>1. next \in Node /\ flush[t].at = "pop"
      BY <1>5, <2>5 DEF Pop, Flushes
    <3>2. UNCHANGED <<mHead, mNext, waiting, post, freed, executing>>
      BY <2>5 DEF jobs
    <3>3. Queues'
      BY <1>2, <2>1, <2>2, <2>5, <3>1, <3>2, PopStubQueue
    <3> QED BY <3>2, <3>3
  <2> QED BY <1>2, <1>5, <2>1, <2>2, <2>3, <2>4, <2>5 DEF Pop
<1>6. CASE PopSecond(t) \/ PopLast(t)
  <2>1. flush[t].at \in Holding
    BY <1>6 DEF PopSecond, PopLast, Flushes, Holding
  <2>2. PICK tail \in Node : tail = flush[t].job /\ tail = mTail[z] /\ tail # z
    BY <1>1, <1>2, <2>1, HoldsTail DEF Types, Holding
  <2>3. CASE mNext[tail] # nullptr /\ PopReturns(t, tail, mNext[tail])
    BY <1>3, <2>2, <2>3
  <2>4. CASE PopGoes(t, "head", tail) \/ PopGoes(t, "pop", tail)
    BY <1>4, <2>2, <2>4
  <2> QED BY <1>6, <2>2, <2>3, <2>4 DEF PopSecond, PopLast
<1> QED BY <1>5, <1>6

LEMMA PopHeadQueue ==
  ASSUME IInv, More, Older, Queues, NEW t \in Thread, PopHead(t)
  PROVE  Queues' /\ UNCHANGED <<waiting, executing>>
<1>1. /\ Types /\ flush[t].at = "head" /\ flush[t].at \in InFlush
      /\ flush[t].at \in Holding
  BY DEF IInv, PopHead, Flushes, InFlush, Holding
<1>2. PICK z \in Object : z = flush[t].obj
  BY <1>1 DEF Types
<1>3. PICK tail : tail = flush[t].job /\ tail = mTail[z] /\ tail # z
  BY <1>1, <1>2, HoldsTail
<1>4. PICK at : /\ PopGoes(t, at, tail)
                /\ at = "pop" \/ (at = "clear" /\ tail = mHead[z])
  BY <1>2, <1>3 DEF PopHead
<1>5. Queues'
  BY <1>1, <1>2, <1>3, <1>4, PopGoesQueue
<1> QED BY <1>4, <1>5 DEF PopGoes, queues, jobs

-----------------------------------------------------------------------------
(* The invariant of the queue.                                             *)

QInv == IInv /\ More /\ Occupied /\ Once /\ Queues

(* Initially every list is its stub alone.                                 *)
LEMMA InitQInv == Init => QInv
<1> SUFFICES ASSUME Init PROVE QInv
  OBVIOUS
<1>1. More /\ Occupied /\ Once
  BY DispatcherAssumption DEF Init, More, Occupied, Once, NoFlush, NoPost
<1>2. ASSUME NEW o \in Object PROVE \E q \in Seq(Of(o)) : Queue(o, q)
  <2>1. PICK q : q = <<o>>
    OBVIOUS
  <2>2. o \in Of(o)
    BY DEF Of
  <2>3. q \in Seq(Of(o)) /\ q # <<>> /\ Len(q) = 1 /\ q[1] = o
    BY <2>1, <2>2
  <2>4. Distinct(q)
    BY <2>3 DEF Distinct
  <2>5. Chain(o, q)
    BY <2>3, <2>4 DEF Init, Chain, Node
  <2>6. waiting[o] = RemoveFirst(q, o)
    <3>1. RemoveFirst(q, q[1]) = Tail(q) BY <2>3, <2>4, RemoveHead
    <3>2. Tail(q) = <<>> BY <2>1
    <3> QED BY <2>3, <3>1, <3>2 DEF Init
  <2>7. Pushing(o, q) /\ Popping(o, q) /\ Executes(o)
    BY DispatcherAssumption
    DEF Init, Pushing, Popping, Executes, NoPost, NoFlush
  <2>8. Living(o, q)
    BY <2>3, DispatcherAssumption DEF Init, Living, InList, Node
  <2> QED BY <2>3, <2>5, <2>6, <2>7, <2>8 DEF Queue
<1> QED BY <1>1, <1>2, InitIInv DEF QInv, Queues

(* Types.                                                                  *)
LEMMA MoreStep ==
  ASSUME IInv, More, Occupied, Older, Queues, [Next]_vars
  PROVE  More'
<1> USE DEF More
<1>1. Types /\ \A j \in Job : Owner[j] \in Object
  BY DispatcherAssumption DEF IInv, Types
<1>2. ASSUME NEW t \in Thread, NEW j \in Job, DoAsync(t, j) \/ DoAsyncAfter(t, j)
      PROVE  More'
  BY <1>1, <1>2 DEF DoAsync, DoAsyncAfter, queues, counts, timers, lists
<1>3. ASSUME NEW t \in Thread, DoTimerJob(t) \/ TimerRelease(t) PROVE More'
  <2>1. CASE DoTimerJob(t)
    BY <1>1, <2>1 DEF DoTimerJob, Types, queues, counts, lists, jobs
  <2>2. CASE TimerRelease(t)
    BY <1>1, <2>2 DEF TimerRelease, queues, lists, jobs
  <2> QED BY <1>3, <2>1, <2>2
<1>4. ASSUME NEW t \in Thread, PushExchange(t) PROVE More'
  <2>1. post[t].job \in Job /\ Target(t) \in Object
    BY <1>1, <1>4 DEF PushExchange, Posts, Types, Target
  <2> QED BY <1>4, <2>1 DEF PushExchange, counts, timers, lists, jobs
<1>5. ASSUME NEW t \in Thread, CountTask(t) \/ PushLink(t) PROVE More'
  BY <1>5 DEF CountTask, PushLink, queues, counts, timers, lists, jobs
<1>6. ASSUME NEW t \in Thread, AddRefForThis(t) PROVE More'
  <2>1. Target(t) \in Object
    BY <1>1, <1>6 DEF AddRefForThis, Posts, Types, Target
  <2>2. UNCHANGED <<timer, waiting, executing, freed>> /\ mRefCount' \in [Object -> Int]
    BY <1>6, <2>1 DEF AddRefForThis, queues, timers, jobs
  <2>3. LCurrentExecuterOccupyingThisThread' \in [Thread -> Object \cup {nullptr}]
    <3>1. CASE UNCHANGED LCurrentExecuterOccupyingThisThread
      BY <3>1
    <3>2. CASE LCurrentExecuterOccupyingThisThread' =
                 [LCurrentExecuterOccupyingThisThread EXCEPT ![t] = Target(t)]
      BY <2>1, <3>2
    <3> QED BY <1>6, <3>1, <3>2 DEF AddRefForThis
  <2> QED BY <2>2, <2>3
<1>7. ASSUME NEW t \in Thread, Pop(t) \/ PopSecond(t) \/ PopLast(t) PROVE More'
  <2>1. UNCHANGED <<timer, freed, LCurrentExecuterOccupyingThisThread, mRefCount>>
    BY <1>7 DEF Pop, PopSecond, PopLast, PopReturns, PopGoes, counts, timers, lists, jobs
  <2>2. CASE UNCHANGED <<waiting, executing>>
    BY <2>1, <2>2
  <2>3. ASSUME NEW o \in Object, Serial!Begin(o) PROVE More'
    <3>1. /\ waiting[o] \in Seq(Job) /\ waiting[o] # <<>>
          /\ executing' = [executing EXCEPT ![o] = {Head(waiting[o])}]
          /\ waiting' = [waiting EXCEPT ![o] = Tail(@)]
      BY <2>3 DEF Serial!Begin
    <3>2. Head(waiting[o]) \in Job /\ Tail(waiting[o]) \in Seq(Job)
      BY <3>1
    <3> QED BY <2>1, <3>1, <3>2
  <2> QED BY <1>7, <2>2, <2>3, PopQueue
<1>8. ASSUME NEW t \in Thread,
             PopHead(t) \/ PopClearStub(t) \/ PopExchange(t) \/ PopLink(t)
      PROVE  More'
  BY <1>8 DEF PopHead, PopGoes, PopClearStub, PopExchange, PopLink, queues, counts,
              timers, lists, jobs
<1>9. ASSUME NEW t \in Thread, DeleteJob(t) PROVE More'
  <2>1. PICK o \in Object : executing' = [executing EXCEPT ![o] = {}]
    BY <1>9, DeleteJobQueue
  <2>2. /\ UNCHANGED <<timer, waiting, LCurrentExecuterOccupyingThisThread, mRefCount>>
        /\ freed' = freed \cup {flush[t].job}
    BY <1>9 DEF DeleteJob, queues, counts, timers, lists
  <2>3. flush[t].job \in Job
    <3>1. PICK z \in Object : z = flush[t].obj
      BY <1>1, <1>9 DEF DeleteJob, Flushes, Types
    <3>2. PICK q \in Seq(Of(z)) : Queue(z, q)
      BY DEF Queues
    <3>3. executing[z] = {flush[t].job}
      BY <1>9, <3>1, <3>2 DEF DeleteJob, Flushes, Queue, Popping, PopKnows
    <3> QED BY <3>3
  <2> QED BY <2>1, <2>2, <2>3
<1>10. ASSUME NEW t \in Thread,
              CountDown(t) \/ ReleaseListed(t) \/ NextExecuter(t) \/ LeaveThread(t)
       PROVE  More'
  <2>1. CASE CountDown(t) \/ NextExecuter(t)
    BY <2>1 DEF CountDown, NextExecuter, queues, counts, timers, lists, jobs
  <2>2. CASE ReleaseListed(t)
    <3>1. flush[t].obj \in Object
      BY <1>1, <2>2 DEF ReleaseListed, Flushes, Types
    <3> QED BY <2>2, <3>1 DEF ReleaseListed, queues, timers, lists, jobs
  <2>3. CASE LeaveThread(t)
    <3>1. LCurrentExecuterOccupyingThisThread[t] \in Object
      BY <2>3 DEF LeaveThread, Flushes, Occupied
    <3> QED BY <2>3, <3>1 DEF LeaveThread, queues, timers, jobs
  <2> QED BY <1>10, <2>1, <2>2, <2>3
<1>11. CASE UNCHANGED vars
  BY <1>11 DEF vars, queues, counts, timers, lists, jobs
<1>12. ASSUME NEW t \in Thread, DispatchStep(t) PROVE More'
  BY <1>3, <1>4, <1>5, <1>6, <1>7, <1>8, <1>9, <1>10, <1>12 DEF DispatchStep
<1> QED BY <1>2, <1>3, <1>11, <1>12 DEF Next, Quiet

(* A thread is occupied exactly while it is inside of Flush or its list.   *)
LEMMA OccupiedKept ==
  ASSUME Occupied, UNCHANGED LCurrentExecuterOccupyingThisThread, NEW t \in Thread,
         \A u \in Thread \ {t} : flush'[u] = flush[u],
         \/ flush'[t] = flush[t]
         \/ /\ flush[t].at # "no" /\ flush'[t].at # "no"
            /\ \/ flush'[t].at = "list" \/ flush'[t].listed
               \/ /\ flush[t].at \notin {"no", "list"} /\ flush'[t].at # "release"
                  /\ flush'[t].listed = flush[t].listed /\ flush'[t].obj = flush[t].obj
  PROVE  Occupied'
BY DEF Occupied

LEMMA OccupiedStep ==
  ASSUME IInv, More, Occupied, [Next]_vars
  PROVE  Occupied'
<1>1. /\ Types /\ flush \in [Thread -> FlushType]
      /\ LCurrentExecuterOccupyingThisThread \in [Thread -> Object \cup {nullptr}]
  BY DEF IInv, Types, More
<1>2. CASE UNCHANGED <<flush, LCurrentExecuterOccupyingThisThread>>
  BY <1>2 DEF Occupied
<1>3. ASSUME NEW t \in Thread, AddRefForThis(t) PROVE Occupied'
  <2>1. PICK o \in Object : o = Target(t)
    BY <1>1, <1>3, DispatcherAssumption DEF AddRefForThis, Posts, Types, Target
  <2>2. CASE UNCHANGED <<flush, LCurrentExecuterOccupyingThisThread>>
    BY <1>2, <2>2
  <2>3. CASE /\ LCurrentExecuterOccupyingThisThread' =
                  [LCurrentExecuterOccupyingThisThread EXCEPT ![t] = o]
             /\ flush' = [flush EXCEPT ![t] = [NoFlush EXCEPT !.at = "pop", !.obj = o]]
    <3>1. /\ LCurrentExecuterOccupyingThisThread'[t] = o
          /\ flush'[t].at = "pop" /\ flush'[t].obj = o
          /\ \A u \in Thread \ {t} :
               /\ LCurrentExecuterOccupyingThisThread'[u]
                     = LCurrentExecuterOccupyingThisThread[u]
               /\ flush'[u] = flush[u]
      BY <1>1, <2>3 DEF NoFlush
    <3> QED BY <3>1, DispatcherAssumption DEF Occupied
  <2> QED BY <1>3, <2>1, <2>2, <2>3 DEF AddRefForThis
<1>4. ASSUME NEW t \in Thread, LeaveThread(t) PROVE Occupied'
  <2>1. /\ LCurrentExecuterOccupyingThisThread'[t] = nullptr
        /\ flush'[t].at = "no"
        /\ \A u \in Thread \ {t} :
             /\ LCurrentExecuterOccupyingThisThread'[u]
                   = LCurrentExecuterOccupyingThisThread[u]
             /\ flush'[u] = flush[u]
    BY <1>1, <1>4 DEF LeaveThread, NoFlush
  <2> QED BY <2>1 DEF Occupied
<1>5. ASSUME NEW t \in Thread,
             \/ Pop(t) \/ PopSecond(t) \/ PopHead(t) \/ PopClearStub(t)
             \/ PopExchange(t) \/ PopLink(t) \/ PopLast(t) \/ DeleteJob(t)
      PROVE  Occupied'
  <2>1. UNCHANGED LCurrentExecuterOccupyingThisThread
    BY <1>5 DEF Pop, PopSecond, PopHead, PopClearStub, PopExchange, PopLink, PopLast,
       PopReturns, PopGoes, DeleteJob, lists
  <2>2. flush[t].at \notin {"no", "list"}
    BY <1>5 DEF Pop, PopSecond, PopHead, PopClearStub, PopExchange, PopLink, PopLast,
       DeleteJob, Flushes
  <2> DEFINE Moves == /\ flush'[t].obj = flush[t].obj /\ flush'[t].listed = flush[t].listed
                      /\ flush'[t].at \notin {"no", "list", "release"}
                      /\ \A u \in Thread \ {t} : flush'[u] = flush[u]
  <2>3. ASSUME NEW tail, NEW next, PopReturns(t, tail, next) PROVE Moves
    BY <1>1, <2>3 DEF PopReturns, FlushType
  <2>4. ASSUME NEW at \in {"head", "pop", "clear"}, NEW tail, PopGoes(t, at, tail)
        PROVE  Moves
    BY <1>1, <2>4 DEF PopGoes, FlushType
  <2>5. ASSUME NEW at \in {"swap", "last", "count"}, Goes(t, at) PROVE Moves
    BY <1>1, <2>5 DEF Goes, FlushType
  <2>6. ASSUME NEW next, flush' = [flush EXCEPT ![t].at = "second", ![t].job = next]
        PROVE  Moves
    BY <1>1, <2>6 DEF FlushType
  <2>7. ASSUME PopExchange(t) PROVE Moves
    <3>1. flush' = [flush EXCEPT ![t].at = "link", ![t].prev = mHead[flush[t].obj]]
      BY <2>7 DEF PopExchange
    <3> QED BY <1>1, <3>1 DEF FlushType
  <2> HIDE DEF Moves
  <2>8. ASSUME Pop(t) PROVE Moves
    BY <2>3, <2>4, <2>6, <2>8 DEF Pop
  <2>9. ASSUME PopSecond(t) \/ PopLast(t) \/ PopHead(t) PROVE Moves
    BY <2>3, <2>4, <2>9 DEF PopSecond, PopLast, PopHead
  <2>10. ASSUME PopClearStub(t) \/ PopLink(t) \/ DeleteJob(t) PROVE Moves
    BY <2>5, <2>10 DEF PopClearStub, PopLink, DeleteJob
  <2>11. Moves
    BY <1>5, <2>7, <2>8, <2>9, <2>10
  <2> QED BY <2>1, <2>2, <2>11, OccupiedKept DEF Moves
<1>6. ASSUME NEW t \in Thread, CountDown(t) \/ ReleaseListed(t) PROVE Occupied'
  <2>1. PICK at \in {"pop", "release", "list"} :
          Goes(t, at) /\ (at = "release" => flush[t].listed)
    BY <1>6 DEF CountDown, ReleaseListed
  <2>2. /\ UNCHANGED LCurrentExecuterOccupyingThisThread
        /\ flush[t].at \in {"count", "release"}
    BY <1>6 DEF CountDown, ReleaseListed, Flushes, lists
  <2>3. /\ flush'[t].at = at /\ flush'[t].obj = flush[t].obj
        /\ flush'[t].listed = flush[t].listed
        /\ \A u \in Thread \ {t} : flush'[u] = flush[u]
    BY <1>1, <2>1 DEF Goes, FlushType
  <2> QED BY <2>1, <2>2, <2>3, OccupiedKept
<1>7. ASSUME NEW t \in Thread, NextExecuter(t) PROVE Occupied'
  <2>1. /\ UNCHANGED LCurrentExecuterOccupyingThisThread /\ flush[t].at = "list"
        /\ flush'[t].at = "pop" /\ flush'[t].listed
        /\ \A u \in Thread \ {t} : flush'[u] = flush[u]
    BY <1>1, <1>7 DEF NextExecuter, Flushes, NoFlush
  <2> QED BY <2>1, OccupiedKept
<1>8. ASSUME NEW t \in Thread, NEW j \in Job, DoAsync(t, j) \/ DoAsyncAfter(t, j)
      PROVE  Occupied'
  BY <1>2, <1>8 DEF DoAsync, DoAsyncAfter, lists
<1>9. ASSUME NEW t \in Thread,
             \/ DoTimerJob(t) \/ TimerRelease(t) \/ CountTask(t) \/ PushExchange(t)
             \/ PushLink(t)
      PROVE  Occupied'
  BY <1>2, <1>9 DEF DoTimerJob, TimerRelease, CountTask, PushExchange, PushLink, lists
<1>10. CASE UNCHANGED vars
  BY <1>2, <1>10 DEF vars, lists
<1>11. ASSUME NEW t \in Thread, DispatchStep(t) PROVE Occupied'
  BY <1>3, <1>4, <1>5, <1>6, <1>7, <1>9, <1>11 DEF DispatchStep
<1> QED BY <1>8, <1>9, <1>10, <1>11 DEF Next, Quiet

(* Once is kept by every step, and no step makes a job New again.          *)
LEMMA OnceStep ==
  ASSUME Types, More, Once, [Next]_vars
  PROVE  Once' /\ Older
<1>1. CASE UNCHANGED vars
  BY <1>1, OnceKept DEF vars, timers, jobs
<1>2. ASSUME NEW t \in Thread, DispatchStep(t) PROVE Once' /\ Older
  BY <1>2, OnceDispatch, OnceRelease
<1>3. ASSUME NEW t \in Thread,
             DoTimerJob(t) \/ \E j \in Job : DoAsync(t, j) \/ DoAsyncAfter(t, j)
      PROVE  Once' /\ Older
  BY <1>3, OnceCall
<1> QED BY <1>1, <1>2, <1>3 DEF Next, Quiet

(* Every step keeps the invariant.                                         *)
LEMMA StepQInv == QInv /\ [Next]_vars => QInv'
<1> SUFFICES ASSUME IInv, More, Occupied, Once, Queues, [Next]_vars PROVE QInv'
  BY DEF QInv
<1>1. Types /\ IInv'
  BY StepIInv DEF IInv
<1>2. Once' /\ Older
  BY <1>1, OnceStep
<1>3. More' /\ Occupied'
  BY <1>2, MoreStep, OccupiedStep
<1>4. Queues'
  <2>1. CASE UNCHANGED vars
    BY <1>1, <1>2, <2>1, QuietStep DEF vars, queues, jobs
  <2>2. ASSUME NEW t \in Thread, DispatchStep(t) PROVE Queues'
    BY <1>2, <2>2, QueuesKept, PushExchangeQueue, PushLinkQueue, PopQueue,
       PopHeadQueue, PopClearStubQueue, PopExchangeQueue, PopLinkQueue,
       DeleteJobQueue
    DEF DispatchStep
  <2>3. ASSUME NEW t \in Thread,
               DoTimerJob(t) \/ \E j \in Job : DoAsync(t, j) \/ DoAsyncAfter(t, j)
        PROVE  Queues'
    BY <1>2, <2>3, QueuesKept
  <2> QED BY <2>1, <2>2, <2>3 DEF Next, Quiet
<1> QED BY <1>1, <1>2, <1>3, <1>4 DEF QInv

(* The queue invariant holds in every state of every behaviour.            *)
THEOREM QueueInvariance == Spec => []QInv
<1>1. Init => QInv BY InitQInv
<1>2. QInv /\ [Next]_vars => QInv' BY StepQInv
<1> QED BY <1>1, <1>2, PTL DEF Spec

(* Every pointer of the list and of a push or pop in progress leads to a   *)
(* node of the sequence, and none of those is deleted.                     *)
LEMMA NothingDangles == QInv => NoDangling
<1> SUFFICES ASSUME IInv, More, Queues PROVE NoDangling
  BY DEF QInv
<1>1. /\ freed \subseteq Job /\ nullptr \notin freed
      /\ \A o \in Object : o \notin freed
  BY DispatcherAssumption DEF More
<1>2. ASSUME NEW o \in Object, NEW q \in Seq(Of(o)), Queue(o, q), NEW e, InList(q, e)
      PROVE  e \notin freed
  <2>1. e \in Of(o) BY <1>2 DEF InList
  <2> QED BY <1>1, <1>2, <2>1 DEF Queue, Living, Of
<1>3. ASSUME NEW o \in Object, NEW q \in Seq(Of(o)), Queue(o, q), NEW e, InList(q, e)
      PROVE  mNext[e] = nullptr \/ InList(q, mNext[e])
  <2>1. PICK i \in 1 .. Len(q) : q[i] = e BY <1>3 DEF InList
  <2>2. CASE i = Len(q)
    BY <1>3, <2>1, <2>2 DEF Queue, Chain
  <2>3. CASE i # Len(q)
    <3>1. i \in 1 .. Len(q) - 1 /\ i + 1 \in 1 .. Len(q) BY <2>1, <2>3
    <3>2. mNext[e] \in {q[i + 1], nullptr} BY <1>3, <2>1, <3>1 DEF Queue, Chain
    <3> QED BY <3>1, <3>2 DEF InList
  <2> QED BY <2>2, <2>3
<1>4. ASSUME NEW o \in Object, NEW q \in Seq(Of(o)), Queue(o, q)
      PROVE  InList(q, mTail[o]) /\ InList(q, mHead[o])
  <2>1. q # <<>> /\ mTail[o] = q[1] /\ mHead[o] = q[Len(q)]
    BY <1>4 DEF Queue, Chain
  <2>2. 1 \in 1 .. Len(q) /\ Len(q) \in 1 .. Len(q) BY <2>1
  <2> QED BY <2>1, <2>2 DEF InList
<1>5. ASSUME NEW o \in Object PROVE {mHead[o], mTail[o], mNext[mTail[o]]} \cap freed = {}
  <2>1. PICK q \in Seq(Of(o)) : Queue(o, q) BY DEF Queues
  <2>2. InList(q, mTail[o]) /\ InList(q, mHead[o]) BY <1>4, <2>1
  <2>3. mTail[o] \notin freed /\ mHead[o] \notin freed BY <1>2, <2>1, <2>2
  <2>4. mNext[mTail[o]] = nullptr \/ InList(q, mNext[mTail[o]]) BY <1>3, <2>1, <2>2
  <2>5. mNext[mTail[o]] \notin freed BY <1>1, <1>2, <2>1, <2>4
  <2> QED BY <2>3, <2>5
<1>6. ASSUME NEW j \in Job \ freed PROVE mNext[j] \notin freed
  <2>1. PICK o \in Object : o = Owner[j] BY DispatcherAssumption
  <2>2. PICK q \in Seq(Of(o)) : Queue(o, q) BY DEF Queues
  <2>3. InList(q, j) \/ j \in executing[o] \/ mNext[j] = nullptr
    BY <2>1, <2>2 DEF Queue, Living
  <2>4. CASE InList(q, j)
    BY <1>1, <1>2, <1>3, <2>2, <2>4
  <2>5. CASE j \in executing[o]
    <3>1. PICK t \in Thread : flush[t].at = "execute" /\ flush[t].obj = o
      BY <2>2, <2>5 DEF Queue, Executes
    <3>2. executing[o] = {flush[t].job} /\ mNext[flush[t].job] = q[1]
      BY <2>2, <3>1 DEF Queue, Popping, PopKnows
    <3>3. mNext[j] = mTail[o]
      BY <2>2, <2>5, <3>2 DEF Queue, Chain
    <3> QED BY <1>5, <3>3
  <2> QED BY <1>1, <2>3, <2>4, <2>5
<1>7. ASSUME NEW t \in Thread, Posts(t, "link") PROVE post[t].prev \notin freed
  <2>1. PICK o \in Object : o = Owner[post[t].job]
    BY <1>7, DispatcherAssumption DEF IInv, Types, Posts
  <2>2. PICK q \in Seq(Of(o)) : Queue(o, q) BY DEF Queues
  <2>3. Follows(q, post[t].prev, post[t].job) /\ Distinct(q)
    BY <1>7, <2>1, <2>2 DEF Queue, Pushing, Posts, Chain
  <2>4. InList(q, post[t].prev) BY <2>3, FollowsFacts
  <2> QED BY <1>2, <2>2, <2>4
<1>8. ASSUME NEW t \in Thread, flush[t].at \in Holding
      PROVE  /\ flush[t].at = "link" => flush[t].prev \notin freed
             /\ flush[t].job \notin freed
  <2>1. PICK o \in Object : o = flush[t].obj
    BY <1>8 DEF IInv, Types, Holding
  <2>2. PICK q \in Seq(Of(o)) : Queue(o, q) BY DEF Queues
  <2>3. flush[t].job \notin freed
    BY <1>5, <1>8, <2>1, HoldsTail
  <2>4. ASSUME flush[t].at = "link" PROVE flush[t].prev \notin freed
    <3>1. Follows(q, flush[t].prev, o) /\ Distinct(q)
      BY <2>1, <2>2, <2>4 DEF Queue, Popping, PopKnows, Chain
    <3>2. InList(q, flush[t].prev) BY <3>1, FollowsFacts
    <3> QED BY <1>2, <2>2, <3>2
  <2> QED BY <2>3, <2>4
<1> QED BY <1>5, <1>6, <1>7, <1>8 DEF NoDangling, Holding

(* JobQueue::Pop hands out a node only after another has taken its place,  *)
(* so "delete job" in Flush never frees what the queue, a push or a pop    *)
(* still leads to: for any number of threads and any interleaving of the   *)
(* exchanges with their links.                                             *)
THEOREM NeverDangling == Spec => []NoDangling
BY QueueInvariance, NothingDangles, PTL

(* A step of the dispatcher is a step of the serial execution of each      *)
(* object's jobs, or changes nothing that it speaks of.                    *)
LEMMA SerialStep ==
  ASSUME QInv, [Next]_vars
  PROVE  [Serial!Next]_<<waiting, executing>>
<1>1. IInv /\ More /\ Occupied /\ Once /\ Queues /\ Types
  BY DEF QInv, IInv
<1>2. Older
  BY <1>1, OnceStep
<1>3. ASSUME NEW t \in Thread, PushExchange(t) PROVE \E j \in Job : Serial!Enqueue(j)
  <2>1. PICK j \in Job : j = post[t].job
    BY <1>1, <1>3 DEF PushExchange, Posts, Types
  <2>2. waiting' = [waiting EXCEPT ![Owner[j]] = Append(@, j)] /\ UNCHANGED executing
    BY <1>3, <2>1 DEF PushExchange, Target, jobs
  <2> QED BY <2>2 DEF Serial!Enqueue
<1>4. ASSUME NEW t \in Thread, DeleteJob(t) PROVE \E o \in Object : Serial!End(o)
  BY <1>1, <1>2, <1>4, DeleteJobQueue DEF Serial!End
<1>5. ASSUME NEW t \in Thread, Pop(t) \/ PopSecond(t) \/ PopLast(t)
      PROVE  UNCHANGED <<waiting, executing>> \/ \E o \in Object : Serial!Begin(o)
  BY <1>1, <1>2, <1>5, PopQueue
<1>6. ASSUME NEW t \in Thread,
             \/ TimerRelease(t) \/ CountTask(t) \/ PushLink(t) \/ AddRefForThis(t)
             \/ PopHead(t) \/ PopClearStub(t) \/ PopExchange(t) \/ PopLink(t)
             \/ CountDown(t) \/ ReleaseListed(t) \/ NextExecuter(t) \/ LeaveThread(t)
             \/ DoTimerJob(t) \/ \E j \in Job : DoAsync(t, j) \/ DoAsyncAfter(t, j)
      PROVE  UNCHANGED <<waiting, executing>>
  BY <1>6 DEF TimerRelease, CountTask, PushLink, AddRefForThis, PopHead, PopGoes,
     PopClearStub, PopExchange, PopLink, CountDown, ReleaseListed, NextExecuter,
     LeaveThread, DoTimerJob, DoAsync, DoAsyncAfter, queues, jobs
<1>7. CASE UNCHANGED vars
  BY <1>7 DEF vars, queues, jobs
<1>8. ASSUME NEW t \in Thread, DispatchStep(t) PROVE [Serial!Next]_<<waiting, executing>>
  BY <1>3, <1>4, <1>5, <1>6, <1>8 DEF DispatchStep, Serial!Next
<1> QED BY <1>6, <1>7, <1>8 DEF Next, Quiet

(* The dispatcher implements serial execution: whatever the threads do, an *)
(* object's jobs run one at a time, each once, in the order in which       *)
(* JobQueue::Push put them behind mHead.                                   *)
THEOREM ImplementsSerial == Spec => IsSerial
<1>1. Init => Serial!Init
  BY DEF Init, Serial!Init
<1>2. QInv /\ [Next]_vars => [Serial!Next]_<<waiting, executing>>
  BY SerialStep
<1> QED BY <1>1, <1>2, QueueInvariance, PTL DEF Spec, IsSerial, Serial!Spec

-----------------------------------------------------------------------------
(* The counts.                                                             *)

(* The jobs of o that mRemainTaskCount counts: from the fetch_add to the   *)
(* fetch_sub.                                                              *)
Counted(o) ==
  {j \in Job : /\ Owner[j] = o
               /\ \/ \E t \in Thread : post[t].at = "exchange" /\ post[t].job = j
                  \/ InList(waiting[o], j)
                  \/ j \in executing[o]
                  \/ \E t \in Thread : /\ flush[t].at = "count" /\ flush[t].obj = o
                                       /\ flush[t].job = j}

(* Who holds a reference to o.                                             *)
TimerRefs(o) ==
  {<<"timer", j>> : j \in {i \in Job : Owner[i] = o /\ \E t \in Thread : i \in armed[t]}}
ThreadRefs(o) ==
  {<<"thread", t>> : t \in {u \in Thread : LCurrentExecuterOccupyingThisThread[u] = o}}
ListRefs(o) ==
  {<<"list", t>> : t \in {u \in Thread : InList(LExecuterList[u], o)}}
FlushRefs(o) ==
  {<<"flush", t>> : t \in {u \in Thread : /\ flush[u].listed /\ flush[u].obj = o
                                          /\ flush[u].at \notin {"no", "list"}}}

Holders(o) == TimerRefs(o) \cup ThreadRefs(o) \cup ListRefs(o) \cup FlushRefs(o)

Size(S, n) == IsFiniteSet(S) /\ n = Cardinality(S)

(* Someone is responsible for an object that has jobs left.                *)
Responsible ==
  \A o \in Object :
     mRemainTaskCount[o] # 0 => ~ Free(post, flush, LExecuterList, o)

TasksCounted == \A o \in Object : Size(Counted(o), mRemainTaskCount[o])
RefsCounted  == \A o \in Object : Size(Holders(o), mRefCount[o])

(* Who takes an object over has found its count at zero.                   *)
FirstTakes == \A t \in Thread : post[t].at = "addref" => post[t].first

CInv == QInv /\ Responsible /\ FirstTakes /\ TasksCounted /\ RefsCounted

(* One more, one less.                                                     *)
LEMMA SizeAdd ==
  ASSUME NEW S, NEW n, NEW x, Size(S, n), x \notin S
  PROVE  Size(S \cup {x}, n + 1)
BY FS_AddElement DEF Size

LEMMA SizeDrop ==
  ASSUME NEW S, NEW n, NEW x, Size(S, n), x \in S
  PROVE  Size(S \ {x}, n - 1)
BY FS_RemoveElement DEF Size

LEMMA SizeNone ==
  ASSUME NEW S, NEW n, Size(S, n)
  PROVE  n \in Nat /\ (n = 0 <=> S = {})
BY FS_CardinalityType, FS_EmptySet DEF Size

-----------------------------------------------------------------------------
(* Someone stays responsible.                                              *)

LEMMA StillHeld ==
  ASSUME NEW p, NEW f, NEW l, NEW p2, NEW f2, NEW l2, NEW t \in Thread, NEW o,
         ~ Free(p, f, l, o),
         \A u \in Thread \ {t} : p2[u] = p[u] /\ f2[u] = f[u] /\ l2[u] = l[u],
         HasPost(p[t], o) \/ HasFlush(f[t], o) \/ InList(l[t], o) =>
           HasPost(p2[t], o) \/ HasFlush(f2[t], o) \/ InList(l2[t], o)
  PROVE  ~ Free(p2, f2, l2, o)
<1>1. PICK u \in Thread : HasPost(p[u], o) \/ HasFlush(f[u], o) \/ InList(l[u], o)
  BY DEF Free
<1>2. HasPost(p2[u], o) \/ HasFlush(f2[u], o) \/ InList(l2[u], o)
  BY <1>1
<1> QED BY <1>2 DEF Free

(* A step that leaves the counts alone and passes every claim of t on.     *)
LEMMA ResponsibleKept ==
  ASSUME Responsible, UNCHANGED mRemainTaskCount, NEW t \in Thread,
         \A u \in Thread \ {t} : /\ post'[u] = post[u] /\ flush'[u] = flush[u]
                                 /\ LExecuterList'[u] = LExecuterList[u],
         \A o \in Object :
           HasPost(post[t], o) \/ HasFlush(flush[t], o) \/ InList(LExecuterList[t], o) =>
             \/ HasPost(post'[t], o) \/ HasFlush(flush'[t], o)
             \/ InList(LExecuterList'[t], o)
  PROVE  Responsible'
<1> SUFFICES ASSUME NEW o \in Object, mRemainTaskCount[o] # 0
             PROVE  ~ Free(post', flush', LExecuterList', o)
  BY DEF Responsible
<1>1. ~ Free(post, flush, LExecuterList, o)
  BY DEF Responsible
<1> QED BY <1>1, StillHeld

(* What a step of Pop, or the end of a job, does to the thread's position. *)
LEMMA FlushStep ==
  ASSUME Types, NEW t \in Thread,
         \/ Pop(t) \/ PopSecond(t) \/ PopHead(t) \/ PopClearStub(t)
         \/ PopExchange(t) \/ PopLink(t) \/ PopLast(t) \/ DeleteJob(t)
  PROVE  /\ UNCHANGED <<post, counts, timers, lists>>
         /\ flush[t].at \in InFlush /\ flush'[t].at \in InFlush
         /\ flush'[t].obj = flush[t].obj /\ flush'[t].listed = flush[t].listed
         /\ \A u \in Thread \ {t} : flush'[u] = flush[u]
         /\ flush[t].at # "count" /\ (~ DeleteJob(t) => flush'[t].at # "count")
<1>1. flush \in [Thread -> FlushType]
  BY DEF Types
<1>2. /\ UNCHANGED <<post, counts, timers, lists>>
      /\ flush[t].at \in InFlush /\ flush[t].at # "count"
  BY DEF Pop, PopSecond, PopHead, PopClearStub, PopExchange, PopLink, PopLast,
     PopReturns, PopGoes, DeleteJob, Flushes, InFlush
<1> DEFINE Moves(at) == /\ flush'[t].obj = flush[t].obj
                        /\ flush'[t].listed = flush[t].listed /\ flush'[t].at = at
                        /\ \A u \in Thread \ {t} : flush'[u] = flush[u]
           Inner == InFlush \ {"count"}
<1>3. ASSUME NEW tail, NEW next, PopReturns(t, tail, next) PROVE \E at \in Inner : Moves(at)
  <2>1. Moves("execute") BY <1>1, <1>3 DEF PopReturns, FlushType
  <2> QED BY <2>1 DEF InFlush
<1>4. ASSUME NEW at \in {"head", "pop", "clear"}, NEW tail, PopGoes(t, at, tail)
      PROVE  \E a \in Inner : Moves(a)
  <2>1. Moves(at) BY <1>1, <1>4 DEF PopGoes, FlushType
  <2> QED BY <2>1 DEF InFlush
<1>5. ASSUME NEW at, Goes(t, at) PROVE Moves(at)
  BY <1>1, <1>5 DEF Goes, FlushType
<1>6. ASSUME NEW next, flush' = [flush EXCEPT ![t].at = "second", ![t].job = next]
      PROVE  \E at \in Inner : Moves(at)
  <2>1. Moves("second") BY <1>1, <1>6 DEF FlushType
  <2> QED BY <2>1 DEF InFlush
<1>7. ASSUME PopExchange(t) PROVE \E at \in Inner : Moves(at)
  <2>1. flush' = [flush EXCEPT ![t].at = "link", ![t].prev = mHead[flush[t].obj]]
    BY <1>7 DEF PopExchange
  <2>2. Moves("link") BY <1>1, <2>1 DEF FlushType
  <2> QED BY <2>2 DEF InFlush
<1>8. ASSUME PopClearStub(t) \/ PopLink(t) PROVE \E at \in Inner : Moves(at)
  <2>1. PICK at \in {"swap", "last"} : Goes(t, at)
    BY <1>8 DEF PopClearStub, PopLink
  <2>2. Moves(at) BY <1>5, <2>1
  <2> QED BY <2>2 DEF InFlush
<1>9. ASSUME DeleteJob(t) PROVE Moves("count")
  BY <1>5, <1>9 DEF DeleteJob
<1> HIDE DEF Moves, Inner
<1>10. ASSUME Pop(t) PROVE \E at \in Inner : Moves(at)
  BY <1>3, <1>4, <1>6, <1>10 DEF Pop
<1>11. ASSUME PopSecond(t) \/ PopLast(t) \/ PopHead(t) PROVE \E at \in Inner : Moves(at)
  BY <1>3, <1>4, <1>11 DEF PopSecond, PopLast, PopHead
<1>12. CASE DeleteJob(t)
  BY <1>2, <1>9, <1>12 DEF Moves, InFlush
<1>13. CASE ~ DeleteJob(t)
  <2>1. \E at \in Inner : Moves(at)
    BY <1>7, <1>8, <1>10, <1>11, <1>13
  <2> QED BY <1>2, <1>13, <2>1 DEF Moves, Inner
<1> QED BY <1>12, <1>13

LEMMA ResponsibleStep ==
  ASSUME IInv, More, Occupied, Responsible, [Next]_vars
  PROVE  Responsible'
<1>1. /\ Types /\ post \in [Thread -> PostType] /\ flush \in [Thread -> FlushType]
      /\ LExecuterList \in [Thread -> Seq(Object)]
      /\ mRemainTaskCount \in [Object -> Nat]
  BY DEF IInv, Types
<1>2. CASE UNCHANGED <<mRemainTaskCount, post, flush, LExecuterList>>
  BY <1>2 DEF Responsible
<1>3. ASSUME NEW t \in Thread, NEW j \in Job, DoTask(t, j), post[t].at = "no",
             UNCHANGED <<mRemainTaskCount, flush, LExecuterList>>
      PROVE  Responsible'
  <2>1. \A u \in Thread \ {t} : post'[u] = post[u]
    BY <1>1, <1>3 DEF DoTask
  <2>2. \A o \in Object : ~ HasPost(post[t], o)
    BY <1>3 DEF HasPost
  <2> QED BY <1>3, <2>1, <2>2, ResponsibleKept
<1>4. ASSUME NEW t \in Thread, CountTask(t) PROVE Responsible'
  <2>1. PICK j \in Job : j = post[t].job /\ post[t].at = "add"
    BY <1>1, <1>4 DEF CountTask, Posts, Types
  <2>2. PICK z \in Object : z = Owner[j]
    BY DispatcherAssumption
  <2>3. /\ UNCHANGED <<flush, LExecuterList>>
        /\ post'[t].at = "exchange" /\ post'[t].job = j
        /\ post'[t].first = (mRemainTaskCount[z] = 0)
        /\ \A u \in Thread \ {t} : post'[u] = post[u]
        /\ \A o \in Object \ {z} : mRemainTaskCount'[o] = mRemainTaskCount[o]
    BY <1>1, <1>4, <2>1, <2>2 DEF CountTask, Target, PostType, lists
  <2>4. \A o \in Object : ~ HasPost(post[t], o)
    BY <2>1 DEF HasPost
  <2> SUFFICES ASSUME NEW o \in Object, mRemainTaskCount'[o] # 0
               PROVE  ~ Free(post', flush', LExecuterList', o)
    BY DEF Responsible
  <2>5. CASE mRemainTaskCount[o] # 0
    <3>1. ~ Free(post, flush, LExecuterList, o) BY <2>5 DEF Responsible
    <3>2. HasPost(post[t], o) \/ HasFlush(flush[t], o) \/ InList(LExecuterList[t], o)
            => \/ HasPost(post'[t], o) \/ HasFlush(flush'[t], o)
               \/ InList(LExecuterList'[t], o)
      BY <2>3, <2>4
    <3>3. \A u \in Thread \ {t} : /\ post'[u] = post[u] /\ flush'[u] = flush[u]
                                  /\ LExecuterList'[u] = LExecuterList[u]
      BY <2>3
    <3> QED BY <3>1, <3>2, <3>3, StillHeld
  <2>6. CASE mRemainTaskCount[o] = 0
    <3>1. o = z BY <2>3, <2>6
    <3>2. HasPost(post'[t], o) BY <2>2, <2>3, <2>6, <3>1 DEF HasPost
    <3> QED BY <3>2 DEF Free
  <2> QED BY <2>5, <2>6
<1>5. ASSUME NEW t \in Thread, PushExchange(t) \/ PushLink(t) PROVE Responsible'
  <2>1. /\ UNCHANGED <<mRemainTaskCount, flush, LExecuterList>>
        /\ \A u \in Thread \ {t} : post'[u] = post[u]
    BY <1>1, <1>5 DEF PushExchange, PushLink, counts, lists
  <2>2. ASSUME NEW o \in Object, HasPost(post[t], o) PROVE HasPost(post'[t], o)
    <3>1. CASE PushExchange(t)
      BY <1>1, <2>2, <3>1 DEF HasPost, PushExchange, Posts, PostType
    <3>2. CASE PushLink(t)
      <4>1. post[t].first /\ post[t].at = "link" /\ Owner[post[t].job] = o
        BY <2>2, <3>2 DEF HasPost, PushLink, Posts
      <4>2. post' = [post EXCEPT ![t] = [@ EXCEPT !.at = "addref"]]
        BY <3>2, <4>1 DEF PushLink
      <4>3. post'[t].at = "addref" /\ post'[t].job = post[t].job
        BY <1>1, <4>2 DEF PostType
      <4> QED BY <4>1, <4>3 DEF HasPost
    <3> QED BY <1>5, <3>1, <3>2
  <2> QED BY <2>1, <2>2, ResponsibleKept
<1>6. ASSUME NEW t \in Thread, AddRefForThis(t) PROVE Responsible'
  <2>1. PICK j \in Job : j = post[t].job /\ post[t].at = "addref"
    BY <1>1, <1>6 DEF AddRefForThis, Posts, Types
  <2>2. PICK z \in Object : z = Owner[j] /\ z = Target(t)
    BY <2>1, DispatcherAssumption DEF Target
  <2>3. UNCHANGED mRemainTaskCount /\ \A u \in Thread \ {t} : post'[u] = post[u]
    BY <1>1, <1>6 DEF AddRefForThis
  <2>4. \A o \in Object : HasPost(post[t], o) => o = z
    BY <2>1, <2>2 DEF HasPost
  <2>5. CASE LExecuterList' = [LExecuterList EXCEPT ![t] = Append(@, z)] /\ UNCHANGED flush
    <3>1. /\ LExecuterList'[t] = Append(LExecuterList[t], z)
          /\ \A u \in Thread \ {t} : LExecuterList'[u] = LExecuterList[u]
          /\ LExecuterList[t] \in Seq(Object)
      BY <1>1, <2>5
    <3>2. /\ Len(LExecuterList[t]) \in Nat
          /\ Len(LExecuterList'[t]) = Len(LExecuterList[t]) + 1
          /\ \A i \in 1 .. Len(LExecuterList[t]) : LExecuterList'[t][i] = LExecuterList[t][i]
          /\ LExecuterList'[t][Len(LExecuterList[t]) + 1] = z
      BY <3>1
    <3>3. /\ InList(LExecuterList'[t], z)
          /\ \A o \in Object : InList(LExecuterList[t], o) => InList(LExecuterList'[t], o)
      BY <3>2 DEF InList
    <3> QED BY <2>3, <2>4, <2>5, <3>1, <3>3, ResponsibleKept
  <2>6. CASE /\ LCurrentExecuterOccupyingThisThread[t] = nullptr
             /\ flush' = [flush EXCEPT ![t] = [NoFlush EXCEPT !.at = "pop", !.obj = z]]
             /\ UNCHANGED LExecuterList
    <3>1. /\ flush'[t].at = "pop" /\ flush'[t].obj = z /\ flush[t].at = "no"
          /\ \A u \in Thread \ {t} : flush'[u] = flush[u]
      BY <1>1, <2>6 DEF NoFlush, Occupied
    <3>2. HasFlush(flush'[t], z) /\ \A o \in Object : ~ HasFlush(flush[t], o)
      BY <3>1 DEF HasFlush
    <3> QED BY <2>3, <2>4, <2>6, <3>1, <3>2, ResponsibleKept
  <2> QED BY <1>6, <2>2, <2>5, <2>6 DEF AddRefForThis
<1>7. ASSUME NEW t \in Thread,
             \/ Pop(t) \/ PopSecond(t) \/ PopHead(t) \/ PopClearStub(t)
             \/ PopExchange(t) \/ PopLink(t) \/ PopLast(t) \/ DeleteJob(t)
      PROVE  Responsible'
  <2>1. /\ UNCHANGED <<post, mRemainTaskCount, LExecuterList>>
        /\ flush[t].at \in InFlush /\ flush'[t].at \in InFlush
        /\ flush'[t].obj = flush[t].obj
        /\ \A u \in Thread \ {t} : flush'[u] = flush[u]
    BY <1>1, <1>7, FlushStep DEF counts, lists
  <2>2. \A o \in Object : HasFlush(flush[t], o) => HasFlush(flush'[t], o)
    BY <2>1 DEF HasFlush, InFlush
  <2> QED BY <2>1, <2>2, ResponsibleKept
<1>8. ASSUME NEW t \in Thread, CountDown(t) PROVE Responsible'
  <2>1. PICK z \in Object : z = flush[t].obj /\ flush[t].at = "count"
    BY <1>1, <1>8 DEF CountDown, Flushes, Types
  <2>2. /\ UNCHANGED <<post, LExecuterList>>
        /\ mRemainTaskCount'[z] = mRemainTaskCount[z] - 1
        /\ \A o \in Object \ {z} : mRemainTaskCount'[o] = mRemainTaskCount[o]
        /\ flush'[t].obj = z
        /\ mRemainTaskCount[z] # 1 => flush'[t].at = "pop"
        /\ \A u \in Thread \ {t} : flush'[u] = flush[u]
    BY <1>1, <1>8, <2>1 DEF CountDown, Goes, FlushType, lists
  <2> SUFFICES ASSUME NEW o \in Object, mRemainTaskCount'[o] # 0
               PROVE  ~ Free(post', flush', LExecuterList', o)
    BY DEF Responsible
  <2>3. CASE o = z
    <3>1. flush'[t].at = "pop" BY <1>1, <2>2, <2>3
    <3>2. HasFlush(flush'[t], o) BY <2>2, <2>3, <3>1 DEF HasFlush
    <3> QED BY <3>2 DEF Free
  <2>4. CASE o # z
    <3>1. ~ Free(post, flush, LExecuterList, o) BY <2>2, <2>4 DEF Responsible
    <3>2. HasPost(post[t], o) \/ HasFlush(flush[t], o) \/ InList(LExecuterList[t], o)
            => \/ HasPost(post'[t], o) \/ HasFlush(flush'[t], o)
               \/ InList(LExecuterList'[t], o)
      BY <2>1, <2>2, <2>4 DEF HasFlush
    <3>3. \A u \in Thread \ {t} : /\ post'[u] = post[u] /\ flush'[u] = flush[u]
                                  /\ LExecuterList'[u] = LExecuterList[u]
      BY <2>2
    <3> QED BY <3>1, <3>2, <3>3, StillHeld
  <2> QED BY <2>3, <2>4
<1>9. ASSUME NEW t \in Thread, ReleaseListed(t) \/ LeaveThread(t) PROVE Responsible'
  <2>1. /\ UNCHANGED <<mRemainTaskCount, post, LExecuterList>>
        /\ flush[t].at \in {"release", "list"}
        /\ \A u \in Thread \ {t} : flush'[u] = flush[u]
    BY <1>1, <1>9 DEF ReleaseListed, LeaveThread, Goes, Flushes, lists
  <2>2. \A o \in Object : ~ HasFlush(flush[t], o)
    BY <2>1 DEF HasFlush
  <2> QED BY <2>1, <2>2, ResponsibleKept
<1>10. ASSUME NEW t \in Thread, NextExecuter(t) PROVE Responsible'
  <2> DEFINE l == LExecuterList[t]
  <2>1. /\ UNCHANGED <<mRemainTaskCount, post>> /\ flush[t].at = "list"
        /\ l \in Seq(Object) /\ l # <<>>
        /\ flush'[t].at = "pop" /\ flush'[t].obj = Head(l)
        /\ LExecuterList'[t] = Tail(l)
        /\ \A u \in Thread \ {t} : /\ flush'[u] = flush[u]
                                   /\ LExecuterList'[u] = LExecuterList[u]
    BY <1>1, <1>10 DEF NextExecuter, Flushes, NoFlush, counts
  <2>2. \A o \in Object : InList(l, o) => o = Head(l) \/ InList(Tail(l), o)
    <3> SUFFICES ASSUME NEW o \in Object, InList(l, o), o # Head(l)
                 PROVE  InList(Tail(l), o)
      OBVIOUS
    <3>1. PICK i \in 1 .. Len(l) : l[i] = o BY DEF InList
    <3>2. i # 1 /\ Len(l) \in Nat BY <2>1, <3>1
    <3>3. i - 1 \in 1 .. Len(Tail(l)) /\ Tail(l)[i - 1] = o
      BY <2>1, <3>1, <3>2
    <3> QED BY <3>3 DEF InList
  <2>3. \A o \in Object : ~ HasFlush(flush[t], o)
    BY <2>1 DEF HasFlush
  <2>4. HasFlush(flush'[t], Head(l))
    BY <2>1 DEF HasFlush
  <2> QED BY <2>1, <2>2, <2>3, <2>4, ResponsibleKept
<1>11. ASSUME NEW t \in Thread, NEW j \in Job, DoAsync(t, j) \/ DoAsyncAfter(t, j)
       PROVE  Responsible'
  BY <1>2, <1>3, <1>11 DEF DoAsync, DoAsyncAfter, InUserCode, Posts, counts, lists
<1>12. ASSUME NEW t \in Thread, DoTimerJob(t) \/ TimerRelease(t) PROVE Responsible'
  <2>1. CASE DoTimerJob(t)
    <3>1. PICK j \in Job : DoTask(t, j) BY <1>1, <2>1 DEF DoTimerJob, Types
    <3> QED BY <1>3, <2>1, <3>1 DEF DoTimerJob, Posts, counts, lists
  <2>2. CASE TimerRelease(t)
    BY <1>2, <2>2 DEF TimerRelease, lists
  <2> QED BY <1>12, <2>1, <2>2
<1>13. CASE UNCHANGED vars
  BY <1>2, <1>13 DEF vars, counts, lists
<1>14. ASSUME NEW t \in Thread, DispatchStep(t) PROVE Responsible'
  BY <1>4, <1>5, <1>6, <1>7, <1>8, <1>9, <1>10, <1>12, <1>14 DEF DispatchStep
<1> QED BY <1>11, <1>12, <1>13, <1>14 DEF Next, Quiet

-----------------------------------------------------------------------------
(* mRemainTaskCount counts the jobs between fetch_add and fetch_sub.       *)

LEMMA RemoveFirstSubset ==
  ASSUME NEW S, NEW w \in Seq(S), NEW e, Distinct(w), NEW x,
         InList(RemoveFirst(w, e), x)
  PROVE  InList(w, x)
<1>1. CASE InList(w, e)
  <2>1. PICK k \in 1 .. Len(w) : w[k] = e
    BY <1>1 DEF InList
  <2>2. RemoveFirst(w, e) = RemoveAt(w, k)
    BY <2>1, RemoveFirstAt
  <2> DEFINE b == RemoveAt(w, k)
  <2>3. /\ Len(b) = Len(w) - 1
        /\ \A i \in 1 .. Len(w) - 1 : b[i] = IF i < k THEN w[i] ELSE w[i + 1]
    BY <2>1, RemoveAtElements
  <2> HIDE DEF b
  <2>4. InList(b, x)
    BY <2>2 DEF b
  <2>5. PICK i \in 1 .. Len(w) - 1 : b[i] = x
    BY <2>3, <2>4 DEF InList
  <2>6. w[i] = x \/ w[i + 1] = x
    BY <2>3, <2>5
  <2>7. i \in 1 .. Len(w) /\ i + 1 \in 1 .. Len(w)
    BY <2>5
  <2> QED BY <2>6, <2>7 DEF InList
<1>2. CASE ~ InList(w, e)
  BY <1>2, RemoveFirstNone
<1> QED BY <1>1, <1>2

(* A job that waits, runs or was deleted is not New, and is one of these.  *)
LEMMA Stages ==
  ASSUME More, Queues, NEW o \in Object
  PROVE  /\ waiting[o] \in Seq(Job)
         /\ \A j : InList(waiting[o], j) =>
              /\ j \in Job /\ Owner[j] = o /\ ~ New(j) /\ j \notin freed
              /\ j \notin executing[o]
         /\ \A j \in executing[o] :
              j \in Job /\ Owner[j] = o /\ ~ New(j) /\ j \notin freed
         /\ \A j \in freed : Owner[j] = o => ~ New(j)
         /\ \A t \in Thread : flush[t].obj = o /\ flush[t].at = "count" =>
              flush[t].job \in freed /\ flush[t].job \in Job /\ Owner[flush[t].job] = o
<1>1. PICK q \in Seq(Of(o)) : Queue(o, q)
  BY DEF Queues
<1>2. /\ Distinct(q) /\ waiting[o] = RemoveFirst(q, o) /\ Popping(o, q)
      /\ Executes(o) /\ Living(o, q)
  BY <1>1 DEF Queue, Chain
<1>3. waiting[o] \in Seq(Job) /\ executing[o] \subseteq Job /\ freed \subseteq Job
  BY DEF More
<1>4. \A j \in Job : j \in Of(o) => Owner[j] = o
  BY DispatcherAssumption DEF Of
<1>5. ASSUME NEW j, InList(waiting[o], j)
      PROVE  /\ j \in Job /\ Owner[j] = o /\ ~ New(j) /\ j \notin freed
             /\ j \notin executing[o]
  <2>1. InList(q, j) BY <1>2, <1>5, RemoveFirstSubset
  <2>2. j \in Job /\ j \in Of(o) BY <1>3, <1>5, <2>1 DEF InList
  <2> QED BY <1>2, <1>4, <2>1, <2>2 DEF Living
<1>6. ASSUME NEW j \in executing[o]
      PROVE  j \in Job /\ Owner[j] = o /\ ~ New(j) /\ j \notin freed
  <2>1. j \in Job /\ Owner[j] = o BY <1>2, <1>3, <1>4 DEF Executes
  <2> QED BY <1>2, <2>1 DEF Living
<1>7. \A j \in freed : Owner[j] = o => ~ New(j)
  BY <1>2, <1>3 DEF Living
<1>8. ASSUME NEW t \in Thread, flush[t].obj = o, flush[t].at = "count"
      PROVE  flush[t].job \in freed /\ flush[t].job \in Job /\ Owner[flush[t].job] = o
  BY <1>2, <1>3, <1>4, <1>8 DEF Popping, PopKnows
<1> QED BY <1>3, <1>5, <1>6, <1>7, <1>8

(* A step that neither counts nor moves a job.                             *)
LEMMA TasksKept ==
  ASSUME TasksCounted, UNCHANGED <<waiting, executing, mRemainTaskCount>>,
         NEW t \in Thread,
         \A u \in Thread \ {t} : post'[u] = post[u] /\ flush'[u] = flush[u],
         post'[t] = post[t] \/ (post[t].at # "exchange" /\ post'[t].at # "exchange"),
         flush'[t] = flush[t] \/ (flush[t].at # "count" /\ flush'[t].at # "count")
  PROVE  TasksCounted'
<1>1. ASSUME NEW o \in Object PROVE Counted(o)' = Counted(o)
  BY DEF Counted
<1> QED BY <1>1 DEF TasksCounted

(* A step that moves a job on while it counts.                             *)
LEMMA TasksMoved ==
  ASSUME TasksCounted, UNCHANGED mRemainTaskCount,
         \A o \in Object : Counted(o)' = Counted(o)
  PROVE  TasksCounted'
BY DEF TasksCounted

LEMMA CountTaskCounted ==
  ASSUME Types, More, Once, Queues, TasksCounted, NEW t \in Thread, CountTask(t)
  PROVE  TasksCounted'
<1>1. PICK j \in Job : j = post[t].job /\ post[t].at = "add"
  BY DEF CountTask, Posts, Types
<1>2. PICK z \in Object : z = Owner[j]
  BY DispatcherAssumption
<1>3. /\ UNCHANGED <<waiting, executing, flush>>
      /\ mRemainTaskCount'[z] = mRemainTaskCount[z] + 1
      /\ \A o \in Object \ {z} : mRemainTaskCount'[o] = mRemainTaskCount[o]
      /\ post'[t].at = "exchange" /\ post'[t].job = j
      /\ \A u \in Thread \ {t} : post'[u] = post[u]
  <2>1. post \in [Thread -> PostType] /\ mRemainTaskCount \in [Object -> Nat]
    BY DEF Types
  <2> QED BY <1>1, <1>2, <2>1 DEF CountTask, Target, PostType, queues, jobs
<1>4. Counted(z)' = Counted(z) \cup {j}
  BY <1>1, <1>2, <1>3 DEF Counted
<1>5. \A o \in Object \ {z} : Counted(o)' = Counted(o)
  BY <1>1, <1>2, <1>3 DEF Counted
<1>6. j \notin Counted(z)
  <2>1. New(j) BY <1>1 DEF New
  <2>2. ~ InList(waiting[z], j) /\ j \notin executing[z] /\ j \notin freed
    BY <1>2, <2>1, Stages
  <2>3. ASSUME NEW u \in Thread, post[u].at = "exchange", post[u].job = j PROVE FALSE
    BY <1>1, <2>3 DEF Once
  <2>4. ASSUME NEW u \in Thread, flush[u].at = "count", flush[u].obj = z,
               flush[u].job = j
        PROVE  FALSE
    BY <2>2, <2>4, Stages
  <2> QED BY <2>2, <2>3, <2>4 DEF Counted
<1>7. Size(Counted(z)', mRemainTaskCount'[z])
  <2>1. Size(Counted(z), mRemainTaskCount[z]) BY DEF TasksCounted
  <2> QED BY <1>3, <1>4, <1>6, <2>1, SizeAdd
<1> QED BY <1>3, <1>5, <1>7 DEF TasksCounted

LEMMA PushExchangeCounted ==
  ASSUME Types, More, TasksCounted, NEW t \in Thread, PushExchange(t)
  PROVE  TasksCounted'
<1>1. PICK j \in Job : j = post[t].job /\ post[t].at = "exchange"
  BY DEF PushExchange, Posts, Types
<1>2. PICK z \in Object : z = Owner[j]
  BY DispatcherAssumption
<1>3. /\ UNCHANGED <<executing, flush, mRemainTaskCount>>
      /\ waiting'[z] = Append(waiting[z], j) /\ waiting[z] \in Seq(Job)
      /\ \A o \in Object \ {z} : waiting'[o] = waiting[o]
      /\ post'[t].at = "link"
      /\ \A u \in Thread \ {t} : post'[u] = post[u]
  <2>1. post \in [Thread -> PostType] /\ waiting \in [Object -> Seq(Job)]
    BY DEF Types, More
  <2> QED BY <1>1, <1>2, <2>1 DEF PushExchange, Target, PostType, counts, jobs
<1>4. \A k : InList(waiting'[z], k) <=> InList(waiting[z], k) \/ k = j
  <2> DEFINE w == waiting[z]
             v == waiting'[z]
  <2>1. /\ Len(v) = Len(w) + 1 /\ Len(w) \in Nat /\ v[Len(w) + 1] = j
        /\ \A i \in 1 .. Len(w) : v[i] = w[i]
    BY <1>3
  <2> HIDE DEF w, v
  <2>2. \A k : InList(v, k) <=> InList(w, k) \/ k = j
    BY <2>1 DEF InList
  <2> QED BY <2>2 DEF v, w
<1>5. Counted(z)' = Counted(z)
  BY <1>1, <1>2, <1>3, <1>4 DEF Counted
<1>6. \A o \in Object \ {z} : Counted(o)' = Counted(o)
  BY <1>1, <1>2, <1>3 DEF Counted
<1> QED BY <1>3, <1>5, <1>6, TasksMoved

(* The job that Pop returns stops waiting and runs.                        *)
LEMMA PopCounted ==
  ASSUME IInv, More, Older, Queues, TasksCounted, NEW t \in Thread,
         Pop(t) \/ PopSecond(t) \/ PopLast(t)
  PROVE  TasksCounted'
<1>1. /\ UNCHANGED <<post, mRemainTaskCount>>
      /\ flush[t].at # "count" /\ flush'[t].at # "count"
      /\ \A u \in Thread \ {t} : flush'[u] = flush[u]
  <2>1. ~ DeleteJob(t)
    BY DEF Pop, PopSecond, PopLast, DeleteJob, Flushes
  <2> QED BY <2>1, FlushStep DEF IInv, counts
<1>2. UNCHANGED <<waiting, executing>> \/ \E o \in Object : Serial!Begin(o)
  BY PopQueue
<1>3. CASE UNCHANGED <<waiting, executing>>
  BY <1>1, <1>3, TasksKept
<1>4. ASSUME NEW z \in Object, Serial!Begin(z) PROVE TasksCounted'
  <2> DEFINE w == waiting[z]
             v == waiting'[z]
  <2>1. /\ w \in Seq(Job) /\ w # <<>> /\ executing[z] = {}
        /\ executing'[z] = {w[1]} /\ v = Tail(w)
        /\ \A o \in Object \ {z} : executing'[o] = executing[o] /\ waiting'[o] = waiting[o]
    BY <1>4 DEF Serial!Begin, More
  <2>2. /\ Len(v) = Len(w) - 1 /\ Len(w) \in Nat /\ Len(w) > 0
        /\ \A i \in 1 .. Len(w) - 1 : v[i] = w[i + 1]
    BY <2>1
  <2> HIDE DEF w, v
  <2>3. ASSUME NEW k PROVE InList(w, k) <=> InList(v, k) \/ k = w[1]
    <3>1. ASSUME InList(w, k), k # w[1] PROVE InList(v, k)
      <4>1. PICK i \in 1 .. Len(w) : w[i] = k BY <3>1 DEF InList
      <4>2. i # 1 BY <3>1, <4>1
      <4>3. i - 1 \in 1 .. Len(v) /\ v[i - 1] = k BY <2>2, <4>1, <4>2
      <4> QED BY <4>3 DEF InList
    <3>2. ASSUME InList(v, k) PROVE InList(w, k)
      <4>1. PICK i \in 1 .. Len(v) : v[i] = k BY <3>2 DEF InList
      <4>2. i + 1 \in 1 .. Len(w) /\ w[i + 1] = k BY <2>2, <4>1
      <4> QED BY <4>2 DEF InList
    <3>3. 1 \in 1 .. Len(w) BY <2>2
    <3> QED BY <3>1, <3>2, <3>3 DEF InList
  <2>4. Counted(z)' = Counted(z)
    BY <1>1, <2>1, <2>3 DEF Counted, w, v
  <2>5. \A o \in Object \ {z} : Counted(o)' = Counted(o)
    BY <1>1, <2>1 DEF Counted
  <2> QED BY <1>1, <2>4, <2>5, TasksMoved
<1> QED BY <1>2, <1>3, <1>4

(* The job that was executed still counts when it is deleted ...           *)
LEMMA DeleteJobCounted ==
  ASSUME IInv, More, Queues, TasksCounted, NEW t \in Thread, DeleteJob(t)
  PROVE  TasksCounted'
<1>1. Types /\ flush[t].at = "execute"
  BY DEF IInv, DeleteJob, Flushes
<1>2. PICK z \in Object : z = flush[t].obj
  BY <1>1 DEF Types
<1>3. PICK j : j = flush[t].job /\ executing[z] = {j} /\ j \in Job /\ Owner[j] = z
  <2>1. PICK q \in Seq(Of(z)) : Queue(z, q) BY DEF Queues
  <2>2. executing[z] = {flush[t].job}
    BY <1>1, <1>2, <2>1 DEF Queue, Popping, PopKnows
  <2> QED BY <2>2, Stages
<1>4. /\ UNCHANGED <<waiting, post, mRemainTaskCount>>
      /\ executing'[z] = {} /\ \A o \in Object \ {z} : executing'[o] = executing[o]
  BY <1>2, <1>3 DEF DeleteJob, queues, counts, More
<1>5. /\ flush'[t].at = "count" /\ flush'[t].job = j /\ flush'[t].obj = z
      /\ \A u \in Thread \ {t} : flush'[u] = flush[u]
  BY <1>1, <1>2, <1>3 DEF DeleteJob, Goes, Types, FlushType
<1>6. Counted(z)' = Counted(z)
  BY <1>1, <1>3, <1>4, <1>5 DEF Counted
<1>7. \A o \in Object \ {z} : Counted(o)' = Counted(o)
  BY <1>1, <1>2, <1>3, <1>4, <1>5 DEF Counted
<1> QED BY <1>4, <1>6, <1>7, TasksMoved

(* ... and no longer when its Flush has counted down.                      *)
LEMMA CountDownCounted ==
  ASSUME IInv, More, Queues, TasksCounted, NEW t \in Thread, CountDown(t)
  PROVE  TasksCounted'
<1>1. Types /\ flush[t].at = "count" /\ flush[t].at \in InFlush
  BY DEF IInv, CountDown, Flushes, InFlush
<1>2. PICK z \in Object : z = flush[t].obj
  BY <1>1 DEF Types
<1>3. PICK j \in Job : j = flush[t].job /\ j \in freed /\ Owner[j] = z
  BY <1>1, <1>2, Stages
<1>4. /\ UNCHANGED <<waiting, executing, post>>
      /\ mRemainTaskCount'[z] = mRemainTaskCount[z] - 1
      /\ \A o \in Object \ {z} : mRemainTaskCount'[o] = mRemainTaskCount[o]
      /\ flush'[t].at # "count"
      /\ \A u \in Thread \ {t} : flush'[u] = flush[u]
  BY <1>1, <1>2 DEF CountDown, Goes, Types, FlushType, queues, jobs
<1>5. j \in Counted(z)
  BY <1>1, <1>2, <1>3 DEF Counted
<1>6. ASSUME NEW u \in Thread, flush'[u].at = "count", flush'[u].obj = z PROVE FALSE
  <2>1. u # t /\ flush[u] = flush'[u] BY <1>4, <1>6
  <2> QED BY <1>1, <1>2, <1>6, <2>1, OnlyConsumer DEF InFlush
<1>7. Counted(z)' = Counted(z) \ {j}
  <2>1. ~ New(j) /\ ~ InList(waiting[z], j) /\ j \notin executing[z]
    BY <1>3, Stages
  <2>2. \A u \in Thread : ~ (post[u].at = "exchange" /\ post[u].job = j)
    BY <2>1 DEF New
  <2>3. j \notin Counted(z)'
    BY <1>4, <1>6, <2>1, <2>2 DEF Counted
  <2>4. \A k \in Job \ {j} : k \in Counted(z)' <=> k \in Counted(z)
    BY <1>1, <1>3, <1>4, <1>6 DEF Counted
  <2>5. Counted(z)' \subseteq Job /\ Counted(z) \subseteq Job
    BY DEF Counted
  <2> QED BY <2>3, <2>4, <2>5
<1>8. \A o \in Object \ {z} : Counted(o)' = Counted(o)
  BY <1>1, <1>2, <1>4 DEF Counted
<1>9. Size(Counted(z)', mRemainTaskCount'[z])
  <2>1. Size(Counted(z), mRemainTaskCount[z]) BY DEF TasksCounted
  <2> QED BY <1>4, <1>5, <1>7, <2>1, SizeDrop
<1> QED BY <1>4, <1>8, <1>9 DEF TasksCounted

LEMMA TasksStep ==
  ASSUME IInv, More, Occupied, Once, Older, Queues, TasksCounted, [Next]_vars
  PROVE  TasksCounted'
<1>1. Types /\ post \in [Thread -> PostType] /\ flush \in [Thread -> FlushType]
  BY DEF IInv, Types
<1>2. CASE UNCHANGED <<waiting, executing, mRemainTaskCount, post, flush>>
  BY <1>2 DEF TasksCounted, Counted
<1>3. ASSUME NEW t \in Thread, NEW j \in Job, DoTask(t, j), post[t].at = "no",
             UNCHANGED <<waiting, executing, mRemainTaskCount, flush>>
      PROVE  TasksCounted'
  <2>1. post'[t].at = "add" /\ \A u \in Thread \ {t} : post'[u] = post[u]
    BY <1>1, <1>3 DEF DoTask, NoPost
  <2> QED BY <1>3, <2>1, TasksKept
<1>4. ASSUME NEW t \in Thread, NEW j \in Job, DoAsync(t, j) \/ DoAsyncAfter(t, j)
      PROVE  TasksCounted'
  BY <1>2, <1>3, <1>4 DEF DoAsync, DoAsyncAfter, InUserCode, Posts, queues, counts, jobs
<1>5. ASSUME NEW t \in Thread, DoTimerJob(t) PROVE TasksCounted'
  <2>1. PICK j \in Job : DoTask(t, j) BY <1>1, <1>5 DEF DoTimerJob, Types
  <2> QED BY <1>3, <1>5, <2>1 DEF DoTimerJob, Posts, queues, counts, jobs
<1>6. ASSUME NEW t \in Thread, TimerRelease(t) PROVE TasksCounted'
  BY <1>2, <1>6 DEF TimerRelease, queues, jobs
<1>7. ASSUME NEW t \in Thread, PushLink(t) PROVE TasksCounted'
  <2>1. /\ UNCHANGED <<waiting, executing, mRemainTaskCount, flush>>
        /\ post[t].at # "exchange" /\ post'[t].at # "exchange"
        /\ \A u \in Thread \ {t} : post'[u] = post[u]
    BY <1>1, <1>7 DEF PushLink, Posts, PostType, NoPost, counts, jobs
  <2> QED BY <2>1, TasksKept
<1>8. ASSUME NEW t \in Thread, AddRefForThis(t) PROVE TasksCounted'
  <2>1. /\ UNCHANGED <<waiting, executing, mRemainTaskCount>>
        /\ post[t].at # "exchange" /\ post'[t].at # "exchange"
        /\ \A u \in Thread \ {t} : post'[u] = post[u]
    BY <1>1, <1>8 DEF AddRefForThis, Posts, NoPost, queues, jobs
  <2>2. \/ UNCHANGED flush
        \/ /\ flush[t].at # "count" /\ flush'[t].at # "count"
           /\ \A u \in Thread \ {t} : flush'[u] = flush[u]
    <3>1. PICK z : z = Target(t) OBVIOUS
    <3>2. CASE /\ LCurrentExecuterOccupyingThisThread[t] = nullptr
               /\ flush' = [flush EXCEPT ![t] = [NoFlush EXCEPT !.at = "pop", !.obj = z]]
      <4>1. flush[t].at = "no" BY <3>2 DEF Occupied
      <4>2. flush'[t].at = "pop" /\ \A u \in Thread \ {t} : flush'[u] = flush[u]
        BY <1>1, <3>2 DEF NoFlush
      <4> QED BY <4>1, <4>2
    <3> QED BY <1>8, <3>1, <3>2 DEF AddRefForThis
  <2> QED BY <2>1, <2>2, TasksKept
<1>9. ASSUME NEW t \in Thread,
             PopHead(t) \/ PopClearStub(t) \/ PopExchange(t) \/ PopLink(t)
      PROVE  TasksCounted'
  <2>1. UNCHANGED <<waiting, executing>>
    BY <1>9 DEF PopHead, PopGoes, PopClearStub, PopExchange, PopLink, queues, jobs
  <2>2. ~ DeleteJob(t)
    BY <1>9 DEF PopHead, PopClearStub, PopExchange, PopLink, DeleteJob, Flushes
  <2> QED BY <1>1, <1>9, <2>1, <2>2, FlushStep, TasksKept DEF counts
<1>10. ASSUME NEW t \in Thread, ReleaseListed(t) \/ NextExecuter(t) \/ LeaveThread(t)
       PROVE  TasksCounted'
  <2>1. /\ UNCHANGED <<waiting, executing, mRemainTaskCount, post>>
        /\ flush[t].at # "count" /\ flush'[t].at # "count"
        /\ \A u \in Thread \ {t} : flush'[u] = flush[u]
    <3>1. CASE ReleaseListed(t)
      BY <1>1, <3>1 DEF ReleaseListed, Goes, Flushes, FlushType, queues, jobs
    <3>2. CASE NextExecuter(t)
      BY <1>1, <3>2 DEF NextExecuter, NoFlush, Flushes, queues, counts, jobs
    <3>3. CASE LeaveThread(t)
      BY <1>1, <3>3 DEF LeaveThread, NoFlush, Flushes, queues, jobs
    <3> QED BY <1>10, <3>1, <3>2, <3>3
  <2> QED BY <2>1, TasksKept
<1>11. CASE UNCHANGED vars
  BY <1>2, <1>11 DEF vars, queues, counts, jobs
<1>12. ASSUME NEW t \in Thread, DispatchStep(t) PROVE TasksCounted'
  BY <1>1, <1>6, <1>7, <1>8, <1>9, <1>10, <1>12, CountTaskCounted, PushExchangeCounted,
     PopCounted, DeleteJobCounted, CountDownCounted
  DEF DispatchStep
<1> QED BY <1>4, <1>5, <1>11, <1>12 DEF Next, Quiet

-----------------------------------------------------------------------------
(* mRefCount counts who holds the object.                                  *)

LEMMA RefsKept ==
  ASSUME RefsCounted, UNCHANGED mRefCount, \A o \in Object : Holders(o)' = Holders(o)
  PROVE  RefsCounted'
BY DEF RefsCounted

(* One holder more, one less, or one in place of another.                  *)
LEMMA RefsAdded ==
  ASSUME More, RefsCounted, NEW z \in Object, NEW x,
         mRefCount' = [mRefCount EXCEPT ![z] = @ + 1],
         x \notin Holders(z), Holders(z)' = Holders(z) \cup {x},
         \A o \in Object \ {z} : Holders(o)' = Holders(o)
  PROVE  RefsCounted'
<1>1. /\ mRefCount'[z] = mRefCount[z] + 1
      /\ \A o \in Object \ {z} : mRefCount'[o] = mRefCount[o]
  BY DEF More
<1>2. Size(Holders(z), mRefCount[z]) BY DEF RefsCounted
<1>3. Size(Holders(z)', mRefCount'[z]) BY <1>1, <1>2, SizeAdd
<1> QED BY <1>1, <1>3 DEF RefsCounted

LEMMA RefsDropped ==
  ASSUME More, RefsCounted, NEW z \in Object, NEW x,
         mRefCount' = [mRefCount EXCEPT ![z] = @ - 1],
         x \in Holders(z), Holders(z)' = Holders(z) \ {x},
         \A o \in Object \ {z} : Holders(o)' = Holders(o)
  PROVE  RefsCounted'
<1>1. /\ mRefCount'[z] = mRefCount[z] - 1
      /\ \A o \in Object \ {z} : mRefCount'[o] = mRefCount[o]
  BY DEF More
<1>2. Size(Holders(z), mRefCount[z]) BY DEF RefsCounted
<1>3. Size(Holders(z)', mRefCount'[z]) BY <1>1, <1>2, SizeDrop
<1> QED BY <1>1, <1>3 DEF RefsCounted

LEMMA RefsPassed ==
  ASSUME RefsCounted, NEW z \in Object, NEW x, NEW y, UNCHANGED mRefCount,
         x \in Holders(z), y \notin Holders(z), x # y,
         Holders(z)' = (Holders(z) \ {x}) \cup {y},
         \A o \in Object \ {z} : Holders(o)' = Holders(o)
  PROVE  RefsCounted'
<1>1. Size(Holders(z), mRefCount[z]) /\ mRefCount[z] \in Nat
  BY SizeNone DEF RefsCounted
<1>2. Size(Holders(z) \ {x}, mRefCount[z] - 1) BY <1>1, SizeDrop
<1>3. Size(Holders(z)', mRefCount[z] - 1 + 1) BY <1>2, SizeAdd
<1>4. mRefCount[z] - 1 + 1 = mRefCount[z] BY <1>1
<1>5. Size(Holders(z)', mRefCount'[z]) BY <1>3, <1>4
<1> QED BY <1>5 DEF RefsCounted

(* The four kinds of holders are apart.                                    *)
LEMMA HoldersApart ==
  ASSUME NEW o, NEW x
  PROVE  /\ <<"timer", x>> \in Holders(o) <=> <<"timer", x>> \in TimerRefs(o)
         /\ <<"thread", x>> \in Holders(o) <=> <<"thread", x>> \in ThreadRefs(o)
         /\ <<"list", x>> \in Holders(o) <=> <<"list", x>> \in ListRefs(o)
         /\ <<"flush", x>> \in Holders(o) <=> <<"flush", x>> \in FlushRefs(o)
<1>1. /\ <<"timer", x>> \notin ThreadRefs(o) \cup ListRefs(o) \cup FlushRefs(o)
      /\ <<"thread", x>> \notin TimerRefs(o) \cup ListRefs(o) \cup FlushRefs(o)
      /\ <<"list", x>> \notin TimerRefs(o) \cup ThreadRefs(o) \cup FlushRefs(o)
      /\ <<"flush", x>> \notin TimerRefs(o) \cup ThreadRefs(o) \cup ListRefs(o)
  BY DEF TimerRefs, ThreadRefs, ListRefs, FlushRefs
<1> QED BY <1>1 DEF Holders

LEMMA DoAsyncAfterRefs ==
  ASSUME Types, More, Once, RefsCounted, NEW t \in Thread, NEW j \in Job,
         DoAsyncAfter(t, j)
  PROVE  RefsCounted'
<1>1. PICK z \in Object : z = Owner[j]
  BY DispatcherAssumption
<1>2. /\ UNCHANGED <<flush, lists>> /\ j \in fresh
      /\ mRefCount' = [mRefCount EXCEPT ![z] = @ + 1]
      /\ armed'[t] = armed[t] \cup {j}
      /\ \A u \in Thread \ {t} : armed'[u] = armed[u]
  BY <1>1 DEF DoAsyncAfter, Types
<1>3. \A u \in Thread : j \notin armed[u]
  BY <1>2 DEF Once
<1>4. \A i : (\E u \in Thread : i \in armed'[u]) <=> i = j \/ \E u \in Thread : i \in armed[u]
  BY <1>2
<1>5. \A o : /\ ThreadRefs(o)' = ThreadRefs(o) /\ ListRefs(o)' = ListRefs(o)
             /\ FlushRefs(o)' = FlushRefs(o)
  BY <1>2 DEF ThreadRefs, ListRefs, FlushRefs, lists
<1>6. TimerRefs(z)' = TimerRefs(z) \cup {<<"timer", j>>}
  BY <1>1, <1>4 DEF TimerRefs
<1>7. \A o \in Object \ {z} : TimerRefs(o)' = TimerRefs(o)
  BY <1>1, <1>4 DEF TimerRefs
<1>8. <<"timer", j>> \notin Holders(z)
  <2>1. <<"timer", j>> \notin TimerRefs(z) BY <1>3 DEF TimerRefs
  <2> QED BY <2>1, HoldersApart
<1>9. Holders(z)' = Holders(z) \cup {<<"timer", j>>}
  BY <1>5, <1>6 DEF Holders
<1>10. \A o \in Object \ {z} : Holders(o)' = Holders(o)
  BY <1>5, <1>7 DEF Holders
<1> QED BY <1>2, <1>8, <1>9, <1>10, RefsAdded

LEMMA TimerReleaseRefs ==
  ASSUME Types, More, Once, RefsCounted, NEW t \in Thread, TimerRelease(t)
  PROVE  RefsCounted'
<1>1. PICK j \in Job : j = timer[t] /\ j \in armed[t]
  BY DEF TimerRelease, Once, More
<1>2. PICK z \in Object : z = Owner[j]
  BY DispatcherAssumption
<1>3. /\ UNCHANGED <<flush, lists>>
      /\ mRefCount' = [mRefCount EXCEPT ![z] = @ - 1]
      /\ armed'[t] = armed[t] \ {j}
      /\ \A u \in Thread \ {t} : armed'[u] = armed[u]
  BY <1>1, <1>2 DEF TimerRelease, Types
<1>4. \A u \in Thread \ {t} : j \notin armed[u]
  BY <1>1 DEF Once
<1>5. \A i : (\E u \in Thread : i \in armed'[u]) <=> i # j /\ \E u \in Thread : i \in armed[u]
  BY <1>1, <1>3, <1>4
<1>6. \A o : /\ ThreadRefs(o)' = ThreadRefs(o) /\ ListRefs(o)' = ListRefs(o)
             /\ FlushRefs(o)' = FlushRefs(o)
  BY <1>3 DEF ThreadRefs, ListRefs, FlushRefs, lists
<1>7. TimerRefs(z)' = TimerRefs(z) \ {<<"timer", j>>} /\ <<"timer", j>> \in TimerRefs(z)
  BY <1>1, <1>2, <1>5 DEF TimerRefs
<1>8. \A o \in Object \ {z} : TimerRefs(o)' = TimerRefs(o)
  BY <1>2, <1>5 DEF TimerRefs
<1>9. <<"timer", j>> \notin ThreadRefs(z) \cup ListRefs(z) \cup FlushRefs(z)
  BY DEF ThreadRefs, ListRefs, FlushRefs
<1>10. Holders(z)' = Holders(z) \ {<<"timer", j>>} /\ <<"timer", j>> \in Holders(z)
  BY <1>6, <1>7, <1>9 DEF Holders
<1>11. \A o \in Object \ {z} : Holders(o)' = Holders(o)
  BY <1>6, <1>8 DEF Holders
<1> QED BY <1>3, <1>10, <1>11, RefsDropped

(* AddRefForThis takes the reference of the list or of the thread.         *)
LEMMA AddRefRefs ==
  ASSUME IInv, More, Occupied, RefsCounted, NEW t \in Thread, AddRefForThis(t)
  PROVE  RefsCounted'
<1>1. /\ Types /\ post[t].at = "addref" /\ flush \in [Thread -> FlushType]
      /\ LExecuterList \in [Thread -> Seq(Object)]
  BY DEF IInv, AddRefForThis, Posts, Types
<1>2. PICK z \in Object : z = Target(t) /\ z = Owner[post[t].job]
  BY <1>1, DispatcherAssumption DEF Types, Target
<1>3. UNCHANGED armed /\ mRefCount' = [mRefCount EXCEPT ![z] = @ + 1]
  BY <1>2 DEF AddRefForThis, timers
<1>4. \A o : TimerRefs(o)' = TimerRefs(o)
  BY <1>3 DEF TimerRefs
<1>5. CASE /\ LExecuterList' = [LExecuterList EXCEPT ![t] = Append(@, z)]
           /\ UNCHANGED <<LCurrentExecuterOccupyingThisThread, flush>>
  <2> DEFINE l == LExecuterList[t]
             k == LExecuterList'[t]
  <2>1. ~ InList(l, z)
    <3>1. HasPost(post[t], z) BY <1>1, <1>2 DEF HasPost
    <3>2. Unique(post, flush, LExecuterList, z) BY DEF IInv, Claims
    <3> QED BY <3>1, <3>2 DEF Unique
  <2>2. /\ Len(k) = Len(l) + 1 /\ Len(l) \in Nat /\ k[Len(l) + 1] = z
        /\ \A i \in 1 .. Len(l) : k[i] = l[i]
    BY <1>1, <1>5
  <2>3. \A u \in Thread \ {t} : LExecuterList'[u] = LExecuterList[u]
    BY <1>1, <1>5
  <2>4. \A o : InList(k, o) <=> InList(l, o) \/ o = z
    <3> HIDE DEF l, k
    <3> QED BY <2>2 DEF InList
  <2>5. \A o : ThreadRefs(o)' = ThreadRefs(o) /\ FlushRefs(o)' = FlushRefs(o)
    BY <1>5 DEF ThreadRefs, FlushRefs
  <2>6. \A u \in Thread : InList(LExecuterList'[u], z) <=> u = t \/ InList(LExecuterList[u], z)
    BY <2>3, <2>4
  <2>7. ListRefs(z)' = ListRefs(z) \cup {<<"list", t>>}
    BY <2>6 DEF ListRefs
  <2>8. ASSUME NEW o \in Object \ {z} PROVE ListRefs(o)' = ListRefs(o)
    <3>1. \A u \in Thread : InList(LExecuterList'[u], o) <=> InList(LExecuterList[u], o)
      BY <2>3, <2>4
    <3> QED BY <3>1 DEF ListRefs
  <2>9. <<"list", t>> \notin Holders(z)
    <3>1. <<"list", t>> \notin ListRefs(z) BY <2>1 DEF ListRefs
    <3> QED BY <3>1, HoldersApart
  <2>10. Holders(z)' = Holders(z) \cup {<<"list", t>>}
    BY <1>4, <2>5, <2>7 DEF Holders
  <2>11. \A o \in Object \ {z} : Holders(o)' = Holders(o)
    BY <1>4, <2>5, <2>8 DEF Holders
  <2> QED BY <1>3, <2>9, <2>10, <2>11, RefsAdded
<1>6. CASE /\ LCurrentExecuterOccupyingThisThread[t] = nullptr
           /\ LCurrentExecuterOccupyingThisThread' =
                [LCurrentExecuterOccupyingThisThread EXCEPT ![t] = z]
           /\ flush' = [flush EXCEPT ![t] = [NoFlush EXCEPT !.at = "pop", !.obj = z]]
           /\ UNCHANGED LExecuterList
  <2>1. /\ LCurrentExecuterOccupyingThisThread'[t] = z
        /\ \A u \in Thread \ {t} : /\ flush'[u] = flush[u]
                                   /\ LCurrentExecuterOccupyingThisThread'[u]
                                        = LCurrentExecuterOccupyingThisThread[u]
        /\ flush[t].at = "no" /\ flush'[t].listed = FALSE
    BY <1>1, <1>6 DEF NoFlush, Occupied, More
  <2>2. \A o : ListRefs(o)' = ListRefs(o)
    BY <1>6 DEF ListRefs
  <2>3. \A o : FlushRefs(o)' = FlushRefs(o)
    BY <2>1 DEF FlushRefs
  <2>4. ThreadRefs(z)' = ThreadRefs(z) \cup {<<"thread", t>>}
    BY <2>1 DEF ThreadRefs
  <2>5. \A o \in Object \ {z} : ThreadRefs(o)' = ThreadRefs(o)
    BY <1>6, <2>1, DispatcherAssumption DEF ThreadRefs
  <2>6. <<"thread", t>> \notin Holders(z)
    <3>1. <<"thread", t>> \notin ThreadRefs(z)
      BY <1>6, DispatcherAssumption DEF ThreadRefs
    <3> QED BY <3>1, HoldersApart
  <2>7. Holders(z)' = Holders(z) \cup {<<"thread", t>>}
    BY <1>4, <2>2, <2>3, <2>4 DEF Holders
  <2>8. \A o \in Object \ {z} : Holders(o)' = Holders(o)
    BY <1>4, <2>2, <2>3, <2>5 DEF Holders
  <2> QED BY <1>3, <2>6, <2>7, <2>8, RefsAdded
<1> QED BY <1>2, <1>5, <1>6 DEF AddRefForThis

(* The object that leaves the list keeps its reference until its Flush.    *)
LEMMA NextExecuterRefs ==
  ASSUME IInv, RefsCounted, NEW t \in Thread, NextExecuter(t)
  PROVE  RefsCounted'
<1> DEFINE l == LExecuterList[t]
<1>1. /\ Types /\ flush \in [Thread -> FlushType] /\ LExecuterList \in [Thread -> Seq(Object)]
      /\ l \in Seq(Object) /\ l # <<>> /\ Distinct(l)
  BY DEF IInv, Types, NextExecuter, Claims
<1>2. PICK z \in Object : z = Head(l) /\ z = l[1]
  BY <1>1
<1>3. /\ UNCHANGED <<armed, mRefCount, LCurrentExecuterOccupyingThisThread>>
      /\ flush[t].at = "list"
      /\ flush'[t].at = "pop" /\ flush'[t].obj = z /\ flush'[t].listed = TRUE
      /\ LExecuterList'[t] = Tail(l)
      /\ \A u \in Thread \ {t} : /\ flush'[u] = flush[u]
                                 /\ LExecuterList'[u] = LExecuterList[u]
  BY <1>1, <1>2 DEF NextExecuter, Flushes, NoFlush, counts, timers
<1>4. ASSUME NEW o PROVE InList(Tail(l), o) <=> InList(l, o) /\ o # z
  <2> DEFINE k == Tail(l)
  <2>1. /\ Len(k) = Len(l) - 1 /\ Len(l) \in Nat /\ Len(l) > 0
        /\ \A i \in 1 .. Len(l) - 1 : k[i] = l[i + 1]
    BY <1>1
  <2> HIDE DEF k
  <2> HIDE DEF l
  <2>2. ASSUME InList(k, o) PROVE InList(l, o) /\ o # z
    <3>1. PICK i \in 1 .. Len(k) : k[i] = o BY <2>2 DEF InList
    <3>2. i + 1 \in 1 .. Len(l) /\ l[i + 1] = o /\ 1 \in 1 .. Len(l) /\ i + 1 # 1
      BY <2>1, <3>1
    <3> QED BY <1>1, <1>2, <3>2 DEF InList, Distinct
  <2>3. ASSUME InList(l, o), o # z PROVE InList(k, o)
    <3>1. PICK i \in 1 .. Len(l) : l[i] = o BY <2>3 DEF InList
    <3>2. i # 1 BY <1>2, <2>3, <3>1
    <3>3. i - 1 \in 1 .. Len(k) /\ k[i - 1] = o BY <2>1, <3>1, <3>2
    <3> QED BY <3>3 DEF InList
  <2> QED BY <2>2, <2>3 DEF k
<1>5. InList(l, z)
  <2>1. 1 \in 1 .. Len(l) BY <1>1
  <2> QED BY <1>2, <2>1 DEF InList
<1> HIDE DEF l
<1>6. \A o : TimerRefs(o)' = TimerRefs(o) /\ ThreadRefs(o)' = ThreadRefs(o)
  BY <1>3 DEF TimerRefs, ThreadRefs
<1>7. ListRefs(z)' = ListRefs(z) \ {<<"list", t>>} /\ <<"list", t>> \in ListRefs(z)
  <2>1. Unique(post, flush, LExecuterList, z) BY DEF IInv, Claims
  <2>2. \A u \in Thread : InList(LExecuterList'[u], z) <=> u # t /\ InList(LExecuterList[u], z)
    BY <1>3, <1>4
  <2> QED BY <1>5, <2>2 DEF ListRefs, l
<1>8. ASSUME NEW o \in Object \ {z} PROVE ListRefs(o)' = ListRefs(o)
  <2>1. \A u \in Thread : InList(LExecuterList'[u], o) <=> InList(LExecuterList[u], o)
    BY <1>3, <1>4 DEF l
  <2> QED BY <2>1 DEF ListRefs
<1>9. FlushRefs(z)' = FlushRefs(z) \cup {<<"flush", t>>} /\ <<"flush", t>> \notin FlushRefs(z)
  BY <1>3 DEF FlushRefs
<1>10. \A o \in Object \ {z} : FlushRefs(o)' = FlushRefs(o)
  BY <1>3 DEF FlushRefs
<1>11. /\ <<"list", t>> \notin TimerRefs(z) \cup ThreadRefs(z) \cup FlushRefs(z)
       /\ <<"list", t>> # <<"flush", t>>
  BY DEF TimerRefs, ThreadRefs, FlushRefs
<1>12. Holders(z)' = (Holders(z) \ {<<"list", t>>}) \cup {<<"flush", t>>}
  BY <1>6, <1>7, <1>9, <1>11 DEF Holders
<1>13. <<"list", t>> \in Holders(z) /\ <<"flush", t>> \notin Holders(z)
  BY <1>7, <1>9, HoldersApart
<1>14. \A o \in Object \ {z} : Holders(o)' = Holders(o)
  BY <1>6, <1>8, <1>10 DEF Holders
<1> QED BY <1>3, <1>11, <1>12, <1>13, <1>14, RefsPassed

LEMMA ReleaseListedRefs ==
  ASSUME Types, More, Occupied, RefsCounted, NEW t \in Thread, ReleaseListed(t)
  PROVE  RefsCounted'
<1>1. /\ flush[t].at = "release" /\ flush[t].listed
      /\ flush \in [Thread -> FlushType]
  BY DEF ReleaseListed, Flushes, Occupied, Types
<1>2. PICK z \in Object : z = flush[t].obj
  BY <1>1 DEF Types
<1>3. /\ UNCHANGED <<armed, lists>>
      /\ mRefCount' = [mRefCount EXCEPT ![z] = @ - 1]
      /\ flush'[t].at = "list"
      /\ \A u \in Thread \ {t} : flush'[u] = flush[u]
  BY <1>1, <1>2 DEF ReleaseListed, Goes, FlushType, timers
<1>4. \A o : /\ TimerRefs(o)' = TimerRefs(o) /\ ThreadRefs(o)' = ThreadRefs(o)
             /\ ListRefs(o)' = ListRefs(o)
  BY <1>3 DEF TimerRefs, ThreadRefs, ListRefs, lists
<1>5. FlushRefs(z)' = FlushRefs(z) \ {<<"flush", t>>} /\ <<"flush", t>> \in FlushRefs(z)
  BY <1>1, <1>2, <1>3 DEF FlushRefs
<1>6. \A o \in Object \ {z} : FlushRefs(o)' = FlushRefs(o)
  BY <1>2, <1>3 DEF FlushRefs
<1>7. <<"flush", t>> \notin TimerRefs(z) \cup ThreadRefs(z) \cup ListRefs(z)
  BY DEF TimerRefs, ThreadRefs, ListRefs
<1>8. Holders(z)' = Holders(z) \ {<<"flush", t>>} /\ <<"flush", t>> \in Holders(z)
  BY <1>4, <1>5, <1>7 DEF Holders
<1>9. \A o \in Object \ {z} : Holders(o)' = Holders(o)
  BY <1>4, <1>6 DEF Holders
<1> QED BY <1>3, <1>8, <1>9, RefsDropped

LEMMA LeaveThreadRefs ==
  ASSUME Types, More, Occupied, RefsCounted, NEW t \in Thread, LeaveThread(t)
  PROVE  RefsCounted'
<1>1. flush[t].at = "list" /\ flush \in [Thread -> FlushType]
  BY DEF LeaveThread, Flushes, Types
<1>2. PICK z \in Object : z = LCurrentExecuterOccupyingThisThread[t]
  BY <1>1 DEF Occupied
<1>3. /\ UNCHANGED <<armed, LExecuterList>>
      /\ mRefCount' = [mRefCount EXCEPT ![z] = @ - 1]
      /\ LCurrentExecuterOccupyingThisThread'[t] = nullptr
      /\ flush'[t].at = "no"
      /\ \A u \in Thread \ {t} : /\ flush'[u] = flush[u]
                                 /\ LCurrentExecuterOccupyingThisThread'[u]
                                      = LCurrentExecuterOccupyingThisThread[u]
  BY <1>1, <1>2 DEF LeaveThread, NoFlush, timers, More
<1>4. \A o : /\ TimerRefs(o)' = TimerRefs(o) /\ ListRefs(o)' = ListRefs(o)
             /\ FlushRefs(o)' = FlushRefs(o)
  BY <1>1, <1>3 DEF TimerRefs, ListRefs, FlushRefs
<1>5. /\ ThreadRefs(z)' = ThreadRefs(z) \ {<<"thread", t>>}
      /\ <<"thread", t>> \in ThreadRefs(z)
  BY <1>2, <1>3, DispatcherAssumption DEF ThreadRefs
<1>6. \A o \in Object \ {z} : ThreadRefs(o)' = ThreadRefs(o)
  BY <1>2, <1>3, DispatcherAssumption DEF ThreadRefs
<1>7. <<"thread", t>> \notin TimerRefs(z) \cup ListRefs(z) \cup FlushRefs(z)
  BY DEF TimerRefs, ListRefs, FlushRefs
<1>8. Holders(z)' = Holders(z) \ {<<"thread", t>>} /\ <<"thread", t>> \in Holders(z)
  BY <1>4, <1>5, <1>7 DEF Holders
<1>9. \A o \in Object \ {z} : Holders(o)' = Holders(o)
  BY <1>4, <1>6 DEF Holders
<1> QED BY <1>3, <1>8, <1>9, RefsDropped

LEMMA RefsStep ==
  ASSUME IInv, More, Occupied, Once, RefsCounted, [Next]_vars
  PROVE  RefsCounted'
<1>1. Types /\ flush \in [Thread -> FlushType]
  BY DEF IInv, Types
<1>2. CASE UNCHANGED <<mRefCount, armed, lists, flush>>
  BY <1>2 DEF RefsCounted, Holders, TimerRefs, ThreadRefs, ListRefs, FlushRefs, lists
<1>3. ASSUME NEW t \in Thread, UNCHANGED <<mRefCount, armed, lists>>,
             \A u \in Thread \ {t} : flush'[u] = flush[u],
             flush'[t].obj = flush[t].obj /\ flush'[t].listed = flush[t].listed,
             flush[t].at \notin {"no", "list"},
             flush[t].listed => flush'[t].at \notin {"no", "list"}
      PROVE  RefsCounted'
  <2>1. \A o : FlushRefs(o)' = FlushRefs(o)
    BY <1>3 DEF FlushRefs
  <2>2. \A o : Holders(o)' = Holders(o)
    BY <1>3, <2>1 DEF Holders, TimerRefs, ThreadRefs, ListRefs, lists
  <2> QED BY <1>3, <2>2, RefsKept
<1>4. ASSUME NEW t \in Thread,
             \/ Pop(t) \/ PopSecond(t) \/ PopHead(t) \/ PopClearStub(t)
             \/ PopExchange(t) \/ PopLink(t) \/ PopLast(t) \/ DeleteJob(t)
      PROVE  RefsCounted'
  BY <1>1, <1>3, <1>4, FlushStep DEF counts, timers, InFlush
<1>5. ASSUME NEW t \in Thread, CountDown(t) PROVE RefsCounted'
  <2>1. /\ UNCHANGED <<mRefCount, armed, lists>> /\ flush[t].at = "count"
        /\ \A u \in Thread \ {t} : flush'[u] = flush[u]
        /\ flush'[t].obj = flush[t].obj /\ flush'[t].listed = flush[t].listed
        /\ flush[t].listed => flush'[t].at \in {"pop", "release"}
    BY <1>1, <1>5 DEF CountDown, Goes, Flushes, FlushType, timers
  <2> QED BY <1>3, <2>1
<1>6. ASSUME NEW t \in Thread,
             DoTimerJob(t) \/ CountTask(t) \/ PushExchange(t) \/ PushLink(t)
      PROVE  RefsCounted'
  BY <1>2, <1>6 DEF DoTimerJob, CountTask, PushExchange, PushLink, counts, timers
<1>7. ASSUME NEW t \in Thread, NEW j \in Job, DoAsync(t, j) \/ DoAsyncAfter(t, j)
      PROVE  RefsCounted'
  <2>1. CASE DoAsync(t, j)
    BY <1>2, <2>1 DEF DoAsync, counts, timers
  <2> QED BY <1>1, <1>7, <2>1, DoAsyncAfterRefs
<1>8. CASE UNCHANGED vars
  BY <1>2, <1>8 DEF vars, counts, timers
<1>9. ASSUME NEW t \in Thread, DispatchStep(t) PROVE RefsCounted'
  BY <1>1, <1>4, <1>5, <1>6, <1>9, TimerReleaseRefs, AddRefRefs, NextExecuterRefs,
     ReleaseListedRefs, LeaveThreadRefs
  DEF DispatchStep
<1> QED BY <1>6, <1>7, <1>8, <1>9 DEF Next, Quiet

-----------------------------------------------------------------------------
(* The two counts and who is responsible for them, together.               *)

LEMMA FirstStep ==
  ASSUME IInv, FirstTakes, [Next]_vars
  PROVE  FirstTakes'
<1>1. post \in [Thread -> PostType]
  BY DEF IInv, Types
<1>2. CASE UNCHANGED post
  BY <1>2 DEF FirstTakes
<1>3. ASSUME NEW t \in Thread, \A u \in Thread \ {t} : post'[u] = post[u],
             post'[t].at = "addref" => post'[t].first
      PROVE  FirstTakes'
  BY <1>3 DEF FirstTakes
<1>4. ASSUME NEW t \in Thread,
             DoTimerJob(t) \/ \E j \in Job : DoAsync(t, j) \/ DoAsyncAfter(t, j)
      PROVE  FirstTakes'
  <2>1. CASE UNCHANGED post BY <1>2, <2>1
  <2>2. ASSUME NEW j, DoTask(t, j) PROVE FirstTakes'
    <3>1. post'[t].at = "add" /\ \A u \in Thread \ {t} : post'[u] = post[u]
      BY <1>1, <2>2 DEF DoTask, NoPost
    <3> QED BY <1>3, <3>1
  <2> QED BY <1>4, <2>1, <2>2 DEF DoTimerJob, DoAsync, DoAsyncAfter
<1>5. ASSUME NEW t \in Thread,
             CountTask(t) \/ PushExchange(t) \/ PushLink(t) \/ AddRefForThis(t)
      PROVE  FirstTakes'
  <2>1. \A u \in Thread \ {t} : post'[u] = post[u]
    BY <1>1, <1>5 DEF CountTask, PushExchange, PushLink, AddRefForThis
  <2>2. CASE CountTask(t) \/ PushExchange(t)
    <3>1. post'[t].at \in {"exchange", "link"}
      BY <1>1, <2>2 DEF CountTask, PushExchange, PostType
    <3> QED BY <1>3, <2>1, <3>1
  <2>3. CASE AddRefForThis(t)
    <3>1. post'[t].at = "no" BY <1>1, <2>3 DEF AddRefForThis, NoPost
    <3> QED BY <1>3, <2>1, <3>1
  <2>4. CASE PushLink(t) /\ post[t].first
    <3>1. post' = [post EXCEPT ![t] = [@ EXCEPT !.at = "addref"]]
      BY <2>4 DEF PushLink
    <3>2. post'[t].first BY <1>1, <2>4, <3>1 DEF PostType
    <3> QED BY <1>3, <2>1, <3>2
  <2>5. CASE PushLink(t) /\ ~ post[t].first
    <3>1. post' = [post EXCEPT ![t] = NoPost] BY <2>5 DEF PushLink
    <3>2. post'[t].at = "no" BY <1>1, <3>1 DEF NoPost
    <3> QED BY <1>3, <2>1, <3>2
  <2> QED BY <1>5, <2>2, <2>3, <2>4, <2>5
<1>6. ASSUME NEW t \in Thread, DispatchStep(t) PROVE FirstTakes'
  BY <1>2, <1>5, <1>6 DEF DispatchStep, TimerRelease, Pop, PopSecond, PopHead,
     PopClearStub, PopExchange, PopLink, PopLast, PopReturns, PopGoes, DeleteJob,
     CountDown, ReleaseListed, NextExecuter, LeaveThread
<1> QED BY <1>2, <1>4, <1>6 DEF Next, Quiet, vars

LEMMA InitCInv == Init => CInv
<1> SUFFICES ASSUME Init PROVE CInv
  OBVIOUS
<1>1. QInv
  BY InitQInv
<1>2. Responsible /\ FirstTakes
  BY DEF Init, Responsible, FirstTakes, NoPost
<1>3. ASSUME NEW o \in Object PROVE Counted(o) = {} /\ Holders(o) = {}
  <2>1. Counted(o) = {}
    BY DEF Init, Counted, NoPost, NoFlush, InList
  <2>2. TimerRefs(o) = {} /\ FlushRefs(o) = {}
    BY DEF Init, TimerRefs, FlushRefs, NoFlush
  <2>3. ThreadRefs(o) = {}
    BY DispatcherAssumption DEF Init, ThreadRefs
  <2>4. ListRefs(o) = {}
    BY DEF Init, ListRefs, InList
  <2> QED BY <2>1, <2>2, <2>3, <2>4 DEF Holders
<1>4. Size({}, 0)
  BY FS_EmptySet DEF Size
<1>5. TasksCounted /\ RefsCounted
  BY <1>3, <1>4 DEF Init, TasksCounted, RefsCounted
<1> QED BY <1>1, <1>2, <1>5 DEF CInv

LEMMA StepCInv == CInv /\ [Next]_vars => CInv'
<1> SUFFICES ASSUME CInv, [Next]_vars PROVE CInv'
  OBVIOUS
<1>1. /\ QInv /\ IInv /\ More /\ Occupied /\ Once /\ Queues
      /\ Responsible /\ FirstTakes /\ TasksCounted /\ RefsCounted
  BY DEF CInv, QInv
<1>2. QInv' BY <1>1, StepQInv
<1>3. Older BY <1>1, OnceStep DEF IInv
<1>4. Responsible' /\ FirstTakes' BY <1>1, ResponsibleStep, FirstStep
<1>5. TasksCounted' /\ RefsCounted' BY <1>1, <1>3, TasksStep, RefsStep
<1> QED BY <1>2, <1>4, <1>5 DEF CInv

(* What the two exact counts mean for the lifetime of an object.           *)
LEMMA CountsRefer == CInv => Referenced
<1> SUFFICES ASSUME CInv PROVE Referenced
  OBVIOUS
<1>1. IInv /\ More /\ Occupied /\ Queues /\ Responsible /\ FirstTakes
  BY DEF CInv, QInv
<1>2. \A o \in Object : /\ mRemainTaskCount[o] = 0 <=> Counted(o) = {}
                        /\ mRefCount[o] \in Nat /\ (mRefCount[o] = 0 <=> Holders(o) = {})
  BY SizeNone DEF CInv, TasksCounted, RefsCounted
<1>3. ASSUME NEW o \in Object, waiting[o] # <<>> \/ executing[o] # {}
      PROVE  \/ mRefCount[o] > 0
             \/ \E t \in Thread : post[t].at # "no" /\ post[t].first /\ Target(t) = o
  <2>1. PICK j \in Job : Owner[j] = o /\ (InList(waiting[o], j) \/ j \in executing[o])
    <3>1. CASE waiting[o] # <<>>
      <4>1. waiting[o] \in Seq(Job) BY <1>1, Stages
      <4>2. 1 \in 1 .. Len(waiting[o]) BY <3>1, <4>1
      <4>3. InList(waiting[o], waiting[o][1]) BY <4>2 DEF InList
      <4> QED BY <1>1, <4>3, Stages
    <3>2. CASE executing[o] # {}
      BY <1>1, <3>2, Stages
    <3> QED BY <1>3, <3>1, <3>2
  <2>2. j \in Counted(o) BY <2>1 DEF Counted
  <2>3. ~ Free(post, flush, LExecuterList, o) BY <1>1, <1>2, <2>2 DEF Responsible
  <2>4. PICK t \in Thread :
          HasPost(post[t], o) \/ HasFlush(flush[t], o) \/ InList(LExecuterList[t], o)
    BY <2>3 DEF Free
  <2>5. CASE HasPost(post[t], o)
    <3>1. post[t].at # "no" /\ post[t].first /\ Target(t) = o
      BY <1>1, <2>5 DEF HasPost, FirstTakes, Target
    <3> QED BY <3>1
  <2>6. CASE HasFlush(flush[t], o) \/ InList(LExecuterList[t], o)
    <3>1. CASE HasFlush(flush[t], o) /\ flush[t].listed
      <4>1. <<"flush", t>> \in FlushRefs(o) BY <3>1 DEF HasFlush, FlushRefs
      <4> QED BY <1>2, <4>1 DEF Holders
    <3>2. CASE HasFlush(flush[t], o) /\ ~ flush[t].listed
      <4>1. LCurrentExecuterOccupyingThisThread[t] = o
        BY <1>1, <3>2 DEF HasFlush, Occupied
      <4>2. <<"thread", t>> \in ThreadRefs(o) BY <4>1 DEF ThreadRefs
      <4> QED BY <1>2, <4>2 DEF Holders
    <3>3. CASE InList(LExecuterList[t], o)
      <4>1. <<"list", t>> \in ListRefs(o) BY <3>3 DEF ListRefs
      <4> QED BY <1>2, <4>1 DEF Holders
    <3> QED BY <2>6, <3>1, <3>2, <3>3
  <2> QED BY <2>4, <2>5, <2>6
<1>4. ASSUME NEW o \in Object, mRefCount[o] # 0
      PROVE  \E t \in Thread :
               \/ \E j \in armed[t] : Owner[j] = o
               \/ LCurrentExecuterOccupyingThisThread[t] = o \/ flush[t].obj = o
               \/ \E i \in 1 .. Len(LExecuterList[t]) : LExecuterList[t][i] = o
  <2>1. PICK x : x \in Holders(o) BY <1>2, <1>4
  <2>2. CASE x \in TimerRefs(o) BY <2>2 DEF TimerRefs
  <2>3. CASE x \in ThreadRefs(o) BY <2>3 DEF ThreadRefs
  <2>4. CASE x \in ListRefs(o) BY <2>4 DEF ListRefs, InList
  <2>5. CASE x \in FlushRefs(o) BY <2>5 DEF FlushRefs
  <2> QED BY <2>1, <2>2, <2>3, <2>4, <2>5 DEF Holders
<1> QED BY <1>3, <1>4 DEF Referenced, StillReferenced, AllReleased

(* AddRefForThis and ReleaseRefForThis are paired: an object whose jobs    *)
(* wait or run is referenced, unless its first poster is still in DoTask,  *)
(* and an object that no thread, list or timer holds has mRefCount zero,   *)
(* as the destructor asserts.                                              *)
THEOREM RightlyReferenced == Spec => []Referenced
<1>1. Init => CInv BY InitCInv
<1>2. CInv /\ [Next]_vars => CInv' BY StepCInv
<1>3. CInv => Referenced BY CountsRefer
<1> QED BY <1>1, <1>2, <1>3, PTL DEF Spec
=============================================================================
