------------------------- MODULE DummyClientsProofs -------------------------
(***************************************************************************)
(* For every number of game sessions, players, I/O threads and requests:   *)
(* the references on a session are accounted for (RefsAccounted), the      *)
(* asserts of sending and connecting hold (AssertsHold), a session is      *)
(* played by one chain of timer jobs (OneChain), a packet misses its id or *)
(* index only while the main thread is about to store it                   *)
(* (NamelessOnlyInLaunch), and the timer pops the job it ran (PopsWhatRan).*)
(*                                                                         *)
(* None of these is inductive.  The argument has three layers.             *)
(*   Base:  types; what a thread's position says of its hands and of the   *)
(*          top of its timer queue; a send in the kernel covers packets    *)
(*          that are still in the buffer.                                  *)
(*   Chain: a session is connected once, so there is one login of it, which*)
(*          is about to be sent, or on its way, or answered, or has become *)
(*          the timer job that plays the test.                             *)
(*   Refs:  the right to disconnect a session is unique and stands for the *)
(*          reference it was issued with; the references add up.           *)
(* What the main thread has stored of a session (Stores) goes with its     *)
(* place in the launch, and needs none of these.                           *)
(***************************************************************************)
EXTENDS DummyClients, FiniteSetTheorems, SequenceTheorems, TLAPS

PacketType == {"none", "login", "chat", "move", "play", "exit"}
Packet == [type : PacketType, id : BOOLEAN]
Labels == {"idle", "prerecv", "login", "post", "disc", "loop", "after", "stopped"}
JobOf == [owner : Session, due : Int]
Queue == [top : JobOf \cup {NoJob}, rest : SUBSET JobOf]
MainAts ==
  {"prepare", "launch", "describe", "placement", "players", "connect", "store",
   "storeIdx", "wait", "terminate", "close", "stop", "join", "done", "undefined"}

-----------------------------------------------------------------------------
(* Base.                                                                   *)

DataTypes ==
  /\ mPlayerSessionId \in [Session -> BOOLEAN]
  /\ mPlayerIdx \in [Session -> BOOLEAN]
  /\ mSendBuffer \in [Session -> Seq(Packet)]
  /\ mSendRequestedCount \in [Session -> Int]
  /\ mPlayTestCount \in [Session -> Nat]
  /\ issued \in [Session -> BOOLEAN]
  /\ pending \in [Session -> [IO -> Nat]]
  /\ inflight \in [Session -> Nat]
  /\ wire \in [Session -> Seq(Packet)]
  /\ inbox \in [Session -> Seq(PacketType)]
  /\ DOMAIN link = Session

SessionTypes ==
  /\ mConnected \in [Session -> BOOLEAN]
  /\ mRefCount \in [Session -> Int]
  /\ DataTypes

ThreadTypes ==
  /\ pc \in [Worker -> Labels]
  /\ who \in [Worker -> Session \cup {NoOne}]
  /\ hand \in [Worker -> IO \cup {"none"}]
  /\ out \in [Worker -> Packet]
  /\ timers \in [Worker -> Queue]
  /\ lag \in [Worker -> Int]

MainTypes ==
  /\ main \in [pc : MainAts, g : 1 .. Games, i : 1 .. PerGame + 1, queue : BOOLEAN]
  /\ main.pc \in {"store", "storeIdx", "wait", "terminate", "close"} => main.i <= PerGame

(* The send of a session.                                                  *)
SendOK(s) ==
  /\ pending[s]["send"] <= 1
  /\ pending[s]["send"] <= mSendRequestedCount[s]
  /\ pending[s]["send"] > 0 => inflight[s] > 0 /\ inflight[s] <= Len(mSendBuffer[s])

(* Thread w is inside PlayTest.                                            *)
Testing(w) == hand[w] = "none" /\ pc[w] \in {"post", "disc", "after"}

(* Where thread w stands, and what it has.                                 *)
Stands(w) ==
  /\ pc[w] \in {"idle", "loop", "stopped"} => who[w] = NoOne /\ hand[w] = "none"
  /\ pc[w] \notin {"idle", "loop", "stopped"} => who[w] \in Session
  /\ pc[w] \in {"prerecv", "login"} => hand[w] = "connect"
  /\ pc[w] = "after" => hand[w] = "none"
  /\ pc[w] = "post" =>
       \/ hand[w] = "connect" /\ out[w].type = "login"
       \/ hand[w] = "none" /\ out[w].type \in {"chat", "move", "exit"}

(* The top of its queue is due whenever it is about to run, or runs, it.   *)
Due(w) ==
  /\ IsEmpty(timers[w]) => timers[w].rest = {}
  /\ pc[w] = "loop" \/ Testing(w) =>
       ~IsEmpty(timers[w]) /\ timers[w].top.due <= -lag[w]
  /\ Testing(w) => timers[w].top.owner = who[w]

Base ==
  /\ SessionTypes /\ ThreadTypes /\ MainTypes
  /\ \A s \in Session : SendOK(s)
  /\ \A w \in Worker : Stands(w) /\ Due(w)

-----------------------------------------------------------------------------
(* Chain.                                                                  *)

(* T is the threads' timer queues.                                         *)
HasJob(T, s) == \E w \in Worker : \E e \in Elements(T[w]) : e.owner = s
OneJob(T, s) ==
  \A w, v \in Worker : \A e \in Elements(T[w]), f \in Elements(T[v]) :
    e.owner = s /\ f.owner = s => w = v /\ e = f

Started(s) == HasJob(timers, s) \/ mPlayTestCount[s] > 0

(* Main will still get to the session, in this launch.                     *)
Later(s) ==
  \/ main.pc = "prepare"
  \/ /\ main.pc \in {"launch", "describe", "placement", "players", "connect"}
     /\ s[1] > main.g \/ (s[1] = main.g /\ s[2] >= main.i)
  \/ /\ main.pc \in {"store", "storeIdx"}
     /\ s[1] > main.g \/ (s[1] = main.g /\ s[2] > main.i)

(* Main has not asked for the session's connection, be it that it has not  *)
(* got there or that it went past it.                                      *)
Ahead(s) ==
  \/ Later(s)
  \/ ~mPlayerIdx[s] /\ ~(main.pc \in {"store", "storeIdx"} /\ <<main.g, main.i>> = s)

(* The id is stored first, the index then, at the session's turn.          *)
Stores(s) ==
  /\ mPlayerIdx[s] => mPlayerSessionId[s]
  /\ mPlayerSessionId[s] => ~Later(s) /\ ~(main.pc = "store" /\ Current = s)
  /\ main.pc = "storeIdx" /\ Current = s => mPlayerSessionId[s]

MainCloses(s) == main.pc = "close" /\ Current = s

(* Nothing was sent, received or armed.                                    *)
Silent(s) ==
  /\ mSendBuffer[s] = <<>> /\ wire[s] = <<>> /\ inbox[s] = <<>>
  /\ ~Started(s)
  /\ mSendRequestedCount[s] = 0

(* The session is not connected yet, and nobody does anything for it.      *)
Untouched(s) ==
  /\ ~mConnected[s]
  /\ Silent(s)
  /\ \A w \in Worker : who[w] # s
  /\ \A io \in IO \ {"connect"} : pending[s][io] = 0
  /\ ~MainCloses(s)

Connects(w, s) ==
  who[w] = s /\ hand[w] = "connect" /\ pc[w] \in {"prerecv", "login", "post"}

(* A session is connected once, by one thread.                             *)
ConnectsOnce(s) ==
  /\ Ahead(s) => Untouched(s) /\ pending[s]["connect"] = 0 /\ ~issued[s]
  /\ pending[s]["connect"] > 0 =>
       pending[s]["connect"] = 1 /\ Untouched(s) /\ issued[s]
  /\ \A w, v \in Worker : Connects(w, s) /\ Connects(v, s) => w = v
  /\ \A w \in Worker : Connects(w, s) => Silent(s)

IsLogin(q) == \A k \in 1 .. Len(q) : q[k].type = "login"
NoLogin(q) == \A k \in 1 .. Len(q) : q[k].type # "login"

(* Before the test has started there is nothing but the login, in the      *)
(* buffer, and once it was sent on the wire or answered.                   *)
Before(s) ==
  LET buf == mSendBuffer[s] IN
  /\ IsLogin(buf) /\ Len(buf) <= 1
  /\ IsLogin(wire[s]) /\ Len(wire[s]) + Len(inbox[s]) <= 1
  /\ buf # <<>> =>
       \/ wire[s] = <<>> /\ inbox[s] = <<>>
       \/ inflight[s] = 1 /\ mSendRequestedCount[s] > 0

(* Since then the login is only in the buffer, until its send is over.     *)
Since(s) ==
  LET buf == mSendBuffer[s] IN
  /\ NoLogin(wire[s])
  /\ \A k \in 1 .. Len(inbox[s]) : inbox[s][k] # "login"
  /\ \A k \in 2 .. Len(buf) : buf[k].type # "login"
  /\ buf # <<>> /\ buf[1].type = "login" =>
       inflight[s] = 1 /\ wire[s] = <<>> /\ mSendRequestedCount[s] > 0

LoginOnce(s) == IF Started(s) THEN Since(s) ELSE Before(s)

Plays(s) ==
  /\ OneJob(timers, s)
  /\ mPlayTestCount[s] <= PLAYER_ACTION_REQUEST
  /\ HasJob(timers, s) =>
       \/ mPlayTestCount[s] < PLAYER_ACTION_REQUEST
       \/ \E w \in Worker : Testing(w) /\ who[w] = s

(* Packet p shows that session s has its id: a login with an id, or what   *)
(* follows the result of one.                                              *)
Own(p, s) == p.type # "login" \/ p.id => mPlayerSessionId[s]

KnowsItself(s) ==
  /\ \A k \in 1 .. Len(mSendBuffer[s]) : Own(mSendBuffer[s][k], s)
  /\ \A k \in 1 .. Len(wire[s]) : Own(wire[s][k], s)
  /\ inbox[s] # <<>> \/ HasJob(timers, s) => mPlayerSessionId[s]
  /\ \A w \in Worker : who[w] = s /\ pc[w] = "post" => Own(out[w], s)

(* The job on top of a queue is not below it as well.                      *)
Neat(q) == ~IsEmpty(q) => q.top \notin q.rest

ChainAt(s) == ConnectsOnce(s) /\ LoginOnce(s) /\ Plays(s) /\ KnowsItself(s)

Chain == (\A s \in Session : ChainAt(s)) /\ \A w \in Worker : Neat(timers[w])

-----------------------------------------------------------------------------
(* Refs.                                                                   *)

Closes(w, s) == who[w] = s /\ pc[w] = "disc"

(* The right to disconnect: mConnected, or whoever took it, or the         *)
(* DisconnectEx in the kernel.                                             *)
ClosesOnce(s) ==
  /\ mConnected[s] =>
       /\ \A w \in Worker : ~Closes(w, s)
       /\ ~MainCloses(s) /\ pending[s]["disconnect"] = 0 /\ issued[s]
  /\ \A w \in Worker : Closes(w, s) =>
       /\ \A v \in Worker : Closes(v, s) => v = w
       /\ ~MainCloses(s) /\ pending[s]["disconnect"] = 0 /\ issued[s]
  /\ MainCloses(s) => pending[s]["disconnect"] = 0 /\ issued[s]
  /\ pending[s]["disconnect"] > 0 => pending[s]["disconnect"] = 1 /\ issued[s]

Workers(s) == {w \in Worker : who[w] = s}

InKernel(s) ==
  pending[s]["connect"] + pending[s]["zero"] + pending[s]["recv"]
  + pending[s]["send"] + pending[s]["disconnect"]

AddUp(s) ==
  mRefCount[s] =
    One(issued[s]) + InKernel(s) + Cardinality(Workers(s)) + One(HasJob(timers, s))

Refs == \A s \in Session : ClosesOnce(s) /\ AddUp(s)

-----------------------------------------------------------------------------
(* What the operators of Timer return.                                     *)

(* The empty top of a queue is not a job.                                  *)
LEMMA NoJobIsNone == NoJob \notin JobOf
<1>1. ASSUME NEW s \in Session PROVE s # <<>>
  <2>1. PICK a \in 1 .. Games, b \in 1 .. PerGame : s = <<a, b>>
    BY ClientsAssumption
  <2> QED BY <2>1, Zenon
<1> QED BY <1>1 DEF JobOf, NoJob

(* A queue as the threads have it.                                         *)
GoodQueue(q) == q \in Queue /\ (IsEmpty(q) => q.rest = {})

(* A queue holds jobs.                                                     *)
LEMMA ElementsType ==
  ASSUME NEW q, GoodQueue(q)
  PROVE  Elements(q) \subseteq JobOf
BY DEF GoodQueue, Elements, IsEmpty, Queue

(* Push adds its job, and a job that is due no later stays on top.         *)
LEMMA PushElements ==
  ASSUME NEW q, GoodQueue(q), NEW e \in JobOf
  PROVE  /\ GoodQueue(Push(q, e))
         /\ ~IsEmpty(Push(q, e))
         /\ Elements(Push(q, e)) = Elements(q) \cup {e}
         /\ ~IsEmpty(q) /\ q.top.due <= e.due => Push(q, e).top = q.top
BY NoJobIsNone DEF Push, Elements, IsEmpty, Queue, JobOf, GoodQueue

(* What Pop may leave is a queue as the threads have it.                   *)
LEMMA PopGood ==
  ASSUME NEW q, GoodQueue(q), NEW r \in Pop(q)
  PROVE  GoodQueue(r)
<1>1. CASE q.rest = {}
  BY <1>1 DEF Pop, IsEmpty, Queue, GoodQueue, EmptyQueue
<1>2. CASE q.rest # {}
  <2>1. PICK e \in q.rest : r = [top |-> e, rest |-> q.rest \ {e}]
    BY <1>2 DEF Pop
  <2>2. e \in JobOf BY DEF GoodQueue, Queue
  <2> QED BY <2>1, <2>2, NoJobIsNone DEF IsEmpty, Queue, GoodQueue
<1> QED BY <1>1, <1>2

(* Pop takes out the job on top and no other.                              *)
LEMMA PopElements ==
  ASSUME NEW q, GoodQueue(q), ~IsEmpty(q), q.top \notin q.rest, NEW r \in Pop(q)
  PROVE  Elements(r) = Elements(q) \ {q.top}
<1>1. CASE q.rest = {}
  BY <1>1 DEF Pop, Elements, IsEmpty, Queue, GoodQueue, EmptyQueue
<1>2. CASE q.rest # {}
  <2>1. PICK e \in q.rest : r = [top |-> e, rest |-> q.rest \ {e}]
    BY <1>2 DEF Pop
  <2>2. e \in JobOf BY DEF GoodQueue, Queue
  <2> QED BY <2>1, <2>2, NoJobIsNone DEF Elements, IsEmpty, Queue, GoodQueue
<1> QED BY <1>1, <1>2

(* A tick brings every job of a queue closer and keeps the one on top.     *)
LEMMA TickElements ==
  ASSUME NEW q, GoodQueue(q)
  PROVE  /\ GoodQueue(TickPassed(q))
         /\ IsEmpty(TickPassed(q)) <=> IsEmpty(q)
         /\ Elements(TickPassed(q)) = {Sooner(e) : e \in Elements(q)}
         /\ ~IsEmpty(q) => TickPassed(q).top = Sooner(q.top)
<1>1. \A e \in JobOf : Sooner(e) \in JobOf /\ Sooner(e).owner = e.owner
                       /\ Sooner(e).due = e.due - 1
  BY DEF Sooner, JobOf
<1>2. CASE IsEmpty(q)
  BY <1>2 DEF TickPassed, Elements, IsEmpty, Queue, GoodQueue
<1>3. CASE ~IsEmpty(q)
  <2>1. q.top \in JobOf /\ q.rest \subseteq JobOf
    BY <1>3 DEF GoodQueue, Queue, IsEmpty
  <2>2. TickPassed(q) = [top |-> Sooner(q.top), rest |-> {Sooner(e) : e \in q.rest}]
    BY <1>3 DEF TickPassed
  <2>3. ~IsEmpty(TickPassed(q)) /\ GoodQueue(TickPassed(q))
    BY <2>1, <2>2, <1>1, NoJobIsNone DEF IsEmpty, GoodQueue, Queue
  <2>4. Elements(TickPassed(q)) = {Sooner(q.top)} \cup {Sooner(e) : e \in q.rest}
    BY <2>2, <2>3 DEF Elements
  <2>5. Elements(q) = {q.top} \cup q.rest
    BY <1>3 DEF Elements
  <2> QED BY <2>2, <2>3, <2>4, <2>5, <1>3
<1> QED BY <1>2, <1>3

-----------------------------------------------------------------------------
(* Base is an invariant.                                                   *)

(* A session is a pair of a game and a player of it.                       *)
LEMMA SessionPair == \A s \in Session : s # NoOne /\ s[1] \in 1 .. Games /\ s[2] \in 1 .. PerGame
BY ClientsAssumption

(* Base holds when the program starts.                                     *)
LEMMA InitBase == Init => Base
<1> SUFFICES ASSUME Init PROVE Base
  OBVIOUS
<1> USE DEF Init, SessionInit
<1>1. SessionTypes
  BY DEF SessionTypes, DataTypes, IO
<1>2. ThreadTypes
  BY DEF ThreadTypes, Labels, NoPacket, Packet, PacketType, EmptyQueue, Queue
<1>3. MainTypes
  BY ClientsAssumption DEF MainTypes, MainAt, MainAts
<1>4. \A s \in Session : SendOK(s)
  BY DEF SendOK, IO
<1>5. \A w \in Worker : Stands(w) /\ Due(w)
  BY DEF Stands, Due, Testing, IsEmpty, EmptyQueue
<1> QED BY <1>1, <1>2, <1>3, <1>4, <1>5 DEF Base

(* What Leave does, without the reason it was given: the thread goes on to *)
(* close the connection, or back to the end of its PlayTest, or to its     *)
(* timer.                                                                  *)
Left(w, s, io, d, q) ==
  \/ /\ mConnected[s] /\ mConnected' = [mConnected EXCEPT ![s] = FALSE]
     /\ pc' = [pc EXCEPT ![w] = "disc"] /\ who' = [who EXCEPT ![w] = s]
     /\ hand' = [hand EXCEPT ![w] = io] /\ UNCHANGED lag
     /\ mRefCount' = [mRefCount EXCEPT ![s] = @ + d]
  \/ /\ io = "none" /\ UNCHANGED <<mConnected, lag>>
     /\ pc' = [pc EXCEPT ![w] = "after"] /\ who' = [who EXCEPT ![w] = s]
     /\ hand' = [hand EXCEPT ![w] = "none"]
     /\ mRefCount' = [mRefCount EXCEPT ![s] = @ + d]
  \/ /\ io # "none" /\ UNCHANGED mConnected
     /\ pc' = [pc EXCEPT ![w] = LoopOn(q, 0)] /\ who' = [who EXCEPT ![w] = NoOne]
     /\ hand' = [hand EXCEPT ![w] = "none"] /\ lag' = [lag EXCEPT ![w] = 0]
     /\ mRefCount' = [mRefCount EXCEPT ![s] = @ + d - 1]

(* Leave is what it does; lost is any formula.                             *)
LEMMA LeaveLeft ==
  ASSUME SessionTypes, ThreadTypes, NEW w \in Worker, NEW s \in Session, NEW io,
         NEW lost, NEW d \in Int, NEW q, Leave(w, s, io, lost, d, q)
  PROVE  Left(w, s, io, d, q)
<1> USE DEF Leave, ThreadTypes, SessionTypes, DataTypes
<1>0. mRefCount[s] + d - 0 = mRefCount[s] + d
  OBVIOUS
<1>1. CASE lost /\ mConnected[s]
  <2>1. mConnected' = [mConnected EXCEPT ![s] = FALSE] BY <1>1
  <2>2. UNCHANGED lag BY <1>1
  <2>3. mRefCount' = [mRefCount EXCEPT ![s] = @ + d] BY <1>0, <1>1 DEF One
  <2> QED BY <1>1, <2>1, <2>2, <2>3 DEF Left
<1>2. CASE ~(lost /\ mConnected[s])
  <2>1. UNCHANGED mConnected
    <3>1. (mConnected[s] /\ ~lost) = mConnected[s] BY <1>2
    <3> QED BY <3>1
  <2>2. CASE io = "none"
    <3>1. UNCHANGED lag BY <1>2, <2>2
    <3>2. mRefCount' = [mRefCount EXCEPT ![s] = @ + d] BY <1>0, <1>2, <2>2 DEF One
    <3> QED BY <1>2, <2>1, <2>2, <3>1, <3>2 DEF Left
  <2>3. CASE io # "none"
    <3>1. mRefCount' = [mRefCount EXCEPT ![s] = @ + d - 1] BY <1>2, <2>3 DEF One
    <3> QED BY <1>2, <2>1, <2>3, <3>1 DEF Left
  <2> QED BY <2>2, <2>3
<1> QED BY <1>1, <1>2

(* Left keeps the types of the threads and of the session it lets go.      *)
LEMMA LeaveThreads ==
  ASSUME Base, NEW w \in Worker, NEW s \in Session, NEW io \in IO \cup {"none"},
         NEW d \in Int, NEW q, Left(w, s, io, d, q),
         GoodQueue(q), timers' = [timers EXCEPT ![w] = q],
         io = "none" =>
           ~IsEmpty(q) /\ q.top.due <= -lag[w] /\ q.top.owner = s,
         out' \in [Worker -> Packet], \A v \in Worker \ {w} : out'[v] = out[v]
  PROVE  /\ ThreadTypes'
         /\ mConnected' \in [Session -> BOOLEAN]
         /\ mRefCount' \in [Session -> Int]
         /\ \A v \in Worker : Stands(v)' /\ Due(v)'
<1> USE DEF Base
<1>1. ThreadTypes'
  <2>1. pc' \in [Worker -> Labels]
    BY DEF Left, ThreadTypes, Labels, LoopOn
  <2>2. who' \in [Worker -> Session \cup {NoOne}]
    BY DEF Left, ThreadTypes
  <2>3. hand' \in [Worker -> IO \cup {"none"}]
    BY DEF Left, ThreadTypes
  <2>4. timers' \in [Worker -> Queue]
    BY DEF ThreadTypes, GoodQueue
  <2>5. lag' \in [Worker -> Int]
    BY DEF Left, ThreadTypes
  <2> QED BY <2>1, <2>2, <2>3, <2>4, <2>5 DEF ThreadTypes
<1>2. mConnected' \in [Session -> BOOLEAN] /\ mRefCount' \in [Session -> Int]
  <2>1. \/ UNCHANGED mConnected
        \/ mConnected' = [mConnected EXCEPT ![s] = FALSE]
    BY DEF Left
  <2>2. \/ mRefCount' = [mRefCount EXCEPT ![s] = @ + d]
        \/ mRefCount' = [mRefCount EXCEPT ![s] = @ + d - 1]
    BY DEF Left
  <2>3. mConnected' \in [Session -> BOOLEAN] BY <2>1 DEF SessionTypes, DataTypes
  <2>4. mRefCount' \in [Session -> Int] BY <2>2 DEF SessionTypes, DataTypes
  <2> QED BY <2>3, <2>4
<1>3. ASSUME NEW v \in Worker, v # w PROVE Stands(v)' /\ Due(v)'
  <2>1. /\ pc'[v] = pc[v] /\ who'[v] = who[v] /\ hand'[v] = hand[v]
        /\ lag'[v] = lag[v] /\ timers'[v] = timers[v] /\ out'[v] = out[v]
    BY <1>3 DEF Left, ThreadTypes
  <2>2. Stands(v) /\ Due(v) OBVIOUS
  <2> QED BY <2>1, <2>2 DEF Stands, Due, Testing
<1>4. Stands(w)' /\ Due(w)'
  <2>1. timers'[w] = q BY DEF ThreadTypes
  <2>2. CASE pc'[w] = "disc" /\ who'[w] = s /\ hand'[w] = io /\ lag'[w] = lag[w]
    BY <2>1, <2>2 DEF Stands, Due, Testing, GoodQueue, IO
  <2>3. CASE /\ io = "none" /\ pc'[w] = "after" /\ who'[w] = s /\ hand'[w] = "none"
             /\ lag'[w] = lag[w]
    BY <2>1, <2>3 DEF Stands, Due, Testing, GoodQueue
  <2>4. CASE /\ io # "none" /\ pc'[w] = LoopOn(q, 0) /\ who'[w] = NoOne
             /\ hand'[w] = "none" /\ lag'[w] = 0
    BY <2>1, <2>4 DEF Stands, Due, Testing, GoodQueue, LoopOn
  <2> QED BY <2>2, <2>3, <2>4 DEF Left, ThreadTypes
<1> QED BY <1>1, <1>2, <1>3, <1>4

(* Base is what its parts say.                                             *)
LEMMA BasePieces ==
  ASSUME SessionTypes', ThreadTypes', MainTypes',
         \A s \in Session : SendOK(s)', \A v \in Worker : Stands(v)' /\ Due(v)'
  PROVE  Base'
BY DEF Base

(* A change of one entry of pending.                                       *)
LEMMA PendingEntry ==
  ASSUME NEW P \in [Session -> [IO -> Nat]], NEW s \in Session, NEW io \in IO,
         NEW n \in Nat, NEW Q, Q = [P EXCEPT ![s][io] = n]
  PROVE  /\ Q \in [Session -> [IO -> Nat]]
         /\ Q[s][io] = n
         /\ \A x \in IO \ {io} : Q[s][x] = P[s][x]
         /\ \A u \in Session \ {s} : Q[u] = P[u]
<1>1. [P[s] EXCEPT ![io] = n] \in [IO -> Nat] OBVIOUS
<1>2. Q = [P EXCEPT ![s] = [P[s] EXCEPT ![io] = n]] OBVIOUS
<1> QED BY <1>1, <1>2

(* What a send that starts while none is in the kernel leaves.             *)
LEMMA FlushSendBase ==
  ASSUME SessionTypes, \A u \in Session : SendOK(u), NEW s \in Session,
         NEW buf \in Seq(Packet), buf # <<>>, NEW ok \in BOOLEAN, NEW before,
         before.count \in Nat, before.kernel = 0, before.wire \in Seq(Packet),
         FlushSend(s, buf, ok, before)
  PROVE  /\ mSendBuffer' \in [Session -> Seq(Packet)]
         /\ mSendRequestedCount' \in [Session -> Int]
         /\ inflight' \in [Session -> Nat]
         /\ wire' \in [Session -> Seq(Packet)]
         /\ pending' \in [Session -> [IO -> Nat]]
         /\ \A u \in Session : SendOK(u)'
<1>0. Len(buf) > 0 /\ Len(buf) \in Nat OBVIOUS
<1> USE DEF FlushSend, SessionTypes, DataTypes
<1>1. mSendBuffer' \in [Session -> Seq(Packet)]
  OBVIOUS
<1>2. mSendRequestedCount' \in [Session -> Int]
  BY DEF One
<1>3. inflight' \in [Session -> Nat]
  OBVIOUS
<1>4. wire' \in [Session -> Seq(Packet)]
  <2>1. before.wire \o buf \in Seq(Packet) OBVIOUS
  <2> QED BY <2>1
<1>5. /\ pending' \in [Session -> [IO -> Nat]]
      /\ pending'[s]["send"] = One(ok)
      /\ \A u \in Session \ {s} : pending'[u] = pending[u]
  <2>1. 0 + One(ok) = One(ok) /\ One(ok) \in Nat /\ "send" \in IO
    BY DEF One, IO
  <2>2. pending' = [pending EXCEPT ![s]["send"] = 0 + One(ok)] OBVIOUS
  <2> QED BY <2>1, <2>2, PendingEntry
<1>6. ASSUME NEW u \in Session PROVE SendOK(u)'
  <2>1. CASE u # s
    <3>1. /\ pending'[u]["send"] = pending[u]["send"] /\ inflight'[u] = inflight[u]
          /\ mSendRequestedCount'[u] = mSendRequestedCount[u]
          /\ mSendBuffer'[u] = mSendBuffer[u]
      BY <2>1, <1>5
    <3> QED BY <3>1 DEF SendOK
  <2>2. CASE u = s
    <3>1. /\ mSendRequestedCount'[s] = before.count + One(ok)
          /\ mSendBuffer'[s] = buf /\ inflight'[s] = IF ok THEN Len(buf) ELSE 0
      OBVIOUS
    <3> QED BY <2>2, <3>1, <1>0, <1>5 DEF SendOK, One
  <2> QED BY <2>1, <2>2
<1> QED BY <1>1, <1>2, <1>3, <1>4, <1>5, <1>6

(* A step that leaves the sends alone.                                     *)
LEMMA SendKept ==
  ASSUME \A u \in Session : SendOK(u), UNCHANGED bufferVars,
         \A u \in Session : pending'[u]["send"] = pending[u]["send"]
  PROVE  \A u \in Session : SendOK(u)'
BY DEF SendOK, bufferVars

(* DisconnectEx keeps Base.                                                *)
LEMMA DisconnectExBase ==
  ASSUME Base, NEW w \in Worker, DisconnectEx(w), UNCHANGED main
  PROVE  Base'
<1> DEFINE s == who[w]
<1> USE DEF Base
<1>1. s \in Session /\ hand[w] \in IO \cup {"none"}
  BY DEF DisconnectEx, Stands, ThreadTypes
<1>2. PICK ok \in BOOLEAN :
        /\ pending' = [pending EXCEPT ![s]["disconnect"] = @ + One(ok)]
        /\ Break(s)
        /\ Left(w, s, hand[w], One(ok), timers[w])
  <2>1. PICK ok \in BOOLEAN :
          /\ pending' = [pending EXCEPT ![s]["disconnect"] = @ + One(ok)]
          /\ Break(s)
          /\ Leave(w, s, hand[w], FALSE, One(ok), timers[w])
    BY DEF DisconnectEx
  <2>2. One(ok) \in Int BY DEF One
  <2> HIDE DEF s
  <2> QED BY <1>1, <2>1, <2>2, LeaveLeft
<1>3. UNCHANGED <<bufferVars, inbox, testVars, timers, issued, out>>
  BY DEF DisconnectEx
<1>4. ThreadTypes' /\ mConnected' \in [Session -> BOOLEAN]
      /\ mRefCount' \in [Session -> Int] /\ \A v \in Worker : Stands(v)' /\ Due(v)'
  <2>1. GoodQueue(timers[w]) BY DEF GoodQueue, ThreadTypes, Due
  <2>2. hand[w] = "none" => ~IsEmpty(timers[w]) /\ timers[w].top.due <= -lag[w]
                            /\ timers[w].top.owner = s
    BY DEF DisconnectEx, Due, Testing
  <2>3. timers' = [timers EXCEPT ![w] = timers[w]] BY <1>3 DEF ThreadTypes
  <2>4. out' \in [Worker -> Packet] /\ \A v \in Worker \ {w} : out'[v] = out[v]
    BY <1>3 DEF ThreadTypes
  <2>5. One(ok) \in Int BY DEF One
  <2> HIDE DEF s
  <2> QED BY <1>1, <1>2, <2>1, <2>2, <2>3, <2>4, <2>5, LeaveThreads
<1>5. SessionTypes'
  <2>1. pending' \in [Session -> [IO -> Nat]]
    <3>1. "disconnect" \in IO /\ pending[s]["disconnect"] + One(ok) \in Nat
      BY <1>1 DEF SessionTypes, DataTypes, One, IO
    <3> QED BY <1>1, <1>2, <3>1, PendingEntry DEF SessionTypes, DataTypes
  <2>2. wire' \in [Session -> Seq(Packet)] /\ DOMAIN link' = Session
    BY <1>1, <1>2 DEF SessionTypes, DataTypes, Break
  <2> QED BY <1>3, <1>4, <2>1, <2>2 DEF SessionTypes, DataTypes, bufferVars, testVars
<1>6. \A u \in Session : SendOK(u)'
  <2>1. \A u \in Session : pending'[u]["send"] = pending[u]["send"]
    BY <1>1, <1>2 DEF SessionTypes, DataTypes, IO
  <2> QED BY <2>1, <1>3, SendKept
<1>7. MainTypes' BY DEF MainTypes
<1> QED BY <1>4, <1>5, <1>6, <1>7, BasePieces

(* The thread, its queue unchanged, as LeaveThreads wants it.              *)
LEMMA LeaveQueue ==
  ASSUME Base, NEW w \in Worker, UNCHANGED timers
  PROVE  GoodQueue(timers[w]) /\ timers' = [timers EXCEPT ![w] = timers[w]]
BY DEF Base, ThreadTypes, GoodQueue, Due

(* What PostSend writes of a packet.                                        *)
LEMMA AsSentPacket ==
  ASSUME NEW p \in Packet
  PROVE  /\ AsSent(p) \in Packet
         /\ AsSent(p).type = "login" <=> p.type = "login"
         /\ \A s \in Session : Own(p, s) => Own(AsSent(p), s)
BY DEF AsSent, Packet, PacketType, Own

(* PostSend keeps Base.                                                    *)
LEMMA PostSendBase ==
  ASSUME Base, NEW w \in Worker, PostSend(w), UNCHANGED main
  PROVE  Base'
<1> DEFINE s == who[w]
           buf == Append(mSendBuffer[s], AsSent(out[w]))
<1> USE DEF Base
<1>1. s \in Session /\ hand[w] \in IO \cup {"none"} /\ out[w] \in Packet
      /\ mSendBuffer[s] \in Seq(Packet)
  BY DEF PostSend, Stands, ThreadTypes, SessionTypes, DataTypes
<1>2. UNCHANGED <<netVars, testVars, timers, issued>>
      /\ out' = [out EXCEPT ![w] = NoPacket]
  BY DEF PostSend
<1>3. buf \in Seq(Packet) /\ buf # <<>>
  <2>1. AsSent(out[w]) \in Packet BY <1>1, AsSentPacket
  <2> QED BY <1>1, <2>1
<1>4. ASSUME NEW d \in Int, Left(w, s, hand[w], d, timers[w])
      PROVE  /\ ThreadTypes' /\ mConnected' \in [Session -> BOOLEAN]
             /\ mRefCount' \in [Session -> Int]
             /\ \A v \in Worker : Stands(v)' /\ Due(v)'
  <2>1. GoodQueue(timers[w]) /\ timers' = [timers EXCEPT ![w] = timers[w]]
    BY <1>2, LeaveQueue
  <2>2. hand[w] = "none" => ~IsEmpty(timers[w]) /\ timers[w].top.due <= -lag[w]
                            /\ timers[w].top.owner = s
    BY DEF PostSend, Due, Testing
  <2>3. out' \in [Worker -> Packet] /\ \A v \in Worker \ {w} : out'[v] = out[v]
    BY <1>2 DEF ThreadTypes, NoPacket, Packet, PacketType
  <2> HIDE DEF s
  <2> QED BY <1>1, <1>4, <2>1, <2>2, <2>3, LeaveThreads
<1>5. ASSUME NEW d \in Int, Left(w, s, hand[w], d, timers[w]),
             mSendBuffer' \in [Session -> Seq(Packet)],
             mSendRequestedCount' \in [Session -> Int],
             inflight' \in [Session -> Nat], wire' \in [Session -> Seq(Packet)],
             pending' \in [Session -> [IO -> Nat]],
             \A u \in Session : SendOK(u)'
      PROVE  Base'
  <2>1. ThreadTypes' /\ mConnected' \in [Session -> BOOLEAN]
        /\ mRefCount' \in [Session -> Int] /\ \A v \in Worker : Stands(v)' /\ Due(v)'
    BY <1>4, <1>5
  <2>2. SessionTypes'
    BY <1>2, <1>5, <2>1 DEF SessionTypes, DataTypes, netVars, testVars
  <2>3. MainTypes' BY DEF MainTypes
  <2> QED BY <1>5, <2>1, <2>2, <2>3, BasePieces
<1>6. CASE UNCHANGED <<sendVars, pending>> /\ Leave(w, s, hand[w], FALSE, 0, timers[w])
  <2>1. \A u \in Session : SendOK(u)'
    BY <1>6, SendKept DEF sendVars
  <2>2. Left(w, s, hand[w], 0, timers[w])
    <3> HIDE DEF s
    <3>1. 0 \in Int OBVIOUS
    <3> QED BY <1>1, <1>6, <3>1, LeaveLeft
  <2>3. /\ mSendBuffer' \in [Session -> Seq(Packet)]
        /\ mSendRequestedCount' \in [Session -> Int]
        /\ inflight' \in [Session -> Nat] /\ wire' \in [Session -> Seq(Packet)]
        /\ pending' \in [Session -> [IO -> Nat]]
    BY <1>6 DEF SessionTypes, DataTypes, sendVars, bufferVars
  <2>4. 0 \in Int OBVIOUS
  <2> HIDE DEF s
  <2> QED BY <1>5, <2>1, <2>2, <2>3, <2>4
<1>7. CASE /\ mSendBuffer' = [mSendBuffer EXCEPT ![s] = buf]
           /\ UNCHANGED <<mSendRequestedCount, inflight, wire, pending>>
           /\ Leave(w, s, hand[w], FALSE, 0, timers[w])
  <2>1. mSendBuffer' \in [Session -> Seq(Packet)]
    BY <1>1, <1>3, <1>7 DEF SessionTypes, DataTypes
  <2>2. Len(mSendBuffer[s]) \in Nat /\ Len(buf) = Len(mSendBuffer[s]) + 1
    BY <1>1
  <2>3. ASSUME NEW u \in Session PROVE Len(mSendBuffer'[u]) >= Len(mSendBuffer[u])
    <3>1. Len(mSendBuffer[u]) \in Nat BY DEF SessionTypes, DataTypes
    <3> QED BY <1>1, <1>7, <2>2, <3>1 DEF SessionTypes, DataTypes
  <2>4. ASSUME NEW u \in Session PROVE SendOK(u)'
    <3>1. inflight[u] \in Nat /\ Len(mSendBuffer[u]) \in Nat /\ Len(mSendBuffer'[u]) \in Nat
      BY <2>1 DEF SessionTypes, DataTypes
    <3> QED BY <1>7, <2>3, <3>1 DEF SendOK
  <2>5. Left(w, s, hand[w], 0, timers[w])
    <3> HIDE DEF s
    <3>1. 0 \in Int OBVIOUS
    <3> QED BY <1>1, <1>7, <3>1, LeaveLeft
  <2>6. /\ mSendRequestedCount' \in [Session -> Int]
        /\ inflight' \in [Session -> Nat] /\ wire' \in [Session -> Seq(Packet)]
        /\ pending' \in [Session -> [IO -> Nat]]
    BY <1>7 DEF SessionTypes, DataTypes
  <2>7. 0 \in Int OBVIOUS
  <2> HIDE DEF s
  <2> QED BY <1>5, <2>1, <2>4, <2>5, <2>6, <2>7
<1>8. CASE /\ mSendRequestedCount[s] = 0
           /\ \E ok \in BOOLEAN :
                /\ FlushSend(s, buf, ok, [count |-> 0, wire |-> wire[s],
                                          kernel |-> pending[s]["send"]])
                /\ Leave(w, s, hand[w], ~ok, One(ok), timers[w])
  <2> DEFINE before == [count |-> 0, wire |-> wire[s], kernel |-> pending[s]["send"]]
  <2>1. PICK ok \in BOOLEAN : /\ FlushSend(s, buf, ok, before)
                              /\ Leave(w, s, hand[w], ~ok, One(ok), timers[w])
    BY <1>8
  <2>2. before.count \in Nat /\ before.kernel = 0 /\ before.wire \in Seq(Packet)
    BY <1>1, <1>8 DEF SendOK, SessionTypes, DataTypes, IO
  <2>3. One(ok) \in Int /\ Left(w, s, hand[w], One(ok), timers[w])
    <3>1. One(ok) \in Int BY DEF One
    <3> HIDE DEF s
    <3> QED BY <1>1, <2>1, <3>1, LeaveLeft
  <2> HIDE DEF s, buf, before
  <2>4. /\ mSendBuffer' \in [Session -> Seq(Packet)]
        /\ mSendRequestedCount' \in [Session -> Int]
        /\ inflight' \in [Session -> Nat]
        /\ wire' \in [Session -> Seq(Packet)]
        /\ pending' \in [Session -> [IO -> Nat]]
        /\ \A u \in Session : SendOK(u)'
    BY <1>1, <1>3, <2>1, <2>2, FlushSendBase
  <2> QED BY <1>5, <2>3, <2>4
<1> QED BY <1>6, <1>7, <1>8 DEF PostSend

(* The end of a handler or of PlayTest keeps Base, when what it did to the *)
(* session's data is right.                                                *)
LEMMA LeaveBase ==
  ASSUME Base, NEW w \in Worker, NEW s \in Session, NEW io \in IO \cup {"none"},
         NEW d \in Int, NEW q, Left(w, s, io, d, q),
         GoodQueue(q), timers' = [timers EXCEPT ![w] = q],
         io = "none" =>
           ~IsEmpty(q) /\ q.top.due <= -lag[w] /\ q.top.owner = s,
         UNCHANGED <<out, main>>, DataTypes', \A u \in Session : SendOK(u)'
  PROVE  Base'
<1>1. out' \in [Worker -> Packet] /\ \A v \in Worker \ {w} : out'[v] = out[v]
  BY DEF Base, ThreadTypes
<1>2. ThreadTypes' /\ mConnected' \in [Session -> BOOLEAN]
      /\ mRefCount' \in [Session -> Int] /\ \A v \in Worker : Stands(v)' /\ Due(v)'
  BY <1>1, LeaveThreads
<1>3. SessionTypes' BY <1>2 DEF SessionTypes
<1>4. MainTypes' BY DEF MainTypes, Base
<1> QED BY <1>2, <1>3, <1>4, BasePieces

(* The data when only pending changes, in one entry.                       *)
LEMMA PendingData ==
  ASSUME DataTypes, NEW s \in Session, NEW io \in IO \ {"send"}, NEW n \in Nat,
         \A u \in Session : SendOK(u),
         pending' = [pending EXCEPT ![s][io] = n],
         UNCHANGED <<bufferVars, wire, inbox, issued, testVars>>, DOMAIN link' = Session
  PROVE  DataTypes' /\ \A u \in Session : SendOK(u)'
<1>1. /\ pending' \in [Session -> [IO -> Nat]]
      /\ \A x \in IO \ {io} : pending'[s][x] = pending[s][x]
      /\ \A u \in Session \ {s} : pending'[u] = pending[u]
  BY PendingEntry DEF DataTypes
<1>2. \A u \in Session : pending'[u]["send"] = pending[u]["send"]
  BY <1>1 DEF IO
<1>3. DataTypes' BY <1>1 DEF DataTypes, bufferVars, testVars
<1> QED BY <1>2, <1>3, SendKept

(* ConnectDone keeps Base.                                                 *)
LEMMA ConnectDoneBase ==
  ASSUME Base, NEW w \in Worker, NEW s \in Session, ConnectDone(w, s), UNCHANGED main
  PROVE  Base'
<1> USE DEF Base
<1>1. /\ pending[s]["connect"] - 1 \in Nat /\ "connect" \in IO \ {"send"}
      /\ pending' = [pending EXCEPT ![s]["connect"] = pending[s]["connect"] - 1]
      /\ pc[w] = "idle"
  BY DEF ConnectDone, Dequeued, SessionTypes, DataTypes, IO
<1>2. UNCHANGED <<bufferVars, wire, inbox, issued, testVars, timers, out>>
      /\ DOMAIN link' = Session
  BY DEF ConnectDone, sendVars, SessionTypes, DataTypes
<1>3. DataTypes' /\ \A u \in Session : SendOK(u)'
  BY <1>1, <1>2, PendingData DEF SessionTypes
<1>4. CASE Leave(w, s, "connect", FALSE, 0, timers[w])
  <2>1. 0 \in Int /\ "connect" \in IO /\ "connect" # "none" BY DEF IO
  <2>2. Left(w, s, "connect", 0, timers[w]) BY <1>4, <2>1, LeaveLeft
  <2>3. GoodQueue(timers[w]) /\ timers' = [timers EXCEPT ![w] = timers[w]]
    BY <1>2, LeaveQueue
  <2> HIDE DEF Base
  <2> QED BY <1>2, <1>3, <2>1, <2>2, <2>3, LeaveBase
<1>5. CASE /\ mConnected' = [mConnected EXCEPT ![s] = TRUE]
           /\ pc' = [pc EXCEPT ![w] = "prerecv"]
           /\ who' = [who EXCEPT ![w] = s]
           /\ hand' = [hand EXCEPT ![w] = "connect"]
           /\ UNCHANGED <<mRefCount, lag>>
  <2>1. ThreadTypes'
    BY <1>2, <1>5 DEF ThreadTypes, Labels, IO
  <2>2. SessionTypes'
    BY <1>3, <1>5 DEF SessionTypes
  <2>3. MainTypes' BY DEF MainTypes
  <2>4. ASSUME NEW v \in Worker PROVE Stands(v)' /\ Due(v)'
    <3>1. CASE v = w
      <4>1. /\ pc'[w] = "prerecv" /\ who'[w] = s /\ hand'[w] = "connect"
            /\ timers'[w] = timers[w]
        BY <1>2, <1>5 DEF ThreadTypes
      <4> QED BY <3>1, <4>1 DEF Stands, Due, Testing
    <3>2. CASE v # w
      <4>1. /\ pc'[v] = pc[v] /\ who'[v] = who[v] /\ hand'[v] = hand[v]
            /\ timers'[v] = timers[v] /\ lag'[v] = lag[v] /\ out'[v] = out[v]
        BY <1>2, <1>5, <3>2 DEF ThreadTypes
      <4> QED BY <4>1 DEF Stands, Due, Testing
    <3> QED BY <3>1, <3>2
  <2> QED BY <1>3, <2>1, <2>2, <2>3, <2>4, BasePieces
<1> QED BY <1>4, <1>5 DEF ConnectDone

(* A step of thread w leaves the others where they are.                    *)
SameThread(v) ==
  /\ pc'[v] = pc[v] /\ who'[v] = who[v] /\ hand'[v] = hand[v]
  /\ timers'[v] = timers[v] /\ lag'[v] = lag[v] /\ out'[v] = out[v]

(* A step of thread w leaves the places of the others as they were.        *)
LEMMA OtherThreads ==
  ASSUME Base, NEW w \in Worker, \A v \in Worker \ {w} : SameThread(v),
         Stands(w)', Due(w)'
  PROVE  \A v \in Worker : Stands(v)' /\ Due(v)'
<1> SUFFICES ASSUME NEW v \in Worker, v # w PROVE Stands(v)' /\ Due(v)'
  OBVIOUS
<1>1. SameThread(v) /\ Stands(v) /\ Due(v) BY DEF Base
<1> QED BY <1>1 DEF SameThread, Stands, Due, Testing

(* ConnectPreRecv keeps Base.                                              *)
LEMMA ConnectPreRecvBase ==
  ASSUME Base, NEW w \in Worker, ConnectPreRecv(w), UNCHANGED main
  PROVE  Base'
<1> DEFINE s == who[w]
<1> USE DEF Base
<1>1. s \in Session /\ hand[w] = "connect" /\ pc[w] = "prerecv"
      /\ pending[s]["zero"] \in Nat /\ "zero" \in IO \ {"send"}
  BY DEF ConnectPreRecv, Stands, SessionTypes, DataTypes, IO
<1>2. UNCHANGED <<bufferVars, wire, inbox, issued, testVars, timers, out>>
      /\ DOMAIN link' = Session
  BY DEF ConnectPreRecv, sendVars, netVars, SessionTypes, DataTypes
<1>3. MainTypes' BY DEF MainTypes
<1>4. CASE /\ pending' = [pending EXCEPT ![s]["zero"] = @ + 1]
           /\ mRefCount' = [mRefCount EXCEPT ![s] = @ + 1]
           /\ pc' = [pc EXCEPT ![w] = "login"]
           /\ UNCHANGED <<mConnected, who, hand, lag>>
  <2>1. DataTypes' /\ \A u \in Session : SendOK(u)'
    <3>1. /\ pending[s]["zero"] + 1 \in Nat
          /\ pending' = [pending EXCEPT ![s]["zero"] = pending[s]["zero"] + 1]
      BY <1>1, <1>4
    <3> HIDE DEF s
    <3> QED BY <1>1, <1>2, <3>1, PendingData DEF SessionTypes
  <2>2. mRefCount' \in [Session -> Int]
    BY <1>1, <1>4 DEF SessionTypes
  <2>3. SessionTypes' BY <1>4, <2>1, <2>2 DEF SessionTypes
  <2>4. ThreadTypes' BY <1>2, <1>4 DEF ThreadTypes, Labels
  <2>5. Stands(w)' /\ Due(w)'
    <3>1. pc'[w] = "login" BY <1>4 DEF ThreadTypes
    <3> QED BY <1>1, <1>2, <1>4, <3>1 DEF Stands, Due, Testing
  <2>6. \A v \in Worker \ {w} : SameThread(v)
    BY <1>2, <1>4 DEF SameThread, ThreadTypes
  <2>7. \A v \in Worker : Stands(v)' /\ Due(v)' BY <2>5, <2>6, OtherThreads
  <2> QED BY <1>3, <2>1, <2>3, <2>4, <2>7, BasePieces
<1>5. CASE /\ mConnected' = [mConnected EXCEPT ![s] = FALSE]
           /\ mRefCount' = [mRefCount EXCEPT ![s] = @ - 1]
           /\ pc' = [pc EXCEPT ![w] = LoopOn(timers[w], 0)]
           /\ who' = [who EXCEPT ![w] = NoOne]
           /\ hand' = [hand EXCEPT ![w] = "none"]
           /\ lag' = [lag EXCEPT ![w] = 0]
           /\ UNCHANGED pending
  <2>1. DataTypes' /\ \A u \in Session : SendOK(u)'
    BY <1>2, <1>5, SendKept DEF SessionTypes, DataTypes, bufferVars, testVars
  <2>2. mRefCount' \in [Session -> Int]
    BY <1>1, <1>5 DEF SessionTypes
  <2>3. SessionTypes' BY <1>5, <2>1, <2>2 DEF SessionTypes
  <2>4. ThreadTypes' BY <1>2, <1>5 DEF ThreadTypes, Labels, LoopOn
  <2>5. Stands(w)' /\ Due(w)'
    <3>1. pc'[w] = LoopOn(timers[w], 0) /\ who'[w] = NoOne /\ hand'[w] = "none"
          /\ lag'[w] = 0
      BY <1>5 DEF ThreadTypes
    <3> QED BY <1>2, <3>1 DEF Stands, Due, Testing, LoopOn
  <2>6. \A v \in Worker \ {w} : SameThread(v)
    BY <1>2, <1>5 DEF SameThread, ThreadTypes
  <2>7. \A v \in Worker : Stands(v)' /\ Due(v)' BY <2>5, <2>6, OtherThreads
  <2> QED BY <1>3, <2>1, <2>3, <2>4, <2>7, BasePieces
<1> QED BY <1>4, <1>5 DEF ConnectPreRecv

(* StartTest keeps Base.                                                   *)
LEMMA StartTestBase ==
  ASSUME Base, NEW w \in Worker, StartTest(w), UNCHANGED main
  PROVE  Base'
<1> DEFINE s == who[w]
<1> USE DEF Base
<1>1. s \in Session /\ hand[w] = "connect" /\ "connect" \in IO /\ pc[w] = "login"
  BY DEF StartTest, Stands, IO
<1>2. UNCHANGED <<bufferVars, wire, inbox, issued, testVars, timers, pending, link>>
  BY DEF StartTest, sendVars, netVars
<1>3. DataTypes' /\ \A u \in Session : SendOK(u)'
  BY <1>2, SendKept DEF SessionTypes, DataTypes, bufferVars, testVars
<1>4. CASE /\ out' = [out EXCEPT ![w] = [type |-> "login", id |-> mPlayerSessionId[s]]]
           /\ pc' = [pc EXCEPT ![w] = "post"]
           /\ UNCHANGED <<mConnected, mRefCount, who, hand, lag>>
  <2>1. [type |-> "login", id |-> mPlayerSessionId[s]] \in Packet
    BY <1>1 DEF SessionTypes, DataTypes, Packet, PacketType
  <2>2. ThreadTypes' BY <1>2, <1>4, <2>1 DEF ThreadTypes, Labels
  <2>3. Stands(w)' /\ Due(w)'
    <3>1. pc'[w] = "post" /\ out'[w].type = "login" BY <1>4 DEF ThreadTypes
    <3> QED BY <1>1, <1>2, <1>4, <3>1 DEF Stands, Due, Testing
  <2>4. \A v \in Worker \ {w} : SameThread(v)
    BY <1>2, <1>4 DEF SameThread, ThreadTypes
  <2>5. \A v \in Worker : Stands(v)' /\ Due(v)' BY <2>3, <2>4, OtherThreads
  <2>6. SessionTypes' BY <1>3, <1>4 DEF SessionTypes
  <2>7. MainTypes' BY DEF MainTypes
  <2> QED BY <1>3, <2>2, <2>5, <2>6, <2>7, BasePieces
<1>5. CASE UNCHANGED out /\ Leave(w, s, hand[w], FALSE, 0, timers[w])
  <2>1. 0 \in Int /\ hand[w] \in IO \cup {"none"} /\ hand[w] # "none"
    BY <1>1
  <2> HIDE DEF s
  <2>2. Left(w, s, hand[w], 0, timers[w]) BY <1>1, <1>5, <2>1, LeaveLeft
  <2>3. GoodQueue(timers[w]) /\ timers' = [timers EXCEPT ![w] = timers[w]]
    BY <1>2, LeaveQueue
  <2> HIDE DEF Base
  <2> QED BY <1>1, <1>3, <1>5, <2>1, <2>2, <2>3, LeaveBase
<1> QED BY <1>4, <1>5 DEF StartTest

(* PreRecvDone keeps Base.                                                 *)
LEMMA PreRecvDoneBase ==
  ASSUME Base, NEW w \in Worker, NEW s \in Session, PreRecvDone(w, s), UNCHANGED main
  PROVE  Base'
<1> USE DEF Base
<1>1. PICK ok \in BOOLEAN :
        /\ pending' = [pending EXCEPT ![s]["zero"] = @ - 1,
                                      ![s]["recv"] = @ + One(PostRecv(s, ok))]
        /\ Leave(w, s, "zero", ~PostRecv(s, ok), One(PostRecv(s, ok)), timers[w])
  BY DEF PreRecvDone
<1> DEFINE P == [pending EXCEPT ![s]["zero"] = pending[s]["zero"] - 1]
           d == One(PostRecv(s, ok))
<1>2. pending[s]["zero"] > 0 /\ UNCHANGED <<sendVars, netVars, testVars, timers, issued, out>>
  BY DEF PreRecvDone, Dequeued
<1>3. d \in Int /\ d \in Nat /\ "zero" \in IO /\ "recv" \in IO /\ "zero" # "none"
  BY DEF One, IO
<1>4. pending[s]["zero"] - 1 \in Nat
  BY <1>2, <1>3 DEF SessionTypes, DataTypes
<1>5. /\ P \in [Session -> [IO -> Nat]]
      /\ \A x \in IO \ {"zero"} : P[s][x] = pending[s][x]
      /\ \A u \in Session \ {s} : P[u] = pending[u]
  BY <1>3, <1>4, PendingEntry DEF SessionTypes, DataTypes
<1>6. pending' = [P EXCEPT ![s]["recv"] = P[s]["recv"] + d]
  BY <1>1
<1>7. /\ pending' \in [Session -> [IO -> Nat]]
      /\ \A x \in IO \ {"recv"} : pending'[s][x] = P[s][x]
      /\ \A u \in Session \ {s} : pending'[u] = P[u]
  <2>1. P[s]["recv"] + d \in Nat BY <1>3, <1>5
  <2> HIDE DEF P, d
  <2> QED BY <1>3, <1>5, <1>6, <2>1, PendingEntry
<1>8. \A u \in Session : pending'[u]["send"] = pending[u]["send"]
  <2> HIDE DEF P
  <2> QED BY <1>5, <1>7 DEF IO
<1>9. DataTypes' /\ \A u \in Session : SendOK(u)'
  BY <1>2, <1>7, <1>8, SendKept
     DEF SessionTypes, DataTypes, sendVars, bufferVars, netVars, testVars
<1>10. GoodQueue(timers[w]) /\ timers' = [timers EXCEPT ![w] = timers[w]]
  BY <1>2, LeaveQueue
<1> HIDE DEF d
<1>11. Left(w, s, "zero", d, timers[w])
  BY <1>1, <1>3, LeaveLeft DEF d
<1> HIDE DEF Base
<1> QED BY <1>2, <1>3, <1>9, <1>10, <1>11, LeaveBase

(* The job that is armed for a session.                                    *)
LEMMA TimerJobType ==
  ASSUME Base, NEW w \in Worker, NEW s \in Session
  PROVE  TimerJob(w, s) \in JobOf
BY ClientsAssumption DEF TimerJob, JobOf, Base, ThreadTypes

(* RecvDone keeps Base.                                                    *)
LEMMA RecvDoneBase ==
  ASSUME Base, NEW w \in Worker, NEW s \in Session, RecvDone(w, s), UNCHANGED main
  PROVE  Base'
<1> USE DEF Base
<1>1. PICK k \in 1 .. Len(inbox[s]), ok \in BOOLEAN :
        LET packets == SubSeq(inbox[s], 1, k)
            posted == PreRecv(s, ok)
            q == OnRead(w, s, packets)
        IN
        /\ inbox' = [inbox EXCEPT ![s] = SubSeq(@, k + 1, Len(@))]
        /\ timers' = [timers EXCEPT ![w] = q]
        /\ pending' = [pending EXCEPT ![s]["recv"] = @ - 1,
                                      ![s]["zero"] = @ + One(posted)]
        /\ Leave(w, s, "recv", ~posted, One(posted) + One(HasLogin(packets)), q)
  BY DEF RecvDone
<1> DEFINE packets == SubSeq(inbox[s], 1, k)
           P == [pending EXCEPT ![s]["recv"] = pending[s]["recv"] - 1]
           n == One(PreRecv(s, ok))
           d == n + One(HasLogin(packets))
           q == OnRead(w, s, packets)
<1>2. pending[s]["recv"] > 0 /\ UNCHANGED <<sendVars, link, testVars, issued, out>>
  BY DEF RecvDone, Dequeued
<1>3. d \in Int /\ n \in Nat /\ "zero" \in IO /\ "recv" \in IO /\ "recv" # "none"
  BY DEF One, IO
<1>4. pending[s]["recv"] - 1 \in Nat
  BY <1>2, <1>3 DEF SessionTypes, DataTypes
<1>5. /\ P \in [Session -> [IO -> Nat]]
      /\ \A x \in IO \ {"recv"} : P[s][x] = pending[s][x]
      /\ \A u \in Session \ {s} : P[u] = pending[u]
  BY <1>3, <1>4, PendingEntry DEF SessionTypes, DataTypes
<1>6. pending' = [P EXCEPT ![s]["zero"] = P[s]["zero"] + n]
  BY <1>1
<1>7. /\ pending' \in [Session -> [IO -> Nat]]
      /\ \A x \in IO \ {"zero"} : pending'[s][x] = P[s][x]
      /\ \A u \in Session \ {s} : pending'[u] = P[u]
  <2>1. P[s]["zero"] + n \in Nat BY <1>3, <1>5
  <2> HIDE DEF P, n
  <2> QED BY <1>3, <1>5, <1>6, <2>1, PendingEntry
<1>8. \A u \in Session : pending'[u]["send"] = pending[u]["send"]
  <2> HIDE DEF P
  <2> QED BY <1>5, <1>7 DEF IO
<1>9. inbox' \in [Session -> Seq(PacketType)]
  <2>1. inbox[s] \in Seq(PacketType) BY DEF SessionTypes, DataTypes
  <2>2. SubSeq(inbox[s], k + 1, Len(inbox[s])) \in Seq(PacketType)
    BY <2>1
  <2>3. inbox' = [inbox EXCEPT ![s] = SubSeq(inbox[s], k + 1, Len(inbox[s]))]
    BY <1>1
  <2> QED BY <2>2, <2>3 DEF SessionTypes, DataTypes
<1>10. DataTypes' /\ \A u \in Session : SendOK(u)'
  BY <1>2, <1>7, <1>8, <1>9, SendKept
     DEF SessionTypes, DataTypes, sendVars, bufferVars, testVars
<1>11. timers' = [timers EXCEPT ![w] = q]
  BY <1>1
<1>12. GoodQueue(q)
  <2>1. GoodQueue(timers[w]) BY DEF GoodQueue, ThreadTypes, Due
  <2> QED BY <2>1, TimerJobType, PushElements DEF OnRead
<1> HIDE DEF d, q
<1>13. Left(w, s, "recv", d, q)
  BY <1>1, <1>3, LeaveLeft DEF d, q
<1> HIDE DEF Base
<1> QED BY <1>2, <1>3, <1>10, <1>11, <1>12, <1>13, LeaveBase

(* CompletionError keeps Base.                                             *)
LEMMA CompletionErrorBase ==
  ASSUME Base, NEW w \in Worker, NEW s \in Session, NEW io \in {"recv", "send"},
         CompletionError(w, s, io), UNCHANGED main
  PROVE  Base'
<1> USE DEF Base
<1>1. /\ pending[s][io] > 0 /\ pending' = [pending EXCEPT ![s][io] = pending[s][io] - 1]
      /\ Leave(w, s, io, TRUE, 0, timers[w])
      /\ UNCHANGED <<sendVars, netVars, testVars, timers, issued, out>>
  BY DEF CompletionError, Dequeued
<1>2. 0 \in Int /\ io \in IO /\ io # "none" /\ pending[s][io] - 1 \in Nat
  BY <1>1 DEF IO, SessionTypes, DataTypes
<1>3. /\ pending' \in [Session -> [IO -> Nat]]
      /\ pending'[s][io] = pending[s][io] - 1
      /\ \A x \in IO \ {io} : pending'[s][x] = pending[s][x]
      /\ \A u \in Session \ {s} : pending'[u] = pending[u]
  BY <1>1, <1>2, PendingEntry DEF SessionTypes, DataTypes
<1>4. DataTypes'
  BY <1>1, <1>3 DEF SessionTypes, DataTypes, sendVars, bufferVars, netVars, testVars
<1>5. ASSUME NEW u \in Session PROVE SendOK(u)'
  <2>1. pending'[u]["send"] <= pending[u]["send"] /\ pending'[u]["send"] \in Nat
        /\ pending[u]["send"] \in Nat
    <3>1. pending'[u]["send"] \in Nat /\ pending[u]["send"] \in Nat
      BY <1>3 DEF SessionTypes, DataTypes, IO
    <3>2. CASE u = s /\ io = "send" BY <1>3, <3>1, <3>2
    <3>3. CASE ~(u = s /\ io = "send") BY <1>3, <3>1, <3>3 DEF IO
    <3> QED BY <3>1, <3>2, <3>3
  <2>2. mSendRequestedCount[u] \in Int /\ UNCHANGED bufferVars
    BY <1>1 DEF SessionTypes, DataTypes, sendVars
  <2> QED BY <2>1, <2>2 DEF SendOK, bufferVars
<1>6. GoodQueue(timers[w]) /\ timers' = [timers EXCEPT ![w] = timers[w]]
  BY <1>1, LeaveQueue
<1>7. Left(w, s, io, 0, timers[w]) BY <1>1, <1>2, LeaveLeft
<1> HIDE DEF Base
<1> QED BY <1>1, <1>2, <1>4, <1>5, <1>6, <1>7, LeaveBase

(* DisconnectDone keeps Base.                                              *)
LEMMA DisconnectDoneBase ==
  ASSUME Base, NEW w \in Worker, NEW s \in Session, DisconnectDone(w, s), UNCHANGED main
  PROVE  Base'
<1> USE DEF Base
<1>1. /\ pending[s]["disconnect"] > 0
      /\ pending' = [pending EXCEPT ![s]["disconnect"] = pending[s]["disconnect"] - 1]
      /\ Leave(w, s, "disconnect", FALSE, -1, timers[w])
      /\ UNCHANGED <<sendVars, netVars, testVars, timers, out>>
      /\ issued' = [issued EXCEPT ![s] = FALSE]
  BY DEF DisconnectDone, Dequeued
<1>2. -1 \in Int /\ "disconnect" \in IO /\ "disconnect" # "none"
      /\ pending[s]["disconnect"] - 1 \in Nat
  BY <1>1 DEF IO, SessionTypes, DataTypes
<1>3. /\ pending' \in [Session -> [IO -> Nat]]
      /\ \A x \in IO \ {"disconnect"} : pending'[s][x] = pending[s][x]
      /\ \A u \in Session \ {s} : pending'[u] = pending[u]
  BY <1>1, <1>2, PendingEntry DEF SessionTypes, DataTypes
<1>4. DataTypes'
  <2>1. issued' \in [Session -> BOOLEAN] BY <1>1 DEF SessionTypes, DataTypes
  <2> QED BY <1>1, <1>3, <2>1
          DEF SessionTypes, DataTypes, sendVars, bufferVars, netVars, testVars
<1>5. \A u \in Session : SendOK(u)'
  <2>1. \A u \in Session : pending'[u]["send"] = pending[u]["send"]
    BY <1>3 DEF IO
  <2> QED BY <1>1, <2>1, SendKept DEF sendVars
<1>6. GoodQueue(timers[w]) /\ timers' = [timers EXCEPT ![w] = timers[w]]
  BY <1>1, LeaveQueue
<1>7. Left(w, s, "disconnect", -1, timers[w]) BY <1>1, <1>2, LeaveLeft
<1> HIDE DEF Base
<1> QED BY <1>1, <1>2, <1>4, <1>5, <1>6, <1>7, LeaveBase

(* SendDone keeps Base.                                                    *)
LEMMA SendDoneBase ==
  ASSUME Base, NEW w \in Worker, NEW s \in Session, SendDone(w, s), UNCHANGED main
  PROVE  Base'
<1> USE DEF Base
<1>1. PICK sent \in {inflight[s], inflight[s] - 1} :
       LET rest == SubSeq(mSendBuffer[s], sent + 1, Len(mSendBuffer[s]))
           partial == sent < inflight[s]
           before == [count |-> mSendRequestedCount[s] - 1,
                      kernel |-> pending[s]["send"] - 1,
                      wire |-> IF partial THEN Front(wire[s]) ELSE wire[s]]
       IN
       /\ partial => wire[s] # <<>>
       /\ \/ /\ rest = <<>>
             /\ mSendBuffer' = [mSendBuffer EXCEPT ![s] = rest]
             /\ mSendRequestedCount' =
                  [mSendRequestedCount EXCEPT ![s] = before.count]
             /\ inflight' = [inflight EXCEPT ![s] = 0]
             /\ pending' = [pending EXCEPT ![s]["send"] = before.kernel]
             /\ UNCHANGED wire
             /\ Leave(w, s, "send", FALSE, 0, timers[w])
          \/ /\ rest # <<>>
             /\ \E ok \in BOOLEAN :
                  /\ FlushSend(s, rest, ok, before)
                  /\ Leave(w, s, "send", ~ok \/ partial, One(ok), timers[w])
  BY DEF SendDone
<1> DEFINE rest == SubSeq(mSendBuffer[s], sent + 1, Len(mSendBuffer[s]))
           partial == sent < inflight[s]
           before == [count |-> mSendRequestedCount[s] - 1,
                      kernel |-> pending[s]["send"] - 1,
                      wire |-> IF partial THEN Front(wire[s]) ELSE wire[s]]
<1>2. /\ pending[s]["send"] = 1 /\ mSendRequestedCount[s] - 1 \in Nat
      /\ inflight[s] \in Nat /\ inflight[s] > 0
      /\ UNCHANGED <<netVars, testVars, timers, issued, out>>
  BY DEF SendDone, Dequeued, SendOK, SessionTypes, DataTypes, IO
<1>3. /\ mSendBuffer[s] \in Seq(Packet) /\ wire[s] \in Seq(Packet) /\ sent \in Nat
  BY <1>2 DEF SessionTypes, DataTypes
<1>4. rest \in Seq(Packet)
  BY <1>3
<1>5. before.count \in Nat /\ before.kernel = 0 /\ before.wire \in Seq(Packet)
  <2>1. wire[s] # <<>> => Front(wire[s]) \in Seq(Packet)
    BY <1>3 DEF Front
  <2> QED BY <1>1, <1>2, <1>3, <2>1
<1>6. GoodQueue(timers[w]) /\ timers' = [timers EXCEPT ![w] = timers[w]]
  BY <1>2, LeaveQueue
<1>7. 0 \in Int /\ "send" \in IO /\ "send" # "none" BY DEF IO
<1>8. CASE /\ rest = <<>>
           /\ mSendBuffer' = [mSendBuffer EXCEPT ![s] = rest]
           /\ mSendRequestedCount' = [mSendRequestedCount EXCEPT ![s] = before.count]
           /\ inflight' = [inflight EXCEPT ![s] = 0]
           /\ pending' = [pending EXCEPT ![s]["send"] = before.kernel]
           /\ UNCHANGED wire
           /\ Leave(w, s, "send", FALSE, 0, timers[w])
  <2>1. /\ mSendBuffer' \in [Session -> Seq(Packet)]
        /\ mSendRequestedCount' \in [Session -> Int] /\ inflight' \in [Session -> Nat]
    BY <1>4, <1>5, <1>8 DEF SessionTypes, DataTypes
  <2>2. /\ pending' \in [Session -> [IO -> Nat]] /\ pending'[s]["send"] = 0
        /\ \A u \in Session \ {s} : pending'[u] = pending[u]
    <3>1. 0 \in Nat /\ pending' = [pending EXCEPT ![s]["send"] = 0]
      BY <1>5, <1>8
    <3> QED BY <1>7, <3>1, PendingEntry DEF SessionTypes, DataTypes
  <2>3. DataTypes'
    BY <1>2, <1>8, <2>1, <2>2 DEF SessionTypes, DataTypes, netVars, testVars
  <2>4. ASSUME NEW u \in Session PROVE SendOK(u)'
    <3>1. CASE u = s
      <4>1. mSendRequestedCount'[s] \in Nat BY <1>5, <1>8 DEF SessionTypes, DataTypes
      <4> QED BY <2>2, <3>1, <4>1 DEF SendOK
    <3>2. CASE u # s
      <4>1. /\ pending'[u]["send"] = pending[u]["send"] /\ inflight'[u] = inflight[u]
            /\ mSendRequestedCount'[u] = mSendRequestedCount[u]
            /\ mSendBuffer'[u] = mSendBuffer[u]
        BY <1>8, <2>2, <3>2 DEF SessionTypes, DataTypes
      <4> QED BY <4>1 DEF SendOK
    <3> QED BY <3>1, <3>2
  <2>5. Left(w, s, "send", 0, timers[w]) BY <1>7, <1>8, LeaveLeft
  <2> HIDE DEF Base
  <2> QED BY <1>2, <1>6, <1>7, <2>3, <2>4, <2>5, LeaveBase
<1>9. CASE /\ rest # <<>>
           /\ \E ok \in BOOLEAN :
                /\ FlushSend(s, rest, ok, before)
                /\ Leave(w, s, "send", ~ok \/ partial, One(ok), timers[w])
  <2>1. PICK ok \in BOOLEAN :
          /\ FlushSend(s, rest, ok, before)
          /\ Leave(w, s, "send", ~ok \/ partial, One(ok), timers[w])
    BY <1>9
  <2> HIDE DEF before, rest, partial
  <2>2. /\ mSendBuffer' \in [Session -> Seq(Packet)]
        /\ mSendRequestedCount' \in [Session -> Int]
        /\ inflight' \in [Session -> Nat]
        /\ wire' \in [Session -> Seq(Packet)]
        /\ pending' \in [Session -> [IO -> Nat]]
        /\ \A u \in Session : SendOK(u)'
    BY <1>4, <1>5, <1>9, <2>1, FlushSendBase
  <2>3. DataTypes'
    BY <1>2, <2>2 DEF SessionTypes, DataTypes, netVars, testVars
  <2>4. One(ok) \in Int BY DEF One
  <2>5. Left(w, s, "send", One(ok), timers[w]) BY <1>7, <2>1, <2>4, LeaveLeft
  <2> HIDE DEF Base
  <2> QED BY <1>2, <1>6, <1>7, <2>2, <2>3, <2>4, <2>5, LeaveBase
<1> QED BY <1>1, <1>8, <1>9

(* A step of thread w that leaves the sessions' data alone.                *)
LEMMA ThreadBase ==
  ASSUME Base, NEW w \in Worker, ThreadTypes', SessionTypes',
         UNCHANGED <<main, bufferVars, pending>>,
         \A v \in Worker \ {w} : SameThread(v), Stands(w)', Due(w)'
  PROVE  Base'
<1>1. \A v \in Worker : Stands(v)' /\ Due(v)' BY OtherThreads
<1>2. \A u \in Session : SendOK(u)' BY SendKept DEF Base
<1>3. MainTypes' BY DEF Base, MainTypes
<1> QED BY <1>1, <1>2, <1>3, BasePieces

(* StopNow keeps Base.                                                     *)
LEMMA StopNowBase ==
  ASSUME Base, NEW w \in Worker, StopNow(w), UNCHANGED main
  PROVE  Base'
<1> USE DEF Base
<1>1. /\ pc[w] = "idle" /\ pc' = [pc EXCEPT ![w] = "stopped"]
      /\ UNCHANGED <<mConnected, mRefCount, who, hand, sendVars, netVars, testVars,
                     clockVars, issued, pending, out>>
  BY DEF StopNow
<1>2. ThreadTypes' BY <1>1 DEF ThreadTypes, Labels, clockVars
<1>3. SessionTypes'
  BY <1>1 DEF SessionTypes, DataTypes, sendVars, bufferVars, netVars, testVars
<1>4. \A v \in Worker \ {w} : SameThread(v)
  BY <1>1 DEF SameThread, ThreadTypes, clockVars
<1>5. Stands(w)' /\ Due(w)'
  <2>1. pc'[w] = "stopped" /\ Stands(w) /\ Due(w) BY <1>1 DEF ThreadTypes
  <2> QED BY <1>1, <2>1 DEF Stands, Due, Testing, clockVars
<1> HIDE DEF Base
<1> QED BY <1>1, <1>2, <1>3, <1>4, <1>5, ThreadBase DEF sendVars

(* WaitTimeout keeps Base.                                                 *)
LEMMA WaitTimeoutBase ==
  ASSUME Base, NEW w \in Worker, WaitTimeout(w), UNCHANGED main
  PROVE  Base'
<1> USE DEF Base
<1>1. /\ pc[w] = "idle" /\ pc' = [pc EXCEPT ![w] = LoopOn(timers[w], 0)]
      /\ lag' = [lag EXCEPT ![w] = 0]
      /\ UNCHANGED <<mConnected, mRefCount, who, hand, sendVars, netVars, testVars,
                     timers, issued, pending, out>>
  BY DEF WaitTimeout
<1>2. ThreadTypes' BY <1>1 DEF ThreadTypes, Labels, LoopOn
<1>3. SessionTypes'
  BY <1>1 DEF SessionTypes, DataTypes, sendVars, bufferVars, netVars, testVars
<1>4. \A v \in Worker \ {w} : SameThread(v)
  BY <1>1 DEF SameThread, ThreadTypes
<1>5. Stands(w)' /\ Due(w)'
  <2>1. pc'[w] = LoopOn(timers[w], 0) /\ lag'[w] = 0 /\ Stands(w) /\ Due(w)
    BY <1>1 DEF ThreadTypes
  <2> QED BY <1>1, <2>1 DEF Stands, Due, Testing, LoopOn
<1> HIDE DEF Base
<1> QED BY <1>1, <1>2, <1>3, <1>4, <1>5, ThreadBase DEF sendVars

(* The request that PlayTest makes: a move has the session's index, a chat *)
(* and an exit have its id.                                                *)
LEMMA PlayTestMakes ==
  ASSUME Base, NEW w \in Worker, PlayTest(w), NEW s \in Session, s = timers[w].top.owner
  PROVE  \/ /\ pc' = [pc EXCEPT ![w] = "post"]
            /\ \E ty \in {"chat", "move", "exit"}, x \in BOOLEAN :
                 /\ out' = [out EXCEPT ![w] = [type |-> ty, id |-> x]]
                 /\ x = IF ty = "move" THEN mPlayerIdx[s] ELSE mPlayerSessionId[s]
         \/ pc' = [pc EXCEPT ![w] = "after"] /\ UNCHANGED out
<1>1. mPlayerSessionId[s] \in BOOLEAN /\ mPlayerIdx[s] \in BOOLEAN
  BY DEF Base, SessionTypes, DataTypes
<1>2. CASE mConnected[s]
  <2> DEFINE last == mPlayTestCount[s] + 1 = PLAYER_ACTION_REQUEST
             requests ==
               IF last THEN {[type |-> "exit", id |-> mPlayerSessionId[s]]}
               ELSE {[type |-> "chat", id |-> mPlayerSessionId[s]],
                     [type |-> "move", id |-> mPlayerIdx[s]]}
  <2>1. /\ pc' = [pc EXCEPT ![w] = "post"]
        /\ \E p \in requests : out' = [out EXCEPT ![w] = p]
    BY <1>2 DEF PlayTest
  <2>2. PICK p \in requests : out' = [out EXCEPT ![w] = p] BY <2>1
  <2>3. \/ p = [type |-> "exit", id |-> mPlayerSessionId[s]]
        \/ p = [type |-> "chat", id |-> mPlayerSessionId[s]]
        \/ p = [type |-> "move", id |-> mPlayerIdx[s]]
    OBVIOUS
  <2>4. \E ty \in {"chat", "move", "exit"}, x \in BOOLEAN :
          /\ p = [type |-> ty, id |-> x]
          /\ x = IF ty = "move" THEN mPlayerIdx[s] ELSE mPlayerSessionId[s]
    BY <1>1, <2>3
  <2> QED BY <2>1, <2>2, <2>4
<1>3. CASE ~mConnected[s] BY <1>3 DEF PlayTest
<1> QED BY <1>2, <1>3


(* PlayTest keeps Base.                                                    *)
LEMMA PlayTestBase ==
  ASSUME Base, NEW w \in Worker, PlayTest(w), UNCHANGED main
  PROVE  Base' /\ timers[w].top.owner \in Session /\ timers[w].top \in Elements(timers[w])
<1> DEFINE s == timers[w].top.owner
<1> USE DEF Base
<1>1. /\ pc[w] = "loop" /\ hand[w] = "none"
      /\ mRefCount' = [mRefCount EXCEPT ![s] = @ + 1]
      /\ mPlayTestCount' = [mPlayTestCount EXCEPT ![s] = @ + 1]
      /\ who' = [who EXCEPT ![w] = s]
      /\ UNCHANGED <<mConnected, hand, sendVars, netVars, mPlayerSessionId, mPlayerIdx,
                     clockVars, issued, pending>>
  BY DEF PlayTest, Stands
<1>2. s \in Session /\ timers[w].top \in Elements(timers[w])
      /\ timers[w].top.due <= -lag[w] /\ ~IsEmpty(timers[w])
  BY <1>1 DEF Due, ThreadTypes, Queue, IsEmpty, JobOf, Elements
<1>3. \/ /\ pc' = [pc EXCEPT ![w] = "post"]
         /\ \E ty \in {"chat", "move", "exit"}, x \in BOOLEAN :
              out' = [out EXCEPT ![w] = [type |-> ty, id |-> x]]
      \/ pc' = [pc EXCEPT ![w] = "after"] /\ UNCHANGED out
  BY <1>2, PlayTestMakes
<1>4. ThreadTypes'
  <2>1. pc' \in [Worker -> Labels] BY <1>3 DEF ThreadTypes, Labels
  <2>2. out' \in [Worker -> Packet]
    <3>1. CASE UNCHANGED out BY <3>1 DEF ThreadTypes
    <3>2. ASSUME NEW ty \in {"chat", "move", "exit"}, NEW x \in BOOLEAN,
                 out' = [out EXCEPT ![w] = [type |-> ty, id |-> x]]
          PROVE  out' \in [Worker -> Packet]
      <4>1. [type |-> ty, id |-> x] \in Packet
        BY DEF Packet, PacketType
      <4> QED BY <3>2, <4>1 DEF ThreadTypes
    <3> QED BY <1>3, <3>1, <3>2
  <2>3. who' \in [Worker -> Session \cup {NoOne}] BY <1>1, <1>2 DEF ThreadTypes
  <2> QED BY <1>1, <2>1, <2>2, <2>3 DEF ThreadTypes, clockVars
<1>5. SessionTypes'
  <2>1. mRefCount' \in [Session -> Int] BY <1>1, <1>2 DEF SessionTypes
  <2>2. mPlayTestCount' \in [Session -> Nat] BY <1>1, <1>2 DEF SessionTypes, DataTypes
  <2> QED BY <1>1, <2>1, <2>2
          DEF SessionTypes, DataTypes, sendVars, bufferVars, netVars
<1>6. \A v \in Worker \ {w} : SameThread(v)
  <2>1. \A v \in Worker \ {w} : out'[v] = out[v] /\ pc'[v] = pc[v]
    BY <1>3 DEF ThreadTypes
  <2> QED BY <1>1, <2>1 DEF SameThread, ThreadTypes, clockVars
<1>7. Stands(w)' /\ Due(w)'
  <2>1. who'[w] = s /\ hand'[w] = "none" /\ timers'[w] = timers[w] /\ lag'[w] = lag[w]
    BY <1>1 DEF ThreadTypes, clockVars
  <2>2. \/ pc'[w] = "post" /\ out'[w].type \in {"chat", "move", "exit"}
        \/ pc'[w] = "after"
    BY <1>3 DEF ThreadTypes
  <2> QED BY <1>2, <2>1, <2>2 DEF Stands, Due, Testing
<1> HIDE DEF Base
<1>8. Base' BY <1>1, <1>4, <1>5, <1>6, <1>7, ThreadBase DEF sendVars
<1> QED BY <1>2, <1>8

(* PlayTestDone keeps Base.                                                *)
LEMMA PlayTestDoneBase ==
  ASSUME Base, NEW w \in Worker, PlayTestDone(w), UNCHANGED main
  PROVE  Base'
<1> DEFINE s == who[w]
           again == mPlayTestCount[s] # PLAYER_ACTION_REQUEST
           q == IF again THEN Push(timers[w], TimerJob(w, s)) ELSE timers[w]
<1> USE DEF Base
<1>1. pc[w] = "after" /\ hand[w] = "none" /\ s \in Session
  BY DEF PlayTestDone, Stands
<1>2. PICK r \in Pop(q) : /\ timers' = [timers EXCEPT ![w] = r]
                          /\ pc' = [pc EXCEPT ![w] = LoopOn(r, -lag[w])]
  BY DEF PlayTestDone
<1>3. /\ mRefCount' = [mRefCount EXCEPT ![s] = @ + One(again) - 2]
      /\ who' = [who EXCEPT ![w] = NoOne]
      /\ UNCHANGED <<mConnected, hand, sendVars, netVars, testVars, lag, issued,
                     pending, out>>
  BY DEF PlayTestDone
<1>4. GoodQueue(r)
  <2>1. GoodQueue(timers[w]) BY DEF GoodQueue, ThreadTypes, Due
  <2>2. GoodQueue(q) BY <1>1, <2>1, TimerJobType, PushElements
  <2> HIDE DEF q
  <2> QED BY <1>2, <2>2, PopGood
<1>5. ThreadTypes'
  <2>1. timers' \in [Worker -> Queue] BY <1>2, <1>4 DEF ThreadTypes, GoodQueue
  <2>2. pc' \in [Worker -> Labels] BY <1>2 DEF ThreadTypes, Labels, LoopOn
  <2> QED BY <1>3, <2>1, <2>2 DEF ThreadTypes
<1>6. SessionTypes'
  <2>1. mRefCount' \in [Session -> Int] BY <1>1, <1>3 DEF SessionTypes, One
  <2> QED BY <1>3, <2>1
          DEF SessionTypes, DataTypes, sendVars, bufferVars, netVars, testVars
<1>7. \A v \in Worker \ {w} : SameThread(v)
  BY <1>2, <1>3 DEF SameThread, ThreadTypes
<1>8. Stands(w)' /\ Due(w)'
  <2>1. /\ pc'[w] = LoopOn(r, -lag[w]) /\ timers'[w] = r /\ who'[w] = NoOne
        /\ hand'[w] = "none" /\ lag'[w] = lag[w]
    BY <1>1, <1>2, <1>3 DEF ThreadTypes
  <2> QED BY <1>4, <2>1 DEF Stands, Due, Testing, LoopOn, GoodQueue
<1> HIDE DEF Base
<1> QED BY <1>3, <1>5, <1>6, <1>7, <1>8, ThreadBase DEF sendVars

(* Tick keeps Base.                                                        *)
LEMMA TickBase ==
  ASSUME Base, Tick, UNCHANGED main
  PROVE  Base'
<1> USE DEF Base
<1>1. /\ lag' = [w \in Worker |-> IF Running(w) THEN lag[w] + 1 ELSE lag[w]]
      /\ timers' = [w \in Worker |->
                      IF Running(w) THEN TickPassed(timers[w]) ELSE timers[w]]
      /\ UNCHANGED <<handlerVars, sendVars, netVars, testVars, issued, pending, out>>
  BY DEF Tick
<1>2. \A w \in Worker : GoodQueue(timers[w])
  BY DEF GoodQueue, ThreadTypes, Due
<1>3. \A w \in Worker : GoodQueue(timers'[w])
  BY <1>1, <1>2, TickElements
<1>4. ThreadTypes'
  <2>1. timers' \in [Worker -> Queue] BY <1>1, <1>3 DEF GoodQueue
  <2>2. lag' \in [Worker -> Int] BY <1>1 DEF ThreadTypes
  <2> QED BY <1>1, <2>1, <2>2 DEF ThreadTypes, handlerVars
<1>5. SessionTypes'
  BY <1>1 DEF SessionTypes, DataTypes, handlerVars, sendVars, bufferVars, netVars, testVars
<1>6. MainTypes' BY DEF MainTypes
<1>7. \A u \in Session : SendOK(u)'
  BY <1>1, SendKept DEF sendVars
<1>8. ASSUME NEW w \in Worker PROVE Stands(w)' /\ Due(w)'
  <2>1. Stands(w) /\ Due(w) /\ pc'[w] = pc[w] /\ who'[w] = who[w] /\ hand'[w] = hand[w]
        /\ out'[w] = out[w]
    BY <1>1 DEF handlerVars
  <2>2. Stands(w)' BY <2>1 DEF Stands
  <2>3. CASE ~Running(w)
    <3>1. timers'[w] = timers[w] BY <1>1, <2>3
    <3> QED BY <2>1, <2>2, <2>3, <3>1 DEF Due, Testing, Running
  <2>4. CASE Running(w)
    <3>1. timers'[w] = TickPassed(timers[w]) /\ lag'[w] = lag[w] + 1 /\ lag[w] \in Int
      BY <1>1, <2>4 DEF ThreadTypes
    <3>2. /\ IsEmpty(timers'[w]) => timers'[w].rest = {}
          /\ IsEmpty(timers'[w]) <=> IsEmpty(timers[w])
          /\ ~IsEmpty(timers[w]) => timers'[w].top = Sooner(timers[w].top)
      BY <1>2, <3>1, TickElements DEF GoodQueue
    <3>3. ~IsEmpty(timers[w]) =>
            /\ timers[w].top.due \in Int
            /\ timers'[w].top.due = timers[w].top.due - 1
            /\ timers'[w].top.owner = timers[w].top.owner
      BY <3>2 DEF Sooner, ThreadTypes, Queue, JobOf, IsEmpty
    <3> QED BY <2>1, <2>2, <3>1, <3>2, <3>3 DEF Due, Testing
  <2> QED BY <2>3, <2>4
<1> QED BY <1>4, <1>5, <1>6, <1>7, <1>8, BasePieces

(* A step that leaves the threads and the sends alone.                     *)
LEMMA OutsideBase ==
  ASSUME Base, UNCHANGED <<pc, who, hand, out, clockVars, bufferVars>>,
         \A u \in Session : pending'[u]["send"] = pending[u]["send"],
         SessionTypes', MainTypes'
  PROVE  Base'
<1> USE DEF Base
<1>1. ThreadTypes' BY DEF ThreadTypes, clockVars
<1>2. \A w \in Worker : Stands(w)' /\ Due(w)'
  BY DEF Stands, Due, Testing, clockVars
<1>3. \A u \in Session : SendOK(u)' BY SendKept
<1> QED BY <1>1, <1>2, <1>3, BasePieces

(* Network keeps Base.                                                     *)
LEMMA NetworkBase ==
  ASSUME Base, NEW s \in Session, ServerReads(s) \/ Cut(s), UNCHANGED main
  PROVE  Base'
<1> USE DEF Base
<1>1. UNCHANGED <<handlerVars, bufferVars, testVars, clockVars, issued, pending, out>>
  BY DEF ServerReads, Cut
<1>2. wire[s] \in Seq(Packet) /\ inbox[s] \in Seq(PacketType)
  BY DEF SessionTypes, DataTypes
<1>3. /\ wire' \in [Session -> Seq(Packet)]
      /\ inbox' \in [Session -> Seq(PacketType)]
      /\ DOMAIN link' = Session
  <2>1. CASE Break(s) /\ UNCHANGED inbox
    BY <2>1 DEF Break, SessionTypes, DataTypes
  <2>2. CASE /\ wire[s] # <<>>
             /\ inbox' = [inbox EXCEPT ![s] = Append(@, Head(wire[s]).type)]
             /\ wire' = [wire EXCEPT ![s] = Tail(@)]
             /\ UNCHANGED link
    <3>1. Head(wire[s]) \in Packet /\ Tail(wire[s]) \in Seq(Packet) BY <1>2, <2>2
    <3>2. Head(wire[s]).type \in PacketType BY <3>1 DEF Packet
    <3>3. Append(inbox[s], Head(wire[s]).type) \in Seq(PacketType)
      BY <1>2, <3>2
    <3> QED BY <2>2, <3>1, <3>3 DEF SessionTypes, DataTypes
  <2> QED BY <2>1, <2>2 DEF ServerReads, Cut
<1>4. SessionTypes'
  BY <1>1, <1>3 DEF SessionTypes, DataTypes, handlerVars, bufferVars, testVars
<1>5. MainTypes' BY DEF MainTypes
<1> HIDE DEF Base
<1> QED BY <1>1, <1>4, <1>5, OutsideBase DEF handlerVars

(* Going on to the next game session keeps the types of main.              *)
LEMMA NextGameTypes ==
  ASSUME MainTypes, NextGame
  PROVE  MainTypes'
<1>1. 1 \in 1 .. Games /\ 1 \in 1 .. PerGame + 1 /\ 1 <= PerGame
  BY ClientsAssumption
<1>2. CASE main.g = Games
  BY <1>1, <1>2 DEF NextGame, MainTypes, MainAts, MainAt
<1>3. CASE main.g # Games
  <2>1. main' = [main EXCEPT !.pc = "launch", !.g = @ + 1, !.i = 1]
    BY <1>3 DEF NextGame
  <2>2. main.g + 1 \in 1 .. Games BY <1>3, ClientsAssumption DEF MainTypes
  <2> QED BY <1>1, <2>1, <2>2 DEF MainTypes, MainAts
<1> QED BY <1>2, <1>3

(* Going to another place keeps the types of main.                         *)
LEMMA GoTypes ==
  ASSUME MainTypes, NEW p \in MainAts, Go(p),
         p \in {"store", "storeIdx", "wait", "terminate", "close"} => main.i <= PerGame
  PROVE  MainTypes'
BY DEF MainTypes, Go

(* The main thread's steps that only wait for the service.                 *)
LEMMA LaunchTypes ==
  ASSUME MainTypes,
         \/ PrepareGameSessions \/ CreateGameSession \/ DescribeGameSessions
         \/ StartGameSessionPlacement \/ CheckGameSessionPlacement
         \/ CreatePlayerSessions \/ ConnectEnds
  PROVE  MainTypes'
<1>1. ASSUME NEW p \in {"describe", "players", "placement", "connect", "undefined"}, Go(p)
      PROVE  MainTypes'
  BY <1>1, GoTypes DEF MainAts
<1>2. CASE PrepareGameSessions
  <2>1. PICK b \in BOOLEAN : main' = [MainAt("launch", 1, 1) EXCEPT !.queue = b]
    BY <1>2 DEF PrepareGameSessions
  <2> QED BY <2>1, ClientsAssumption DEF MainTypes, MainAts, MainAt
<1>3. CASE CreateGameSession
  BY <1>1, <1>3, NextGameTypes DEF CreateGameSession
<1>4. CASE DescribeGameSessions
  BY <1>1, <1>4, NextGameTypes DEF DescribeGameSessions, Polled
<1>5. CASE StartGameSessionPlacement
  BY <1>1, <1>5, NextGameTypes DEF StartGameSessionPlacement
<1>6. CASE CheckGameSessionPlacement
  BY <1>1, <1>6, NextGameTypes DEF CheckGameSessionPlacement, Polled
<1>7. CASE CreatePlayerSessions
  BY <1>1, <1>7, NextGameTypes DEF CreatePlayerSessions
<1>8. CASE ConnectEnds
  BY <1>1, <1>8, NextGameTypes DEF ConnectEnds
<1> QED BY <1>2, <1>3, <1>4, <1>5, <1>6, <1>7, <1>8

(* The session the main thread works for.                                  *)
LEMMA CurrentType ==
  ASSUME MainTypes, main.i <= PerGame
  PROVE  Current \in Session
<1>1. main.g \in 1 .. Games /\ main.i \in 1 .. PerGame
  BY ClientsAssumption DEF MainTypes
<1> QED BY <1>1, ClientsAssumption DEF Current

(* A step of main that touches no session keeps Base.                      *)
LEMMA KeepsSessions ==
  ASSUME Base, UNCHANGED sessionVars, MainTypes'
  PROVE  Base'
<1>1. SessionTypes'
  BY DEF Base, SessionTypes, DataTypes, sessionVars, handlerVars, sendVars, bufferVars,
         netVars, testVars
<1> QED BY <1>1, OutsideBase DEF sessionVars, handlerVars, sendVars

(* Launch keeps Base.                                                      *)
LEMMA LaunchBase ==
  ASSUME Base, Launch
  PROVE  Base'
<1> USE DEF Base
<1>1. CASE \/ PrepareGameSessions \/ CreateGameSession \/ DescribeGameSessions
           \/ StartGameSessionPlacement \/ CheckGameSessionPlacement
           \/ CreatePlayerSessions \/ ConnectEnds
  <2>1. MainTypes' BY <1>1, LaunchTypes
  <2>2. UNCHANGED sessionVars
    BY <1>1 DEF PrepareGameSessions, CreateGameSession, DescribeGameSessions,
                StartGameSessionPlacement, CheckGameSessionPlacement,
                CreatePlayerSessions, ConnectEnds
  <2> HIDE DEF Base
  <2> QED BY <2>1, <2>2, KeepsSessions
<1>2. CASE ConnectRequest
  <2> DEFINE s == Current
  <2>1. s \in Session BY <1>2, CurrentType DEF ConnectRequest
  <2>2. PICK ok \in BOOLEAN :
          /\ pending' = [pending EXCEPT ![s]["connect"] = @ + One(ok)]
          /\ mRefCount' = [mRefCount EXCEPT ![s] = @ + 1 + One(ok)]
    BY <1>2 DEF ConnectRequest
  <2>3. /\ issued' = [issued EXCEPT ![s] = TRUE]
        /\ UNCHANGED <<mConnected, pc, who, hand, sendVars, netVars, testVars, clockVars,
                       out>>
        /\ Go("store") /\ main.i <= PerGame
    BY <1>2 DEF ConnectRequest
  <2>4. MainTypes' BY <2>3, GoTypes DEF MainAts
  <2> HIDE DEF s
  <2>5. /\ pending' \in [Session -> [IO -> Nat]]
        /\ \A x \in IO \ {"connect"} : pending'[s][x] = pending[s][x]
        /\ \A u \in Session \ {s} : pending'[u] = pending[u]
    <3>1. "connect" \in IO /\ pending[s]["connect"] + One(ok) \in Nat
      BY <2>1 DEF SessionTypes, DataTypes, One, IO
    <3>2. pending' = [pending EXCEPT ![s]["connect"] = pending[s]["connect"] + One(ok)]
      BY <2>2
    <3> QED BY <2>1, <3>1, <3>2, PendingEntry DEF SessionTypes, DataTypes
  <2>6. mRefCount' \in [Session -> Int] /\ issued' \in [Session -> BOOLEAN]
    <3>1. mRefCount' \in [Session -> Int] BY <2>1, <2>2 DEF SessionTypes, One
    <3>2. issued' \in [Session -> BOOLEAN] BY <2>1, <2>3 DEF SessionTypes, DataTypes
    <3> QED BY <3>1, <3>2
  <2>7. SessionTypes'
    BY <2>3, <2>5, <2>6 DEF SessionTypes, DataTypes, sendVars, bufferVars, netVars, testVars
  <2>8. \A u \in Session : pending'[u]["send"] = pending[u]["send"]
    BY <2>5 DEF IO
  <2> HIDE DEF Base
  <2> QED BY <2>3, <2>4, <2>7, <2>8, OutsideBase DEF sendVars
<1>3. CASE StorePlayerSessionId
  <2>1. MainTypes'
    <3>1. main.pc = "store" /\ Go("storeIdx") BY <1>3 DEF StorePlayerSessionId
    <3>2. main.i <= PerGame BY <3>1 DEF MainTypes
    <3> QED BY <3>1, <3>2, GoTypes DEF MainAts
  <2>2. UNCHANGED <<handlerVars, sendVars, netVars, mPlayTestCount, mPlayerIdx, clockVars,
                    issued, pending, out>>
    BY <1>3 DEF StorePlayerSessionId
  <2>3. mPlayerSessionId' \in [Session -> BOOLEAN]
    BY <1>3 DEF StorePlayerSessionId, SessionTypes, DataTypes
  <2>4. SessionTypes'
    BY <2>2, <2>3 DEF SessionTypes, DataTypes, handlerVars, sendVars, bufferVars, netVars
  <2> HIDE DEF Base
  <2> QED BY <2>1, <2>2, <2>4, OutsideBase DEF handlerVars, sendVars
<1>4. CASE StorePlayerIdx
  <2>1. MainTypes'
    <3>1. main.pc = "storeIdx" /\ main' = [main EXCEPT !.pc = "connect", !.i = @ + 1]
      BY <1>4 DEF StorePlayerIdx
    <3>2. main.i \in 1 .. PerGame BY <3>1 DEF MainTypes
    <3>3. main.i + 1 \in 1 .. PerGame + 1 BY <3>2, ClientsAssumption
    <3> QED BY <3>1, <3>3 DEF MainTypes, MainAts
  <2>2. UNCHANGED <<handlerVars, sendVars, netVars, mPlayTestCount, mPlayerSessionId,
                    clockVars, issued, pending, out>>
    BY <1>4 DEF StorePlayerIdx
  <2>3. mPlayerIdx' \in [Session -> BOOLEAN]
    BY <1>4 DEF StorePlayerIdx, SessionTypes, DataTypes
  <2>4. SessionTypes'
    BY <2>2, <2>3 DEF SessionTypes, DataTypes, handlerVars, sendVars, bufferVars, netVars
  <2> HIDE DEF Base
  <2> QED BY <2>1, <2>2, <2>4, OutsideBase DEF handlerVars, sendVars
<1> QED BY <1>1, <1>2, <1>3, <1>4 DEF Launch

(* Shutdown keeps Base.                                                    *)
LEMMA ShutdownBase ==
  ASSUME Base, Shutdown
  PROVE  Base'
<1> USE DEF Base
<1>1. CASE TerminateGameSessions
  <2> DEFINE s == Current
             here == main.i <= ready[main.g]
             last == main.g = Games /\ main.i = PerGame
  <2>1. /\ main.i <= PerGame
        /\ mConnected' = [mConnected EXCEPT ![s] = @ /\ ~here]
        /\ UNCHANGED <<mRefCount, pc, who, hand, sendVars, netVars, testVars, clockVars,
                       issued, pending, out>>
    BY <1>1 DEF TerminateGameSessions, MainTypes
  <2>2. mConnected' \in [Session -> BOOLEAN] BY <2>1 DEF SessionTypes
  <2>3. MainTypes'
    <3>1. main.g \in 1 .. Games /\ main.i \in 1 .. PerGame /\ 1 \in 1 .. Games
          /\ 1 \in 1 .. PerGame
      BY <2>1, ClientsAssumption DEF MainTypes
    <3>2. \/ main' = MainAt("close", main.g, main.i)
          \/ main' = MainAt("stop", 1, 1)
          \/ ~last /\ main' = MainAt("terminate",
                                     IF main.i = PerGame THEN main.g + 1 ELSE main.g,
                                     IF main.i = PerGame THEN 1 ELSE main.i + 1)
      BY <1>1 DEF TerminateGameSessions
    <3>3. ASSUME NEW p \in MainAts, NEW g \in 1 .. Games, NEW i \in 1 .. PerGame,
                 main' = MainAt(p, g, i)
          PROVE  MainTypes'
      <4>1. i \in 1 .. PerGame + 1 /\ i <= PerGame BY <3>3, ClientsAssumption
      <4> QED BY <3>3, <4>1 DEF MainTypes, MainAt
    <3>4. ~last =>
            /\ (IF main.i = PerGame THEN main.g + 1 ELSE main.g) \in 1 .. Games
            /\ (IF main.i = PerGame THEN 1 ELSE main.i + 1) \in 1 .. PerGame
      BY <3>1, ClientsAssumption
    <3>5. {"close", "stop", "terminate"} \subseteq MainAts BY DEF MainAts
    <3> QED BY <3>1, <3>2, <3>3, <3>4, <3>5
  <2>4. SessionTypes'
    BY <2>1, <2>2 DEF SessionTypes, DataTypes, sendVars, bufferVars, netVars, testVars
  <2> HIDE DEF Base
  <2> QED BY <2>1, <2>3, <2>4, OutsideBase DEF sendVars
<1>2. CASE CloseSession
  <2> DEFINE s == Current
  <2>1. s \in Session BY <1>2, CurrentType DEF CloseSession, MainTypes
  <2>2. PICK ok \in BOOLEAN :
          /\ pending' = [pending EXCEPT ![s]["disconnect"] = @ + One(ok)]
          /\ mRefCount' = [mRefCount EXCEPT ![s] = @ + One(ok)]
    BY <1>2 DEF CloseSession
  <2>3. /\ Break(s) /\ Go("terminate") /\ main.pc = "close"
        /\ UNCHANGED <<mConnected, pc, who, hand, bufferVars, inbox, testVars, clockVars,
                       issued, out>>
    BY <1>2 DEF CloseSession
  <2>4. MainTypes' BY <2>3, GoTypes DEF MainAts, MainTypes
  <2> HIDE DEF s
  <2>5. /\ pending' \in [Session -> [IO -> Nat]]
        /\ \A x \in IO \ {"disconnect"} : pending'[s][x] = pending[s][x]
        /\ \A u \in Session \ {s} : pending'[u] = pending[u]
    <3>1. "disconnect" \in IO /\ pending[s]["disconnect"] + One(ok) \in Nat
      BY <2>1 DEF SessionTypes, DataTypes, One, IO
    <3>2. pending' = [pending EXCEPT ![s]["disconnect"] = pending[s]["disconnect"] + One(ok)]
      BY <2>2
    <3> QED BY <2>1, <3>1, <3>2, PendingEntry DEF SessionTypes, DataTypes
  <2>6. mRefCount' \in [Session -> Int] BY <2>1, <2>2 DEF SessionTypes, One
  <2>7. wire' \in [Session -> Seq(Packet)] /\ DOMAIN link' = Session
    BY <2>1, <2>3 DEF Break, SessionTypes, DataTypes
  <2>8. SessionTypes'
    BY <2>3, <2>5, <2>6, <2>7 DEF SessionTypes, DataTypes, bufferVars, testVars
  <2>9. \A u \in Session : pending'[u]["send"] = pending[u]["send"]
    BY <2>5 DEF IO
  <2> HIDE DEF Base
  <2> QED BY <2>3, <2>4, <2>8, <2>9, OutsideBase
<1>3. CASE StopIoThreads
  <2>1. MainTypes' BY <1>3, GoTypes DEF StopIoThreads, MainAts
  <2>2. UNCHANGED <<handlerVars, sendVars, netVars, testVars, clockVars, issued,
                    pending, out>>
    BY <1>3 DEF StopIoThreads
  <2>3. SessionTypes'
    BY <2>2 DEF SessionTypes, DataTypes, handlerVars, sendVars, bufferVars, netVars, testVars
  <2> HIDE DEF Base
  <2> QED BY <2>1, <2>2, <2>3, OutsideBase DEF handlerVars, sendVars
<1>4. CASE Finalize
  <2>1. MainTypes' BY <1>4, GoTypes DEF Finalize, MainAts
  <2> QED BY <1>4, <2>1, KeepsSessions DEF Finalize
<1> QED BY <1>1, <1>2, <1>3, <1>4 DEF Shutdown

(* Every step of an I/O thread keeps Base.                                 *)
LEMMA ThreadsBase ==
  ASSUME Base, Threads
  PROVE  Base'
<1>1. PICK w \in Worker : Awaited(w) \/ Run(w) BY DEF Threads
<1>2. UNCHANGED main BY DEF Threads
<1>3. CASE Run(w)
  BY <1>2, <1>3, ConnectPreRecvBase, StartTestBase, PostSendBase, DisconnectExBase,
     PlayTestBase, PlayTestDoneBase DEF Run
<1>4. CASE WaitTimeout(w) \/ StopNow(w)
  BY <1>2, <1>4, WaitTimeoutBase, StopNowBase
<1>5. ASSUME NEW s \in Session, Dequeue(w, s) PROVE Base'
  BY <1>2, <1>5, ConnectDoneBase, PreRecvDoneBase, RecvDoneBase, SendDoneBase,
     DisconnectDoneBase, CompletionErrorBase DEF Dequeue
<1> QED BY <1>1, <1>3, <1>4, <1>5 DEF Awaited

(* Base is inductive.                                                      *)
LEMMA BaseStep == Base /\ [Next]_vars => Base'
<1> SUFFICES ASSUME Base, [Next]_vars PROVE Base'
  OBVIOUS
<1>1. CASE Launch BY <1>1, LaunchBase
<1>2. CASE Shutdown BY <1>2, ShutdownBase
<1>3. CASE ServiceDecides
  <2>1. MainTypes' BY <1>3 DEF ServiceDecides, Base, MainTypes
  <2> QED BY <1>3, <2>1, KeepsSessions DEF ServiceDecides
<1>4. CASE Threads BY <1>4, ThreadsBase
<1>5. CASE World BY <1>5, TickBase, NetworkBase DEF World, Environment
<1>6. CASE UNCHANGED vars
  <2>1. MainTypes' BY <1>6 DEF vars, Base, MainTypes
  <2> QED BY <1>6, <2>1, KeepsSessions DEF vars
<1> QED BY <1>1, <1>2, <1>3, <1>4, <1>5, <1>6 DEF Next, Ended

(* What a thread's position says of its hands and of its timer, and what a *)
(* send in the kernel says of the buffer.                                  *)
THEOREM BaseInvariant == Spec => []Base
BY InitBase, BaseStep, PTL DEF Spec

-----------------------------------------------------------------------------
(* Chain is an invariant.  First, what does not concern a session.         *)

(* The packets of session u, the counters that go with them, its jobs and  *)
(* what the main thread does for it.                                       *)
SamePackets(u) ==
  /\ mSendBuffer'[u] = mSendBuffer[u] /\ inbox'[u] = inbox[u]
  /\ mSendRequestedCount'[u] = mSendRequestedCount[u] /\ inflight'[u] = inflight[u]
  /\ wire'[u] = wire[u] \/ wire'[u] = <<>>

SameTest(u) ==
  /\ mPlayTestCount'[u] = mPlayTestCount[u]
  /\ HasJob(timers', u) <=> HasJob(timers, u)
  /\ OneJob(timers, u) => OneJob(timers', u)
  /\ mPlayerSessionId[u] => mPlayerSessionId'[u]

SameMain(u) ==
  /\ Ahead(u)' => Ahead(u)
  /\ MainCloses(u)' <=> MainCloses(u)

SameWorkers(u) ==
  \A v \in Worker :
    /\ who'[v] = u <=> who[v] = u
    /\ who[v] = u => pc'[v] = pc[v] /\ hand'[v] = hand[v] /\ out'[v] = out[v]

Same(u) ==
  /\ SamePackets(u) /\ SameTest(u) /\ SameMain(u) /\ SameWorkers(u)
  /\ mConnected'[u] = mConnected[u] /\ pending'[u] = pending[u] /\ issued'[u] = issued[u]

(* Who is engaged for a session in any way is past its connection.         *)
LEMMA Engaged ==
  ASSUME NEW s \in Session, ConnectsOnce(s), ~Untouched(s), Base
  PROVE  ~Ahead(s) /\ pending[s]["connect"] = 0
BY DEF ConnectsOnce, Base, SessionTypes, DataTypes, IO

(* When a step keeps the connection of a session unique.                   *)
LEMMA ConnectsKept ==
  ASSUME NEW s \in Session, ConnectsOnce(s), ~Ahead(s)', pending'[s]["connect"] = 0,
         \A v \in Worker : Connects(v, s)' => Connects(v, s) /\ Silent(s)'
  PROVE  ConnectsOnce(s)'
BY DEF ConnectsOnce

(* When a step keeps what is known of a session's login: packets and test  *)
(* stay.                                                                   *)
LEMMA LoginKept ==
  ASSUME Base, NEW s \in Session, LoginOnce(s), SamePackets(s), SameTest(s)
  PROVE  LoginOnce(s)'
<1>1. Started(s)' <=> Started(s) BY DEF Started, SameTest
<1>2. wire[s] \in Seq(Packet) /\ inbox[s] \in Seq(PacketType)
  BY DEF Base, SessionTypes, DataTypes
<1>3. Len(wire[s]) \in Nat /\ Len(inbox[s]) \in Nat BY <1>2
<1>4. ASSUME Before(s) PROVE Before(s)'
  <2>1. CASE wire'[s] = wire[s] BY <1>4, <2>1 DEF Before, SamePackets
  <2>2. CASE wire'[s] = <<>>
    <3>0. Len(wire'[s]) = 0 /\ inbox'[s] = inbox[s] BY <2>2 DEF SamePackets
    <3>1. IsLogin(wire'[s]) /\ Len(wire'[s]) + Len(inbox'[s]) <= 1
      <4>1. Len(wire[s]) + Len(inbox[s]) <= 1 BY <1>4 DEF Before
      <4>2. IsLogin(wire'[s]) BY <3>0 DEF IsLogin
      <4>3. \A a, b \in Nat : a + b <= 1 => 0 + b <= 1 OBVIOUS
      <4>4. 0 + Len(inbox[s]) <= 1 BY <1>3, <4>1, <4>3
      <4> QED BY <3>0, <4>2, <4>4
    <3> QED BY <1>4, <2>2, <3>1 DEF Before, SamePackets
  <2> QED BY <2>1, <2>2 DEF SamePackets
<1>5. ASSUME Since(s) PROVE Since(s)'
  <2>1. CASE wire'[s] = wire[s] BY <1>5, <2>1 DEF Since, SamePackets
  <2>2. CASE wire'[s] = <<>>
    <3>1. NoLogin(wire'[s]) BY <2>2 DEF NoLogin
    <3> QED BY <1>5, <2>2, <3>1 DEF Since, SamePackets
  <2> QED BY <2>1, <2>2 DEF SamePackets
<1> QED BY <1>1, <1>4, <1>5 DEF LoginOnce

(* When a step keeps the one timer job of a session.                       *)
LEMMA PlaysKept ==
  ASSUME NEW s \in Session, Plays(s), SameTest(s),
         \A v \in Worker : Testing(v) /\ who[v] = s => (Testing(v) /\ who[v] = s)'
  PROVE  Plays(s)'
BY DEF Plays, SameTest

(* When a step keeps the ids in a session's packets right.                 *)
LEMMA KnowsKept ==
  ASSUME NEW s \in Session, KnowsItself(s), SamePackets(s), SameTest(s),
         \A v \in Worker : (who[v] = s /\ pc[v] = "post")' => Own(out[v], s)'
  PROVE  KnowsItself(s)'
<1>1. \A p : Own(p, s) => Own(p, s)' BY DEF Own, SameTest
<1>2. \A k \in 1 .. Len(mSendBuffer'[s]) : Own(mSendBuffer[s][k], s)'
  BY <1>1 DEF KnowsItself, SamePackets
<1>3. \A k \in 1 .. Len(wire'[s]) : Own(wire[s][k], s)'
  <2>1. CASE wire'[s] = wire[s] BY <1>1, <2>1 DEF KnowsItself
  <2>2. CASE wire'[s] = <<>> BY <2>2
  <2> QED BY <2>1, <2>2 DEF SamePackets
<1> QED BY <1>2, <1>3 DEF KnowsItself, SamePackets, SameTest

(* When a session to which nothing has happened stays so.                  *)
LEMMA SilentKept ==
  ASSUME NEW s \in Session, Silent(s), SamePackets(s), SameTest(s)
  PROVE  Silent(s)'
BY DEF Silent, SamePackets, SameTest, Started

(* Nothing happened to session u.                                          *)
LEMMA SameChain ==
  ASSUME Base, NEW u \in Session, ChainAt(u), Same(u)
  PROVE  ChainAt(u)'
<1> USE DEF ChainAt
<1>1. LoginOnce(u)' BY LoginKept DEF Same
<1>2. Plays(u)'
  <2>1. \A v \in Worker : Testing(v) /\ who[v] = u => (Testing(v) /\ who[v] = u)'
    BY DEF Same, SameWorkers, Testing
  <2> QED BY <2>1, PlaysKept DEF Same
<1>3. KnowsItself(u)'
  <2>1. ASSUME NEW v \in Worker, (who[v] = u /\ pc[v] = "post")' PROVE Own(out[v], u)'
    <3>1. who[v] = u /\ pc[v] = "post" /\ out'[v] = out[v]
      BY <2>1 DEF Same, SameWorkers
    <3> QED BY <3>1 DEF KnowsItself, Own, Same, SameTest
  <2> QED BY <2>1, KnowsKept DEF Same
<1>4. ConnectsOnce(u)'
  <2>1. \A v \in Worker : Connects(v, u)' <=> Connects(v, u)
    BY DEF Same, SameWorkers, Connects
  <2>2. Silent(u) => Silent(u)' BY SilentKept DEF Same
  <2>3. Untouched(u) => Untouched(u)'
    BY <2>2 DEF Untouched, Same, SameWorkers, SameMain
  <2> QED BY <2>1, <2>2, <2>3 DEF ConnectsOnce, Same, SameMain
<1> QED BY <1>1, <1>2, <1>3, <1>4

(* A step of thread w for session s leaves the other sessions alone.       *)
OthersSame(s) ==
  \A u \in Session \ {s} :
    /\ SamePackets(u) /\ mPlayTestCount'[u] = mPlayTestCount[u]
    /\ mConnected'[u] = mConnected[u] /\ pending'[u] = pending[u] /\ issued'[u] = issued[u]

(* A queue changed from q to r by jobs of session s only.                  *)
JobsOf(s, q, r) ==
  \A e \in JobOf : e.owner # s => (e \in Elements(r) <=> e \in Elements(q))

(* A queue in which only jobs of s changed has the same jobs of the        *)
(* others.                                                                 *)
LEMMA JobsSame ==
  ASSUME Base, Base', NEW w \in Worker, \A v \in Worker \ {w} : timers'[v] = timers[v],
         NEW s \in Session, JobsOf(s, timers[w], timers'[w]), NEW u \in Session \ {s}
  PROVE  /\ HasJob(timers', u) <=> HasJob(timers, u)
         /\ OneJob(timers, u) => OneJob(timers', u)
<1>1. \A v \in Worker : Elements(timers[v]) \subseteq JobOf
  <2>1. \A v \in Worker : GoodQueue(timers[v]) BY DEF Base, GoodQueue, ThreadTypes, Due
  <2> QED BY <2>1, ElementsType
<1>2. \A v \in Worker : Elements(timers'[v]) \subseteq JobOf
  <2>1. \A v \in Worker : GoodQueue(timers'[v]) BY DEF Base, GoodQueue, ThreadTypes, Due
  <2> QED BY <2>1, ElementsType
<1>3. \A v \in Worker : \A e \in JobOf :
         e.owner = u => (e \in Elements(timers'[v]) <=> e \in Elements(timers[v]))
  BY DEF JobsOf
<1>4. HasJob(timers', u) <=> HasJob(timers, u)
  BY <1>1, <1>2, <1>3 DEF HasJob
<1>5. OneJob(timers, u) => OneJob(timers', u)
  BY <1>1, <1>2, <1>3 DEF OneJob
<1> QED BY <1>4, <1>5

(* A step of thread w for session s keeps Chain when it keeps it at s.     *)
LEMMA ChainFrom ==
  ASSUME Base, Base', Chain, NEW w \in Worker, NEW s \in Session,
         \A v \in Worker \ {w} : SameThread(v),
         who[w] \in {s, NoOne}, who'[w] \in {s, NoOne},
         UNCHANGED <<main, mPlayerIdx, mPlayerSessionId>>, OthersSame(s),
         JobsOf(s, timers[w], timers'[w]), Neat(timers'[w]), ChainAt(s)'
  PROVE  Chain'
<1>1. \A v \in Worker \ {w} : timers'[v] = timers[v] BY DEF SameThread
<1>2. ASSUME NEW u \in Session \ {s} PROVE ChainAt(u)'
  <2>1. SameTest(u)
    BY <1>1, JobsSame DEF SameTest, OthersSame
  <2>2. SameMain(u) BY DEF SameMain, Ahead, Later, MainCloses, Current
  <2>3. SameWorkers(u)
    <3>1. who[w] # u /\ who'[w] # u BY SessionPair
    <3> QED BY <3>1 DEF SameWorkers, SameThread
  <2>4. Same(u) BY <2>1, <2>2, <2>3 DEF Same, OthersSame
  <2> QED BY <2>4, SameChain DEF Chain
<1>3. \A v \in Worker : Neat(timers'[v]) BY <1>1 DEF Chain
<1> QED BY <1>2, <1>3 DEF Chain

(* The same when the timer's queue stays as it is.                         *)
LEMMA ChainQuiet ==
  ASSUME Base, Base', Chain, NEW w \in Worker, NEW s \in Session,
         \A v \in Worker \ {w} : SameThread(v),
         who[w] \in {s, NoOne}, who'[w] \in {s, NoOne},
         UNCHANGED <<main, mPlayerIdx, mPlayerSessionId, timers>>, OthersSame(s), ChainAt(s)'
  PROVE  Chain'
<1>1. JobsOf(s, timers[w], timers'[w]) /\ Neat(timers'[w])
  BY DEF JobsOf, Chain
<1> QED BY <1>1, ChainFrom

(* What Leave does to the threads.                                         *)
LEMMA LeftThreads ==
  ASSUME Base, NEW w \in Worker, NEW s \in Session, NEW io, NEW d, NEW q,
         Left(w, s, io, d, q), \A v \in Worker \ {w} : timers'[v] = timers[v],
         \A v \in Worker \ {w} : out'[v] = out[v]
  PROVE  /\ \A v \in Worker \ {w} : SameThread(v)
         /\ who'[w] \in {s, NoOne}
         /\ pc'[w] \in {"disc", "after", "loop", "idle"}
         /\ io = "none" => who'[w] = s /\ hand'[w] = "none" /\ pc'[w] \in {"disc", "after"}
         /\ \A u \in Session \ {s} : mConnected'[u] = mConnected[u]
<1> USE DEF Base, ThreadTypes
<1>1. \A v \in Worker \ {w} : SameThread(v)
  BY DEF Left, SameThread
<1>2. /\ who'[w] \in {s, NoOne}
      /\ pc'[w] \in {"disc", "after", "loop", "idle"}
      /\ io = "none" => who'[w] = s /\ hand'[w] = "none" /\ pc'[w] \in {"disc", "after"}
  BY DEF Left, LoopOn
<1>3. \A u \in Session \ {s} : mConnected'[u] = mConnected[u]
  <2>1. UNCHANGED mConnected \/ mConnected' = [mConnected EXCEPT ![s] = FALSE]
    BY DEF Left
  <2> QED BY <2>1 DEF SessionTypes
<1> QED BY <1>1, <1>2, <1>3

(* A handler of session s that posts no packet and handles none.           *)
LEMMA QuietLeave ==
  ASSUME Base, Base', NEW w \in Worker, NEW s \in Session, ChainAt(s),
         ~Ahead(s), pending'[s]["connect"] = 0, UNCHANGED <<main, mPlayerIdx>>,
         \A v \in Worker \ {w} : SameThread(v), who[w] \in {s, NoOne},
         pc'[w] \notin {"prerecv", "login", "post"},
         Testing(w) /\ who[w] = s => (Testing(w) /\ who[w] = s)',
         SamePackets(s), SameTest(s)
  PROVE  ChainAt(s)'
<1> USE DEF ChainAt
<1>1. LoginOnce(s)' BY LoginKept
<1>2. Plays(s)'
  <2>1. \A v \in Worker : Testing(v) /\ who[v] = s => (Testing(v) /\ who[v] = s)'
    BY DEF SameThread, Testing
  <2> QED BY <2>1, PlaysKept
<1>3. KnowsItself(s)'
  <2>1. ASSUME NEW v \in Worker, (who[v] = s /\ pc[v] = "post")' PROVE Own(out[v], s)'
    <3>1. v # w BY <2>1
    <3>2. who[v] = s /\ pc[v] = "post" /\ out'[v] = out[v] BY <2>1, <3>1 DEF SameThread
    <3> QED BY <3>2 DEF KnowsItself, Own, SameTest
  <2> QED BY <2>1, KnowsKept
<1>4. ConnectsOnce(s)'
  <2>1. ASSUME NEW v \in Worker, Connects(v, s)' PROVE Connects(v, s) /\ Silent(s)'
    <3>1. v # w BY <2>1 DEF Connects
    <3>2. Connects(v, s) BY <2>1, <3>1 DEF Connects, SameThread
    <3>3. Silent(s) BY <3>2 DEF ConnectsOnce
    <3> QED BY <3>2, <3>3, SilentKept
  <2>2. ~Ahead(s)' BY DEF Ahead, Later
  <2> QED BY <2>1, <2>2, ConnectsKept
<1> QED BY <1>1, <1>2, <1>3, <1>4

-----------------------------------------------------------------------------
(* Chain, action by action.                                                *)

(* The kernel's operations of a session are counted by naturals.           *)
LEMMA PendingNat ==
  ASSUME Base, NEW s \in Session, NEW io \in IO
  PROVE  pending \in [Session -> [IO -> Nat]] /\ pending[s][io] \in Nat
<1>1. pending \in [Session -> [IO -> Nat]] BY DEF Base, SessionTypes, DataTypes
<1> QED BY <1>1

(* One context in the kernel replaces another.                             *)
Replaces(s, a, b, n) ==
  /\ pending'[s][a] = pending[s][a] - 1
  /\ pending'[s][b] = pending[s][b] + n
  /\ \A x \in IO \ {a, b} : pending'[s][x] = pending[s][x]
  /\ \A u \in Session \ {s} : pending'[u] = pending[u]

(* One operation is taken from the kernel and others of another kind are   *)
(* given to it.                                                            *)
LEMMA PendingMoves ==
  ASSUME Base, NEW s \in Session, NEW a \in IO, NEW b \in IO, a # b, NEW n \in Nat,
         pending[s][a] > 0,
         pending' = [pending EXCEPT ![s][a] = @ - 1, ![s][b] = @ + n]
  PROVE  Replaces(s, a, b, n)
<1> DEFINE P == [pending EXCEPT ![s][a] = pending[s][a] - 1]
<1>1. pending[s][a] - 1 \in Nat /\ pending \in [Session -> [IO -> Nat]] BY PendingNat
<1>2. /\ P \in [Session -> [IO -> Nat]] /\ P[s][a] = pending[s][a] - 1
      /\ \A x \in IO \ {a} : P[s][x] = pending[s][x]
      /\ \A u \in Session \ {s} : P[u] = pending[u]
  BY <1>1, PendingEntry
<1>3. pending' = [P EXCEPT ![s][b] = P[s][b] + n]
  OBVIOUS
<1> HIDE DEF P
<1>4. P[s][b] + n \in Nat BY <1>2
<1>5. /\ pending'[s][b] = P[s][b] + n
      /\ \A x \in IO \ {b} : pending'[s][x] = P[s][x]
      /\ \A u \in Session \ {s} : pending'[u] = P[u]
  BY <1>2, <1>3, <1>4, PendingEntry
<1> QED BY <1>2, <1>5 DEF Replaces

(* The handlers that move no packet.                                       *)
LEMMA QuietChain ==
  ASSUME Base, Base', Chain, NEW w \in Worker, NEW s \in Session, NEW io, NEW d,
         Left(w, s, io, d, timers[w]), UNCHANGED <<main, testVars, timers, out>>,
         who[w] \in {s, NoOne}, ~Untouched(s), Testing(w) /\ who[w] = s => io = "none",
         SamePackets(s), pending'[s]["connect"] = pending[s]["connect"],
         \A u \in Session \ {s} : SamePackets(u) /\ pending'[u] = pending[u]
                                  /\ issued'[u] = issued[u]
  PROVE  Chain'
<1>1. /\ \A v \in Worker \ {w} : SameThread(v)
      /\ who'[w] \in {s, NoOne}
      /\ pc'[w] \in {"disc", "after", "loop", "idle"}
      /\ io = "none" => who'[w] = s /\ hand'[w] = "none" /\ pc'[w] \in {"disc", "after"}
      /\ \A u \in Session \ {s} : mConnected'[u] = mConnected[u]
  BY LeftThreads
<1>2. OthersSame(s) BY <1>1 DEF OthersSame, testVars
<1>3. ~Ahead(s) /\ pending'[s]["connect"] = 0
  BY Engaged DEF Chain, ChainAt
<1>4. Testing(w) /\ who[w] = s => (Testing(w) /\ who[w] = s)'
  BY <1>1 DEF Testing
<1>5. SameTest(s) BY DEF SameTest, testVars
<1>6. ChainAt(s)'
  <2>1. ChainAt(s) /\ UNCHANGED <<main, mPlayerIdx>> BY DEF Chain, testVars
  <2> QED BY <1>1, <1>3, <1>4, <1>5, <2>1, QuietLeave
<1> QED BY <1>1, <1>2, <1>6, ChainQuiet DEF testVars

(* DisconnectEx keeps Chain.                                               *)
LEMMA DisconnectExChain ==
  ASSUME Base, Base', Chain, NEW w \in Worker, DisconnectEx(w), UNCHANGED <<main, mPlayerIdx>>
  PROVE  Chain'
<1>1. PICK s \in Session : s = who[w]
  BY DEF DisconnectEx, Stands, Base
<1>2. PICK ok \in BOOLEAN :
        /\ pending' = [pending EXCEPT ![s]["disconnect"] = @ + One(ok)]
        /\ Break(s)
        /\ Leave(w, s, hand[w], FALSE, One(ok), timers[w])
  BY <1>1 DEF DisconnectEx
<1>3. UNCHANGED <<bufferVars, inbox, testVars, timers, issued, out>>
      /\ who[w] \in {s, NoOne} /\ ~Untouched(s) /\ (Testing(w) => hand[w] = "none")
  BY <1>1 DEF DisconnectEx, Untouched, Testing
<1>4. One(ok) \in Int /\ One(ok) \in Nat BY DEF One
<1>5. Left(w, s, hand[w], One(ok), timers[w])
  BY <1>2, <1>4, LeaveLeft DEF Base
<1>6. /\ pending'[s]["connect"] = pending[s]["connect"]
      /\ \A u \in Session \ {s} : pending'[u] = pending[u]
  <2>1. {"disconnect", "connect"} \subseteq IO BY DEF IO
  <2>2. pending[s]["disconnect"] \in Nat /\ pending \in [Session -> [IO -> Nat]]
    BY <2>1, PendingNat
  <2>3. pending[s]["disconnect"] + One(ok) \in Nat BY <1>4, <2>2
  <2> QED BY <1>2, <2>1, <2>2, <2>3, PendingEntry
<1>7. SamePackets(s) /\ \A u \in Session \ {s} : SamePackets(u) /\ issued'[u] = issued[u]
  BY <1>2, <1>3 DEF SamePackets, Break, bufferVars, Base, SessionTypes, DataTypes
<1> QED BY <1>3, <1>5, <1>6, <1>7, QuietChain

(* StartTest keeps Chain.                                                  *)
LEMMA StartTestChain ==
  ASSUME Base, Base', Chain, NEW w \in Worker, StartTest(w), UNCHANGED <<main, mPlayerIdx>>
  PROVE  Chain'
<1>0. PICK s \in Session : s = who[w]
  BY DEF StartTest, Stands, Base
<1>1. hand[w] = "connect" /\ pc[w] = "login"
  BY DEF StartTest, Stands, Base
<1>2. /\ UNCHANGED <<sendVars, netVars, testVars, timers, issued, pending>>
      /\ who[w] \in {s, NoOne} /\ ~Untouched(s) /\ ~Testing(w) /\ Connects(w, s)
  BY <1>0, <1>1 DEF StartTest, Untouched, Testing, Connects
<1>3. \A u \in Session : SamePackets(u) /\ issued'[u] = issued[u] /\ pending'[u] = pending[u]
  BY <1>2 DEF SamePackets, sendVars, bufferVars, netVars
<1>4. CASE UNCHANGED out /\ Leave(w, s, hand[w], FALSE, 0, timers[w])
  <2>1. 0 \in Int OBVIOUS
  <2>2. Left(w, s, hand[w], 0, timers[w]) BY <1>4, <2>1, LeaveLeft DEF Base
  <2> QED BY <1>2, <1>3, <1>4, <2>2, QuietChain
<1>5. CASE /\ out' = [out EXCEPT ![w] = [type |-> "login", id |-> mPlayerSessionId[s]]]
           /\ pc' = [pc EXCEPT ![w] = "post"]
           /\ UNCHANGED <<mConnected, mRefCount, who, hand, lag>>
  <2>1. \A v \in Worker \ {w} : SameThread(v)
    BY <1>2, <1>5 DEF SameThread, Base, ThreadTypes
  <2>2. pc'[w] = "post" /\ out'[w] = [type |-> "login", id |-> mPlayerSessionId[s]]
    BY <1>5 DEF Base, ThreadTypes
  <2>3. SameTest(s) /\ OthersSame(s)
    BY <1>2, <1>3, <1>5 DEF SameTest, OthersSame, testVars
  <2>4. ChainAt(s) BY DEF Chain
  <2>5. ~Ahead(s) /\ pending[s]["connect"] = 0
    BY <1>2, <2>4, Engaged DEF ChainAt
  <2>6. LoginOnce(s)' BY <1>3, <2>3, <2>4, LoginKept DEF ChainAt
  <2>7. Plays(s)'
    <3>1. \A v \in Worker : Testing(v) /\ who[v] = s => (Testing(v) /\ who[v] = s)'
      BY <1>2, <2>1 DEF SameThread, Testing
    <3> QED BY <2>3, <2>4, <3>1, PlaysKept DEF ChainAt
  <2>8. KnowsItself(s)'
    <3>1. ASSUME NEW v \in Worker, (who[v] = s /\ pc[v] = "post")'
          PROVE  Own(out[v], s)'
      <4>1. CASE v = w BY <1>2, <2>2, <4>1 DEF Own, testVars
      <4>2. CASE v # w
        <5>1. who[v] = s /\ pc[v] = "post" /\ out'[v] = out[v]
          BY <2>1, <3>1, <4>2 DEF SameThread
        <5> QED BY <2>3, <2>4, <5>1 DEF KnowsItself, Own, SameTest, ChainAt
      <4> QED BY <4>1, <4>2
    <3> QED BY <1>3, <2>3, <2>4, <3>1, KnowsKept DEF ChainAt
  <2>9. ConnectsOnce(s)'
    <3>1. Silent(s)' BY <1>2, <1>3, <2>3, <2>4, SilentKept DEF ConnectsOnce, ChainAt
    <3>2. \A v \in Worker : Connects(v, s)' => Connects(v, s) /\ Silent(s)'
      BY <1>2, <1>5, <2>1, <3>1 DEF Connects, SameThread
    <3>3. ~Ahead(s)' /\ pending'[s]["connect"] = 0 BY <1>3, <2>5 DEF Ahead, Later
    <3> QED BY <2>4, <3>2, <3>3, ConnectsKept DEF ChainAt
  <2>10. who'[w] \in {s, NoOne} BY <1>0, <1>5
  <2>11. ChainAt(s)' BY <2>6, <2>7, <2>8, <2>9 DEF ChainAt
  <2> QED BY <1>2, <2>1, <2>3, <2>10, <2>11, ChainQuiet DEF testVars
<1> QED BY <1>0, <1>4, <1>5 DEF StartTest

(* ConnectPreRecv keeps Chain.                                             *)
LEMMA ConnectPreRecvChain ==
  ASSUME Base, Base', Chain, NEW w \in Worker, ConnectPreRecv(w), UNCHANGED <<main, mPlayerIdx>>
  PROVE  Chain'
<1>0. PICK s \in Session : s = who[w]
  BY DEF ConnectPreRecv, Stands, Base
<1>1. hand[w] = "connect" /\ pc[w] = "prerecv"
  BY DEF ConnectPreRecv, Stands, Base
<1>2. /\ UNCHANGED <<sendVars, netVars, testVars, timers, issued, out>>
      /\ who[w] \in {s, NoOne} /\ ~Untouched(s) /\ ~Testing(w) /\ Connects(w, s)
  BY <1>0, <1>1 DEF ConnectPreRecv, Untouched, Testing, Connects
<1>3. \A u \in Session : SamePackets(u) /\ issued'[u] = issued[u]
  BY <1>2 DEF SamePackets, sendVars, bufferVars, netVars
<1>4. /\ pending'[s]["connect"] = pending[s]["connect"]
      /\ \A u \in Session \ {s} : pending'[u] = pending[u]
  <2>1. CASE UNCHANGED pending BY <2>1
  <2>2. CASE pending' = [pending EXCEPT ![s]["zero"] = @ + 1]
    <3>1. "zero" \in IO /\ "connect" \in IO \ {"zero"} BY DEF IO
    <3>2. pending[s]["zero"] + 1 \in Nat /\ pending \in [Session -> [IO -> Nat]]
      BY <3>1, PendingNat
    <3> QED BY <2>2, <3>1, <3>2, PendingEntry
  <2> QED BY <1>0, <2>1, <2>2 DEF ConnectPreRecv
<1>5. \A v \in Worker \ {w} : SameThread(v)
  BY <1>2 DEF ConnectPreRecv, SameThread, Base, ThreadTypes
<1>6. \/ pc'[w] = "login" /\ UNCHANGED <<who, hand, mConnected>>
      \/ /\ pc'[w] \in {"idle", "loop"} /\ who'[w] = NoOne
         /\ mConnected' = [mConnected EXCEPT ![s] = FALSE]
  BY <1>0 DEF ConnectPreRecv, Base, ThreadTypes, LoopOn
<1>7. SameTest(s) /\ OthersSame(s) /\ who'[w] \in {s, NoOne}
  BY <1>0, <1>2, <1>3, <1>4, <1>6
     DEF SameTest, OthersSame, testVars, Base, SessionTypes
<1>8. ChainAt(s) BY DEF Chain
<1>9. ~Ahead(s) /\ pending'[s]["connect"] = 0
  BY <1>2, <1>4, <1>8, Engaged DEF ChainAt
<1>10. ChainAt(s)'
  <2>1. CASE pc'[w] \in {"idle", "loop"}
    <3>1. pc'[w] \notin {"prerecv", "login", "post"} BY <2>1
    <3> QED BY <1>2, <1>3, <1>5, <1>7, <1>8, <1>9, <3>1, QuietLeave
  <2>2. CASE pc'[w] = "login" /\ UNCHANGED <<who, hand, mConnected>>
    <3>1. LoginOnce(s)' BY <1>3, <1>7, <1>8, LoginKept DEF ChainAt
    <3>2. Plays(s)'
      <4>1. \A v \in Worker : Testing(v) /\ who[v] = s => (Testing(v) /\ who[v] = s)'
        BY <1>2, <1>5 DEF SameThread, Testing
      <4> QED BY <1>7, <1>8, <4>1, PlaysKept DEF ChainAt
    <3>3. KnowsItself(s)'
      <4>1. ASSUME NEW v \in Worker, (who[v] = s /\ pc[v] = "post")'
            PROVE  Own(out[v], s)'
        <5>1. who[v] = s /\ pc[v] = "post" /\ out'[v] = out[v]
          BY <1>5, <2>2, <4>1 DEF SameThread
        <5> QED BY <1>7, <1>8, <5>1 DEF KnowsItself, Own, SameTest, ChainAt
      <4> QED BY <1>3, <1>7, <1>8, <4>1, KnowsKept DEF ChainAt
    <3>4. ConnectsOnce(s)'
      <4>1. Silent(s)' BY <1>2, <1>3, <1>7, <1>8, SilentKept DEF ConnectsOnce, ChainAt
      <4>2. \A v \in Worker : Connects(v, s)' => Connects(v, s) /\ Silent(s)'
        BY <1>2, <1>5, <4>1 DEF Connects, SameThread
      <4>3. ~Ahead(s)' BY <1>9 DEF Ahead, Later
      <4> QED BY <1>8, <1>9, <4>2, <4>3, ConnectsKept DEF ChainAt
    <3> QED BY <3>1, <3>2, <3>3, <3>4 DEF ChainAt
  <2> QED BY <1>6, <2>1, <2>2
<1> QED BY <1>2, <1>5, <1>7, <1>10, ChainQuiet DEF testVars

(* What the handler of a zero-byte receive does.                           *)
LEMMA PreRecvDoneEffect ==
  ASSUME Base, NEW w \in Worker, NEW s \in Session, PreRecvDone(w, s)
  PROVE  /\ \E n \in {0, 1} : Left(w, s, "zero", n, timers[w])
                              /\ Replaces(s, "zero", "recv", n)
         /\ pending[s]["zero"] > 0 /\ who[w] = NoOne /\ ~Testing(w)
         /\ UNCHANGED <<sendVars, netVars, testVars, timers, issued, out>>
<1>1. PICK ok \in BOOLEAN :
        /\ pending' = [pending EXCEPT ![s]["zero"] = @ - 1,
                                      ![s]["recv"] = @ + One(PostRecv(s, ok))]
        /\ Leave(w, s, "zero", ~PostRecv(s, ok), One(PostRecv(s, ok)), timers[w])
  BY DEF PreRecvDone
<1>2. /\ pending[s]["zero"] > 0 /\ who[w] = NoOne /\ ~Testing(w)
      /\ UNCHANGED <<sendVars, netVars, testVars, timers, issued, out>>
  BY DEF PreRecvDone, Dequeued, Base, Stands, Testing
<1> DEFINE n == One(PostRecv(s, ok))
<1>3. n \in Int /\ n \in Nat /\ n \in {0, 1} /\ "zero" \in IO /\ "recv" \in IO /\ "zero" # "recv"
  BY DEF One, IO
<1>4. Left(w, s, "zero", n, timers[w])
  BY <1>1, <1>3, LeaveLeft DEF Base
<1>5. Replaces(s, "zero", "recv", n)
  <2>1. pending' = [pending EXCEPT ![s]["zero"] = @ - 1, ![s]["recv"] = @ + n]
    BY <1>1
  <2> HIDE DEF n
  <2> QED BY <1>2, <1>3, <2>1, PendingMoves
<1> HIDE DEF n
<1> QED BY <1>2, <1>3, <1>4, <1>5

(* PreRecvDone keeps Chain.                                                *)
LEMMA PreRecvDoneChain ==
  ASSUME Base, Base', Chain, NEW w \in Worker, NEW s \in Session, PreRecvDone(w, s),
         UNCHANGED <<main, mPlayerIdx>>
  PROVE  Chain'
<1>1. PICK n \in {0, 1} : Left(w, s, "zero", n, timers[w]) /\ Replaces(s, "zero", "recv", n)
  BY PreRecvDoneEffect
<1>2. /\ pending[s]["zero"] > 0 /\ who[w] = NoOne /\ ~Testing(w)
      /\ UNCHANGED <<sendVars, netVars, testVars, timers, issued, out>>
  BY PreRecvDoneEffect
<1>3. ~Untouched(s) BY <1>2, PendingNat DEF Untouched, IO
<1>4. pending'[s]["connect"] = pending[s]["connect"]
      /\ \A u \in Session \ {s} : pending'[u] = pending[u]
  BY <1>1 DEF Replaces, IO
<1>5. \A u \in Session : SamePackets(u) /\ issued'[u] = issued[u]
  BY <1>2 DEF SamePackets, sendVars, bufferVars, netVars
<1> QED BY <1>1, <1>2, <1>3, <1>4, <1>5, QuietChain

(* CompletionError keeps Chain.                                            *)
LEMMA CompletionErrorChain ==
  ASSUME Base, Base', Chain, NEW w \in Worker, NEW s \in Session,
         NEW io \in {"recv", "send"}, CompletionError(w, s, io), UNCHANGED <<main, mPlayerIdx>>
  PROVE  Chain'
<1>1. /\ pending[s][io] > 0 /\ pending' = [pending EXCEPT ![s][io] = pending[s][io] - 1]
      /\ Leave(w, s, io, TRUE, 0, timers[w]) /\ who[w] = NoOne /\ ~Testing(w)
      /\ UNCHANGED <<sendVars, netVars, testVars, timers, issued, out>>
  BY DEF CompletionError, Dequeued, Base, Stands, Testing
<1>2. 0 \in Int /\ io \in IO /\ "connect" \in IO \ {io} BY DEF IO
<1>3. Left(w, s, io, 0, timers[w]) BY <1>1, <1>2, LeaveLeft DEF Base
<1>4. /\ pending'[s]["connect"] = pending[s]["connect"]
      /\ \A u \in Session \ {s} : pending'[u] = pending[u]
  <2>1. pending[s][io] - 1 \in Nat /\ pending \in [Session -> [IO -> Nat]]
    BY <1>1, <1>2, PendingNat
  <2> QED BY <1>1, <1>2, <2>1, PendingEntry
<1>5. ~Untouched(s) BY <1>1, <1>2, PendingNat DEF Untouched
<1>6. \A u \in Session : SamePackets(u) /\ issued'[u] = issued[u]
  BY <1>1 DEF SamePackets, sendVars, bufferVars, netVars
<1> QED BY <1>1, <1>3, <1>4, <1>5, <1>6, QuietChain

(* DisconnectDone keeps Chain.                                             *)
LEMMA DisconnectDoneChain ==
  ASSUME Base, Base', Chain, NEW w \in Worker, NEW s \in Session, DisconnectDone(w, s),
         UNCHANGED <<main, mPlayerIdx>>
  PROVE  Chain'
<1>1. /\ pending[s]["disconnect"] > 0
      /\ pending' = [pending EXCEPT ![s]["disconnect"] = pending[s]["disconnect"] - 1]
      /\ Leave(w, s, "disconnect", FALSE, -1, timers[w]) /\ who[w] = NoOne /\ ~Testing(w)
      /\ UNCHANGED <<sendVars, netVars, testVars, timers, out>>
      /\ issued' = [issued EXCEPT ![s] = FALSE]
  BY DEF DisconnectDone, Dequeued, Base, Stands, Testing
<1>2. -1 \in Int /\ "disconnect" \in IO /\ "connect" \in IO \ {"disconnect"} BY DEF IO
<1>3. Left(w, s, "disconnect", -1, timers[w]) BY <1>1, <1>2, LeaveLeft DEF Base
<1>4. /\ pending'[s]["connect"] = pending[s]["connect"]
      /\ \A u \in Session \ {s} : pending'[u] = pending[u]
  <2>1. pending[s]["disconnect"] - 1 \in Nat /\ pending \in [Session -> [IO -> Nat]]
    BY <1>1, <1>2, PendingNat
  <2> QED BY <1>1, <1>2, <2>1, PendingEntry
<1>5. ~Untouched(s) BY <1>1, <1>2, PendingNat DEF Untouched
<1>6. \A u \in Session : SamePackets(u)
  BY <1>1 DEF SamePackets, sendVars, bufferVars, netVars
<1>7. \A u \in Session \ {s} : issued'[u] = issued[u]
  BY <1>1 DEF Base, SessionTypes, DataTypes
<1> QED BY <1>1, <1>3, <1>4, <1>5, <1>6, <1>7, QuietChain

(* One context comes out of the kernel, or goes into it.                   *)
Takes(s, a, n) ==
  /\ pending'[s][a] = pending[s][a] + n
  /\ \A x \in IO \ {a} : pending'[s][x] = pending[s][x]
  /\ \A u \in Session \ {s} : pending'[u] = pending[u]

(* What the handler of a ConnectEx does.                                   *)
LEMMA ConnectDoneEffect ==
  ASSUME Base, NEW w \in Worker, NEW s \in Session, ConnectDone(w, s)
  PROVE  /\ pending[s]["connect"] > 0 /\ who[w] = NoOne /\ ~Testing(w)
         /\ Takes(s, "connect", -1)
         /\ UNCHANGED <<sendVars, inbox, testVars, timers, issued, out>>
         /\ \/ Left(w, s, "connect", 0, timers[w])
            \/ /\ mConnected' = [mConnected EXCEPT ![s] = TRUE]
               /\ pc' = [pc EXCEPT ![w] = "prerecv"]
               /\ who' = [who EXCEPT ![w] = s]
               /\ hand' = [hand EXCEPT ![w] = "connect"]
               /\ UNCHANGED <<mRefCount, lag>>
<1>1. /\ pending[s]["connect"] > 0 /\ who[w] = NoOne /\ ~Testing(w)
      /\ UNCHANGED <<sendVars, inbox, testVars, timers, issued, out>>
      /\ pending' = [pending EXCEPT ![s]["connect"] = pending[s]["connect"] - 1]
  BY DEF ConnectDone, Dequeued, Base, Stands, Testing
<1>2. 0 \in Int /\ "connect" \in IO BY DEF IO
<1>3. Takes(s, "connect", -1)
  <2>1. /\ pending[s]["connect"] - 1 \in Nat /\ pending \in [Session -> [IO -> Nat]]
        /\ pending[s]["connect"] - 1 = pending[s]["connect"] + (-1)
    BY <1>1, <1>2, PendingNat
  <2>2. /\ pending'[s]["connect"] = pending[s]["connect"] - 1
        /\ \A x \in IO \ {"connect"} : pending'[s][x] = pending[s][x]
        /\ \A u \in Session \ {s} : pending'[u] = pending[u]
    BY <1>1, <1>2, <2>1, PendingEntry
  <2> QED BY <2>1, <2>2 DEF Takes
<1>4. Leave(w, s, "connect", FALSE, 0, timers[w]) => Left(w, s, "connect", 0, timers[w])
  BY <1>2, LeaveLeft DEF Base
<1> QED BY <1>1, <1>3, <1>4 DEF ConnectDone

(* ConnectDone keeps Chain.                                                *)
LEMMA ConnectDoneChain ==
  ASSUME Base, Base', Chain, NEW w \in Worker, NEW s \in Session, ConnectDone(w, s),
         UNCHANGED <<main, mPlayerIdx>>
  PROVE  Chain'
<1>1. /\ pending[s]["connect"] > 0 /\ who[w] = NoOne /\ ~Testing(w)
      /\ Takes(s, "connect", -1)
      /\ UNCHANGED <<sendVars, inbox, testVars, timers, issued, out>>
  BY ConnectDoneEffect
<1>2. ChainAt(s) /\ ConnectsOnce(s) BY DEF Chain, ChainAt
<1>3. pending[s]["connect"] = 1 /\ Untouched(s) /\ ~Ahead(s)
  BY <1>1, <1>2 DEF ConnectsOnce
<1>4. pending'[s]["connect"] = 0 /\ \A u \in Session \ {s} : pending'[u] = pending[u]
  BY <1>1, <1>3 DEF Takes
<1>5. /\ \A u \in Session : SamePackets(u) /\ issued'[u] = issued[u]
      /\ SameTest(s) /\ ~Ahead(s)'
  BY <1>1, <1>3 DEF SamePackets, SameTest, sendVars, bufferVars, testVars, Ahead, Later
<1>6. CASE Left(w, s, "connect", 0, timers[w])
  <2>1. /\ \A v \in Worker \ {w} : SameThread(v)
        /\ who'[w] \in {s, NoOne}
        /\ pc'[w] \in {"disc", "after", "loop", "idle"}
        /\ \A u \in Session \ {s} : mConnected'[u] = mConnected[u]
    BY <1>1, <1>6, LeftThreads
  <2>2. pc'[w] \notin {"prerecv", "login", "post"} BY <2>1
  <2>3. ChainAt(s)'
    BY <1>1, <1>2, <1>3, <1>4, <1>5, <2>1, <2>2, QuietLeave
  <2>4. OthersSame(s) BY <1>1, <1>4, <1>5, <2>1 DEF OthersSame, testVars
  <2> QED BY <1>1, <2>1, <2>3, <2>4, ChainQuiet DEF testVars
<1>7. CASE /\ mConnected' = [mConnected EXCEPT ![s] = TRUE]
           /\ pc' = [pc EXCEPT ![w] = "prerecv"]
           /\ who' = [who EXCEPT ![w] = s]
           /\ hand' = [hand EXCEPT ![w] = "connect"]
           /\ UNCHANGED <<mRefCount, lag>>
  <2>1. \A v \in Worker \ {w} : SameThread(v)
    BY <1>1, <1>7 DEF SameThread, Base, ThreadTypes
  <2>2. who'[w] = s /\ pc'[w] = "prerecv" /\ hand'[w] = "connect"
    BY <1>7 DEF Base, ThreadTypes
  <2>3. OthersSame(s)
    BY <1>1, <1>4, <1>5, <1>7 DEF OthersSame, testVars, Base, SessionTypes
  <2>4. LoginOnce(s)' BY <1>2, <1>5, LoginKept DEF ChainAt
  <2>5. \A v \in Worker \ {w} : who[v] # s /\ who'[v] # s
    BY <1>3, <2>1 DEF Untouched, SameThread
  <2>6. Plays(s)'
    <3>1. \A v \in Worker : Testing(v) /\ who[v] = s => (Testing(v) /\ who[v] = s)'
      BY <1>1, <2>5
    <3> QED BY <1>2, <1>5, <3>1, PlaysKept DEF ChainAt
  <2>7. KnowsItself(s)'
    <3>1. \A v \in Worker : (who[v] = s /\ pc[v] = "post")' => Own(out[v], s)'
      BY <2>2, <2>5
    <3> QED BY <1>2, <1>5, <3>1, KnowsKept DEF ChainAt
  <2>8. ConnectsOnce(s)'
    <3>1. Silent(s)' BY <1>3, <1>5, SilentKept DEF Untouched
    <3>2. \A v \in Worker : Connects(v, s)' => v = w BY <2>5 DEF Connects
    <3> QED BY <1>4, <1>5, <3>1, <3>2 DEF ConnectsOnce
  <2>9. ChainAt(s)' BY <2>4, <2>6, <2>7, <2>8 DEF ChainAt
  <2> QED BY <1>1, <2>1, <2>2, <2>3, <2>9, ChainQuiet DEF testVars
<1> QED BY <1>6, <1>7, ConnectDoneEffect

-----------------------------------------------------------------------------
(* Chain when packets move.                                                *)

(* The parts of a queue of packets with one more.                          *)
LEMMA AppendParts ==
  ASSUME NEW q \in Seq(Packet), NEW p \in Packet, NEW k \in 1 .. Len(Append(q, p))
  PROVE  \/ k \in 1 .. Len(q) /\ Append(q, p)[k] = q[k]
         \/ k = Len(q) + 1 /\ Append(q, p)[k] = p
OBVIOUS

(* The parts of two queues of packets, one after the other.                *)
LEMMA ConcatParts ==
  ASSUME NEW a \in Seq(Packet), NEW b \in Seq(Packet), NEW k \in 1 .. Len(a \o b)
  PROVE  \/ \E i \in 1 .. Len(a) : (a \o b)[k] = a[i]
         \/ \E i \in 1 .. Len(b) : (a \o b)[k] = b[i]
<1>1. CASE k <= Len(a)
  <2>1. k \in 1 .. Len(a) /\ (a \o b)[k] = a[k] BY <1>1
  <2> QED BY <2>1
<1>2. CASE k > Len(a)
  <2>1. k - Len(a) \in 1 .. Len(b) /\ (a \o b)[k] = b[k - Len(a)] BY <1>2
  <2> QED BY <2>1
<1> QED BY <1>1, <1>2

(* What FlushSend does to a session whose sends are not in the kernel.     *)
Flushed(s, buf, n, count, rest) ==
  /\ mSendBuffer'[s] = buf /\ mSendRequestedCount'[s] = count + n
  /\ inflight'[s] = (IF n = 1 THEN Len(buf) ELSE 0)
  /\ wire'[s] = rest \/ (n = 1 /\ wire'[s] = rest \o buf)
  /\ pending'[s]["send"] = n
  /\ \A x \in IO \ {"send"} : pending'[s][x] = pending[s][x]
  /\ \A u \in Session \ {s} :
       /\ pending'[u] = pending[u] /\ mSendBuffer'[u] = mSendBuffer[u]
       /\ mSendRequestedCount'[u] = mSendRequestedCount[u] /\ inflight'[u] = inflight[u]
       /\ wire'[u] = wire[u]

(* What FlushSend does.                                                    *)
LEMMA FlushEffect ==
  ASSUME Base, NEW s \in Session, NEW buf, NEW ok \in BOOLEAN, NEW before,
         before.kernel = 0, FlushSend(s, buf, ok, before)
  PROVE  Flushed(s, buf, One(ok), before.count, before.wire)
<1>1. One(ok) = (IF ok THEN 1 ELSE 0) /\ One(ok) \in Nat /\ 0 + One(ok) = One(ok)
      /\ "send" \in IO
  BY DEF One, IO
<1>2. /\ pending'[s]["send"] = One(ok)
      /\ \A x \in IO \ {"send"} : pending'[s][x] = pending[s][x]
      /\ \A u \in Session \ {s} : pending'[u] = pending[u]
  <2>1. pending' = [pending EXCEPT ![s]["send"] = 0 + One(ok)] BY DEF FlushSend
  <2>2. pending \in [Session -> [IO -> Nat]] BY <1>1, PendingNat
  <2> QED BY <1>1, <2>1, <2>2, PendingEntry
<1>3. \A u \in Session \ {s} :
       /\ mSendBuffer'[u] = mSendBuffer[u]
       /\ mSendRequestedCount'[u] = mSendRequestedCount[u] /\ inflight'[u] = inflight[u]
       /\ wire'[u] = wire[u]
  BY DEF FlushSend, Base, SessionTypes, DataTypes
<1>4. /\ mSendBuffer'[s] = buf /\ mSendRequestedCount'[s] = before.count + One(ok)
      /\ inflight'[s] = (IF ok THEN Len(buf) ELSE 0)
      /\ wire'[s] = before.wire \/ (ok /\ wire'[s] = before.wire \o buf)
  BY DEF FlushSend, Base, SessionTypes, DataTypes
<1>5. CASE ok BY <1>1, <1>2, <1>3, <1>4, <1>5 DEF Flushed
<1>6. CASE ~ok BY <1>1, <1>2, <1>3, <1>4, <1>6 DEF Flushed
<1> QED BY <1>5, <1>6

(* What PostSend does.                                                     *)
LEMMA PostSendEffect ==
  ASSUME Base, NEW w \in Worker, NEW s \in Session, s = who[w], PostSend(w)
  PROVE  LET buf == Append(mSendBuffer[s], AsSent(out[w])) IN
         /\ pc[w] = "post" /\ out[w] \in Packet /\ mSendBuffer[s] \in Seq(Packet)
         /\ UNCHANGED <<netVars, testVars, timers, issued>>
         /\ \A v \in Worker \ {w} : out'[v] = out[v]
         /\ \/ /\ Left(w, s, hand[w], 0, timers[w])
               /\ UNCHANGED <<sendVars, pending>>
            \/ /\ Left(w, s, hand[w], 0, timers[w])
               /\ mSendRequestedCount[s] > 0
               /\ mSendBuffer' = [mSendBuffer EXCEPT ![s] = buf]
               /\ UNCHANGED <<mSendRequestedCount, inflight, wire, pending>>
            \/ /\ mSendRequestedCount[s] = 0 /\ pending[s]["send"] = 0
               /\ \E n \in {0, 1} : /\ Left(w, s, hand[w], n, timers[w])
                                    /\ Flushed(s, buf, n, 0, wire[s])
<1> DEFINE buf == Append(mSendBuffer[s], AsSent(out[w]))
<1>1. /\ pc[w] = "post" /\ out[w] \in Packet /\ mSendBuffer[s] \in Seq(Packet)
      /\ UNCHANGED <<netVars, testVars, timers, issued>>
      /\ \A v \in Worker \ {w} : out'[v] = out[v]
  BY DEF PostSend, Base, ThreadTypes, SessionTypes, DataTypes
<1>2. 0 \in Int /\ SessionTypes /\ ThreadTypes BY DEF Base
<1>3. Leave(w, s, hand[w], FALSE, 0, timers[w]) => Left(w, s, hand[w], 0, timers[w])
  BY <1>2, LeaveLeft
<1>4. CASE /\ mSendRequestedCount[s] = 0
           /\ \E ok \in BOOLEAN :
                /\ FlushSend(s, buf, ok, [count |-> 0, wire |-> wire[s],
                                          kernel |-> pending[s]["send"]])
                /\ Leave(w, s, hand[w], ~ok, One(ok), timers[w])
  <2> DEFINE before == [count |-> 0, wire |-> wire[s], kernel |-> pending[s]["send"]]
  <2>1. PICK ok \in BOOLEAN : /\ FlushSend(s, buf, ok, before)
                              /\ Leave(w, s, hand[w], ~ok, One(ok), timers[w])
    BY <1>4
  <2>2. pending[s]["send"] = 0
    <3>1. "send" \in IO BY DEF IO
    <3>2. pending[s]["send"] \in Nat BY <3>1, PendingNat
    <3> QED BY <1>4, <3>2 DEF Base, SendOK
  <2>3. before.kernel = 0 /\ before.count = 0 /\ before.wire = wire[s] BY <2>2
  <2>4. One(ok) \in Int /\ One(ok) \in {0, 1} BY DEF One
  <2> HIDE DEF before, buf
  <2>5. Left(w, s, hand[w], One(ok), timers[w])
    BY <1>2, <2>1, <2>4, LeaveLeft
  <2>6. Flushed(s, buf, One(ok), before.count, before.wire)
    BY <2>1, <2>3, FlushEffect
  <2>7. Flushed(s, buf, One(ok), 0, wire[s]) BY <2>3, <2>6
  <2> QED BY <1>1, <1>4, <2>2, <2>4, <2>5, <2>7 DEF buf
<1> QED BY <1>1, <1>3, <1>4 DEF PostSend

(* A handler of session s that moves its packets.                          *)
LEMMA SendingChain ==
  ASSUME Base, Base', Chain, NEW w \in Worker, NEW s \in Session, NEW io, NEW d,
         Left(w, s, io, d, timers[w]), UNCHANGED <<main, testVars, timers, issued, inbox>>,
         \A v \in Worker \ {w} : out'[v] = out[v] /\ ~Connects(v, s),
         who[w] \in {s, NoOne}, ~Untouched(s), Testing(w) /\ who[w] = s => io = "none",
         pending'[s]["connect"] = pending[s]["connect"],
         \A u \in Session \ {s} : SamePackets(u) /\ pending'[u] = pending[u],
         LoginOnce(s)',
         \A k \in 1 .. Len(mSendBuffer'[s]) : Own(mSendBuffer'[s][k], s),
         \A k \in 1 .. Len(wire'[s]) : Own(wire'[s][k], s)
  PROVE  Chain'
<1>1. /\ \A v \in Worker \ {w} : SameThread(v)
      /\ who'[w] \in {s, NoOne}
      /\ pc'[w] \in {"disc", "after", "loop", "idle"}
      /\ io = "none" => who'[w] = s /\ hand'[w] = "none" /\ pc'[w] \in {"disc", "after"}
      /\ \A u \in Session \ {s} : mConnected'[u] = mConnected[u]
  BY LeftThreads
<1>2. OthersSame(s) BY <1>1 DEF OthersSame, testVars
<1>3. ~Ahead(s)' /\ pending'[s]["connect"] = 0 /\ ChainAt(s)
  <2>1. ~Ahead(s) /\ pending[s]["connect"] = 0 BY Engaged DEF Chain, ChainAt
  <2> QED BY <2>1 DEF Ahead, Later, Chain, testVars
<1>4. Plays(s)'
  <2>1. \A v \in Worker : Testing(v) /\ who[v] = s => (Testing(v) /\ who[v] = s)'
    BY <1>1 DEF Testing, SameThread
  <2>2. SameTest(s) BY DEF SameTest, testVars
  <2> QED BY <1>3, <2>1, <2>2, PlaysKept DEF ChainAt
<1>5. KnowsItself(s)'
  <2>1. \A p : Own(p, s) => Own(p, s)' BY DEF Own, testVars
  <2>2. ASSUME NEW v \in Worker, (who[v] = s /\ pc[v] = "post")' PROVE Own(out[v], s)'
    <3>1. v # w BY <1>1, <2>2
    <3>2. who[v] = s /\ pc[v] = "post" /\ out'[v] = out[v] BY <1>1, <2>2, <3>1 DEF SameThread
    <3> QED BY <1>3, <2>1, <3>2 DEF KnowsItself, ChainAt
  <2>3. inbox'[s] # <<>> \/ HasJob(timers', s) => mPlayerSessionId'[s]
    BY <1>3 DEF KnowsItself, ChainAt, testVars
  <2>4. /\ \A k \in 1 .. Len(mSendBuffer'[s]) : Own(mSendBuffer[s][k], s)'
        /\ \A k \in 1 .. Len(wire'[s]) : Own(wire[s][k], s)'
    BY DEF Own, testVars
  <2> QED BY <2>2, <2>3, <2>4 DEF KnowsItself
<1>6. ConnectsOnce(s)'
  <2>1. \A v \in Worker : ~Connects(v, s)'
    BY <1>1 DEF Connects, SameThread
  <2> QED BY <1>3, <2>1, ConnectsKept DEF ChainAt
<1>7. ChainAt(s)' BY <1>4, <1>5, <1>6 DEF ChainAt
<1> QED BY <1>1, <1>2, <1>7, ChainQuiet DEF testVars

(* The login, alone in the buffer, is sent.                                *)
LEMMA LoginSent ==
  ASSUME NEW s \in Session, NEW buf \in Seq(Packet), NEW n \in {0, 1},
         IsLogin(buf), Len(buf) = 1,
         mSendBuffer'[s] = buf, inbox'[s] = <<>>,
         wire'[s] = <<>> \/ (n = 1 /\ wire'[s] = buf),
         inflight'[s] = (IF n = 1 THEN Len(buf) ELSE 0),
         n = 1 => mSendRequestedCount'[s] > 0
  PROVE  Before(s)'
<1>1. Len(inbox'[s]) = 0 /\ Len(buf) <= 1 OBVIOUS
<1>2. CASE wire'[s] = <<>>
  <2>1. IsLogin(wire'[s]) /\ Len(wire'[s]) = 0 BY <1>2 DEF IsLogin
  <2>2. Len(wire'[s]) + Len(inbox'[s]) <= 1 BY <1>1, <2>1
  <2> QED BY <1>1, <1>2, <2>1, <2>2 DEF Before
<1>3. CASE n = 1 /\ wire'[s] = buf
  <2>0. Len(wire'[s]) = 1 BY <1>3
  <2>1. Len(wire'[s]) + Len(inbox'[s]) <= 1 BY <1>1, <2>0
  <2>2. inflight'[s] = 1 /\ mSendRequestedCount'[s] > 0 BY <1>3
  <2> QED BY <1>1, <1>3, <2>1, <2>2 DEF Before
<1> QED BY <1>2, <1>3

(* The packets a thread posts.                                             *)
LEMMA PostSendChain ==
  ASSUME Base, Base', Chain, NEW w \in Worker, PostSend(w), UNCHANGED <<main, mPlayerIdx>>
  PROVE  Chain'
<1>0. PICK s \in Session : s = who[w]
  BY DEF PostSend, Stands, Base
<1> DEFINE m == AsSent(out[w])
           buf == Append(mSendBuffer[s], m)
<1>1. /\ pc[w] = "post" /\ out[w] \in Packet /\ mSendBuffer[s] \in Seq(Packet)
      /\ UNCHANGED <<netVars, testVars, timers, issued>>
      /\ \A v \in Worker \ {w} : out'[v] = out[v]
  BY <1>0, PostSendEffect
<1>2. /\ wire[s] \in Seq(Packet) /\ inbox[s] \in Seq(PacketType)
      /\ mSendRequestedCount[s] \in Int /\ inflight[s] \in Nat
  BY DEF Base, SessionTypes, DataTypes
<1>3. ChainAt(s) /\ ~Untouched(s) BY <1>0 DEF Chain, Untouched
<1>4. \/ hand[w] = "connect" /\ out[w].type = "login" /\ Connects(w, s)
      \/ hand[w] = "none" /\ out[w].type # "login" /\ Testing(w)
  BY <1>0, <1>1 DEF Base, Stands, Testing, Connects
<1>5. ASSUME Testing(w) PROVE Started(s)
  <2>1. ~IsEmpty(timers[w]) /\ timers[w].top.owner = s
    BY <1>0, <1>5 DEF Base, Due
  <2> QED BY <2>1 DEF Started, HasJob, Elements
<1>6. \A v \in Worker \ {w} : ~Connects(v, s)
  BY <1>3, <1>4, <1>5 DEF ChainAt, ConnectsOnce, Silent
<1>7. /\ m \in Packet /\ Own(m, s)
      /\ m.type = "login" <=> out[w].type = "login"
  <2>1. Own(out[w], s) BY <1>0, <1>1, <1>3 DEF ChainAt, KnowsItself
  <2> QED BY <1>1, <2>1, AsSentPacket
<1> HIDE DEF m
<1>8. \A k \in 1 .. Len(buf) : Own(buf[k], s)
  <2>1. \A k \in 1 .. Len(mSendBuffer[s]) : Own(mSendBuffer[s][k], s)
    BY <1>3 DEF ChainAt, KnowsItself
  <2> QED BY <1>1, <1>7, <2>1, AppendParts
<1>9. \A k \in 1 .. Len(wire[s]) : Own(wire[s][k], s)
  BY <1>3 DEF ChainAt, KnowsItself
<1>10. buf \in Seq(Packet) /\ Len(buf) = Len(mSendBuffer[s]) + 1
  BY <1>1, <1>7
<1>11. Started(s)' <=> Started(s) BY <1>1 DEF Started, testVars
<1>12. (Testing(w) /\ who[w] = s => hand[w] = "none") /\ who[w] \in {s, NoOne} 
       /\ UNCHANGED <<main, testVars, timers, issued, inbox>>
  BY <1>0, <1>1 DEF Testing, netVars
<1>13. CASE /\ Left(w, s, hand[w], 0, timers[w])
            /\ UNCHANGED <<sendVars, pending>>
  <2>1. \A u \in Session : SamePackets(u) /\ pending'[u] = pending[u]
    BY <1>12, <1>13 DEF SamePackets, sendVars, bufferVars
  <2>2. SameTest(s) BY <1>12 DEF SameTest, testVars
  <2>3. LoginOnce(s)' BY <1>3, <2>1, <2>2, LoginKept DEF ChainAt
  <2>4. \A k \in 1 .. Len(mSendBuffer'[s]) : Own(mSendBuffer'[s][k], s)
    BY <1>3, <1>13 DEF ChainAt, KnowsItself, sendVars, bufferVars
  <2>5. \A k \in 1 .. Len(wire'[s]) : Own(wire'[s][k], s)
    BY <1>9, <1>13 DEF sendVars
  <2>6. pending'[s]["connect"] = pending[s]["connect"] BY <1>13
  <2> HIDE DEF buf
  <2> QED BY <1>1, <1>3, <1>6, <1>12, <1>13, <2>1, <2>3, <2>4, <2>5, <2>6, SendingChain
<1>14. CASE /\ Left(w, s, hand[w], 0, timers[w])
            /\ mSendRequestedCount[s] > 0
            /\ mSendBuffer' = [mSendBuffer EXCEPT ![s] = buf]
            /\ UNCHANGED <<mSendRequestedCount, inflight, wire, pending>>
  <2>1. mSendBuffer'[s] = buf /\ \A u \in Session \ {s} : mSendBuffer'[u] = mSendBuffer[u]
    BY <1>14 DEF Base, SessionTypes, DataTypes
  <2>2. \A u \in Session \ {s} : SamePackets(u) /\ pending'[u] = pending[u]
    BY <1>12, <1>14, <2>1 DEF SamePackets
  <2>3. Started(s) /\ m.type # "login"
    <3>1. ~Connects(w, s) BY <1>3, <1>14 DEF ChainAt, ConnectsOnce, Silent
    <3> QED BY <1>4, <1>5, <1>7, <3>1
  <2>4. Since(s)'
    <3>0. Since(s) BY <1>3, <2>3 DEF ChainAt, LoginOnce
    <3>1. NoLogin(wire'[s]) /\ \A k \in 1 .. Len(inbox'[s]) : inbox'[s][k] # "login"
      BY <1>12, <1>14, <3>0 DEF Since
    <3>2. \A k \in 1 .. Len(buf) : \/ k \in 1 .. Len(mSendBuffer[s]) /\ buf[k] = mSendBuffer[s][k]
                                   \/ k = Len(mSendBuffer[s]) + 1 /\ buf[k] = m
      BY <1>1, <1>7, AppendParts
    <3>3. \A k \in 2 .. Len(mSendBuffer[s]) : mSendBuffer[s][k].type # "login"
      BY <3>0 DEF Since
    <3> HIDE DEF buf
    <3>4. \A k \in 2 .. Len(buf) : buf[k].type # "login"
      BY <1>10, <2>3, <3>2, <3>3
    <3>5. ASSUME buf[1].type = "login"
          PROVE  inflight'[s] = 1 /\ wire'[s] = <<>> /\ mSendRequestedCount'[s] > 0
      <4>1. 1 \in 1 .. Len(buf) BY <1>1, <1>10
      <4>2. mSendBuffer[s] # <<>> /\ mSendBuffer[s][1].type = "login"
        BY <1>1, <2>3, <3>2, <3>5, <4>1
      <4> QED BY <1>14, <3>0, <4>2 DEF Since
    <3> QED BY <2>1, <3>1, <3>4, <3>5 DEF Since
  <2>5. LoginOnce(s)' BY <1>11, <2>3, <2>4 DEF LoginOnce
  <2>6. \A k \in 1 .. Len(mSendBuffer'[s]) : Own(mSendBuffer'[s][k], s)
    BY <1>8, <2>1
  <2>7. \A k \in 1 .. Len(wire'[s]) : Own(wire'[s][k], s) BY <1>9, <1>14
  <2>8. pending'[s]["connect"] = pending[s]["connect"] BY <1>14
  <2> HIDE DEF buf
  <2> QED BY <1>1, <1>3, <1>6, <1>12, <1>14, <2>2, <2>5, <2>6, <2>7, <2>8, SendingChain
<1>15. CASE /\ mSendRequestedCount[s] = 0 /\ pending[s]["send"] = 0
            /\ \E n \in {0, 1} : /\ Left(w, s, hand[w], n, timers[w])
                                 /\ Flushed(s, buf, n, 0, wire[s])
  <2>1. PICK n \in {0, 1} : /\ Left(w, s, hand[w], n, timers[w])
                            /\ Flushed(s, buf, n, 0, wire[s])
    BY <1>15
  <2>2. /\ mSendBuffer'[s] = buf /\ mSendRequestedCount'[s] = n
        /\ inflight'[s] = (IF n = 1 THEN Len(buf) ELSE 0)
        /\ wire'[s] = wire[s] \/ (n = 1 /\ wire'[s] = wire[s] \o buf)
        /\ pending'[s]["connect"] = pending[s]["connect"]
    <3>1. 0 + n = n /\ "connect" \in IO \ {"send"} BY DEF IO
    <3> HIDE DEF buf
    <3> QED BY <2>1, <3>1 DEF Flushed
  <2>3. \A u \in Session \ {s} : SamePackets(u) /\ pending'[u] = pending[u]
    BY <1>12, <2>1 DEF SamePackets, Flushed
  <2>4. \A k \in 1 .. Len(wire'[s]) : Own(wire'[s][k], s)
    <3> HIDE DEF buf
    <3>1. \A k \in 1 .. Len(wire[s] \o buf) : Own((wire[s] \o buf)[k], s)
      BY <1>2, <1>8, <1>9, <1>10, ConcatParts
    <3> QED BY <1>9, <2>2, <3>1
  <2>5. CASE Connects(w, s)
    <3>1. /\ mSendBuffer[s] = <<>> /\ wire[s] = <<>> /\ inbox[s] = <<>> /\ ~Started(s)
      BY <1>3, <2>5 DEF ChainAt, ConnectsOnce, Silent
    <3>2. m.type = "login" BY <1>4, <1>7, <2>5 DEF Connects, Testing
    <3>3. Len(buf) = 1 /\ buf[1] = m /\ wire[s] \o buf = buf /\ buf # <<>>
      BY <1>1, <3>1
    <3>4. IsLogin(buf) BY <3>2, <3>3 DEF IsLogin
    <3> HIDE DEF buf
    <3>5. Before(s)'
      <4>1. inbox'[s] = <<>> BY <1>12, <3>1
      <4>2. wire'[s] = <<>> \/ (n = 1 /\ wire'[s] = buf) BY <2>2, <3>1, <3>3
      <4>3. n = 1 => mSendRequestedCount'[s] > 0 BY <2>2
      <4> QED BY <1>10, <2>2, <3>3, <3>4, <4>1, <4>2, <4>3, LoginSent
    <3>6. LoginOnce(s)' BY <1>11, <3>1, <3>5 DEF LoginOnce
    <3> QED BY <1>1, <1>3, <1>6, <1>8, <1>12, <2>1, <2>2, <2>3, <2>4, <3>6, SendingChain
  <2>6. CASE Testing(w)
    <3>1. Since(s) /\ Started(s) BY <1>3, <1>5, <2>6 DEF ChainAt, LoginOnce
    <3>2. m.type # "login" BY <1>4, <1>7, <2>6 DEF Connects, Testing
    <3>3. NoLogin(mSendBuffer[s])
      <4>1. ~(mSendBuffer[s] # <<>> /\ mSendBuffer[s][1].type = "login")
        BY <1>15, <3>1 DEF Since
      <4>2. \A k \in 2 .. Len(mSendBuffer[s]) : mSendBuffer[s][k].type # "login"
        BY <3>1 DEF Since
      <4>3. ASSUME NEW k \in 1 .. Len(mSendBuffer[s]) PROVE mSendBuffer[s][k].type # "login"
        <5>1. mSendBuffer[s] # <<>> BY <1>1, <4>3
        <5>2. k = 1 \/ k \in 2 .. Len(mSendBuffer[s]) BY <1>1, <4>3
        <5> QED BY <4>1, <4>2, <5>1, <5>2
      <4> QED BY <4>3 DEF NoLogin
    <3>4. NoLogin(buf)
      BY <1>1, <3>2, <3>3, AppendParts DEF NoLogin
    <3> HIDE DEF buf
    <3>5. NoLogin(wire'[s])
      <4>1. NoLogin(wire[s]) BY <3>1 DEF Since
      <4>2. NoLogin(wire[s] \o buf)
        BY <1>2, <1>10, <3>4, <4>1, ConcatParts DEF NoLogin
      <4> QED BY <2>2, <4>1, <4>2
    <3>6. Since(s)'
      <4>1. \A k \in 2 .. Len(buf) : buf[k].type # "login"
        <5>1. \A k \in 2 .. Len(buf) : k \in 1 .. Len(buf) BY <1>10
        <5> QED BY <3>4, <5>1 DEF NoLogin
      <4>2. buf[1].type # "login"
        <5>1. 1 \in 1 .. Len(buf) BY <1>1, <1>10
        <5> QED BY <3>4, <5>1 DEF NoLogin
      <4>3. \A k \in 1 .. Len(inbox'[s]) : inbox'[s][k] # "login"
        BY <1>12, <3>1 DEF Since
      <4> QED BY <2>2, <3>5, <4>1, <4>2, <4>3 DEF Since
    <3>7. LoginOnce(s)' BY <1>11, <3>1, <3>6 DEF LoginOnce
    <3> QED BY <1>1, <1>3, <1>6, <1>8, <1>12, <2>1, <2>2, <2>3, <2>4, <3>7, SendingChain
  <2> QED BY <1>4, <2>5, <2>6
<1> QED BY <1>0, <1>13, <1>14, <1>15, PostSendEffect DEF m

(* The packets behind the first a, and all but the last.                   *)
LEMMA RestParts ==
  ASSUME NEW q \in Seq(Packet), NEW a \in Nat, a <= Len(q)
  PROVE  LET r == SubSeq(q, a + 1, Len(q)) IN
         /\ r \in Seq(Packet) /\ Len(r) = Len(q) - a
         /\ \A k \in 1 .. Len(r) : k + a \in 1 .. Len(q) /\ r[k] = q[k + a]
<1> DEFINE n == Len(q)
           m == a + 1
           r == SubSeq(q, m, n)
<1>1. n \in Nat /\ m \in Int /\ n \in Int /\ \A i \in m .. n : i \in 1 .. n
  OBVIOUS
<1>2. \A i \in m .. n : q[i] \in Packet BY <1>1
<1>3. /\ r \in Seq(Packet)
      /\ Len(r) = IF m <= n THEN n - m + 1 ELSE 0
      /\ \A i \in 1 .. n - m + 1 : r[i] = q[m + i - 1]
  <2> HIDE DEF n, m
  <2> QED BY <1>1, <1>2, SubSeqProperties DEF r
<1> HIDE DEF r
<1>4. Len(r) = n - a BY <1>1, <1>3
<1>5. ASSUME NEW k \in 1 .. n - a PROVE k + a \in 1 .. n /\ r[k] = q[k + a]
  <2>1. k \in 1 .. n - m + 1 /\ m + k - 1 = k + a /\ k + a \in 1 .. n BY <1>1
  <2> QED BY <1>3, <2>1
<1> QED BY <1>3, <1>4, <1>5 DEF r

(* The parts of a queue of packets without the last.                       *)
LEMMA FrontParts ==
  ASSUME NEW q \in Seq(Packet), q # <<>>
  PROVE  /\ Front(q) \in Seq(Packet) /\ Len(Front(q)) = Len(q) - 1
         /\ \A k \in 1 .. Len(Front(q)) : k \in 1 .. Len(q) /\ Front(q)[k] = q[k]
<1>1. Len(q) \in Nat /\ Len(q) >= 1 OBVIOUS
<1>2. Front(q) = SubSeq(q, 1, Len(q) - 1) BY DEF Front
<1>3. Len(q) - 1 \in 0 .. Len(q) BY <1>1
<1> DEFINE m == Len(q) - 1
<1>4. m \in Nat /\ m <= Len(q) BY <1>1
<1> HIDE DEF m
<1>5. Len(SubSeq(q, 1, m)) = m /\ SubSeq(q, 1, m) \in Seq(Packet)
      /\ \A k \in 1 .. m : SubSeq(q, 1, m)[k] = q[k]
  BY <1>4
<1>6. \A k \in 1 .. m : k \in 1 .. Len(q) BY <1>1, <1>4
<1> QED BY <1>2, <1>5, <1>6 DEF m

Rest(s, sent) == SubSeq(mSendBuffer[s], sent + 1, Len(mSendBuffer[s]))

(* What the handler of a send does.                                        *)
LEMMA SendDoneEffect ==
  ASSUME Base, NEW w \in Worker, NEW s \in Session, SendDone(w, s)
  PROVE  /\ pending[s]["send"] = 1 /\ mSendRequestedCount[s] > 0
         /\ inflight[s] > 0 /\ inflight[s] <= Len(mSendBuffer[s])
         /\ who[w] = NoOne /\ ~Testing(w)
         /\ UNCHANGED <<netVars, testVars, timers, issued, out>>
         /\ \E sent \in {inflight[s], inflight[s] - 1}, n \in {0, 1} :
              /\ sent < inflight[s] => wire[s] # <<>>
              /\ Left(w, s, "send", n, timers[w])
              /\ Flushed(s, Rest(s, sent), n, mSendRequestedCount[s] - 1,
                         IF Rest(s, sent) # <<>> /\ sent < inflight[s]
                         THEN Front(wire[s]) ELSE wire[s])
<1>1. /\ pending[s]["send"] > 0 /\ who[w] = NoOne /\ ~Testing(w)
      /\ UNCHANGED <<netVars, testVars, timers, issued, out>>
  BY DEF SendDone, Dequeued, Base, Stands, Testing
<1>2. 0 \in Int /\ "send" \in IO /\ SessionTypes /\ ThreadTypes BY DEF IO, Base
<1>3. /\ pending[s]["send"] \in Nat /\ pending \in [Session -> [IO -> Nat]]
      /\ mSendRequestedCount[s] \in Int /\ inflight[s] \in Nat
  BY <1>2, PendingNat DEF Base, SessionTypes, DataTypes
<1>4. /\ pending[s]["send"] = 1 /\ mSendRequestedCount[s] > 0
      /\ inflight[s] > 0 /\ inflight[s] <= Len(mSendBuffer[s])
  <2>1. SendOK(s) BY DEF Base
  <2> QED BY <1>1, <1>3, <2>1 DEF SendOK
<1> DEFINE before(sent) == [count |-> mSendRequestedCount[s] - 1,
                            kernel |-> pending[s]["send"] - 1,
                            wire |-> IF sent < inflight[s] THEN Front(wire[s]) ELSE wire[s]]
<1>5. PICK sent \in {inflight[s], inflight[s] - 1} :
         /\ sent < inflight[s] => wire[s] # <<>>
         /\ \/ /\ Rest(s, sent) = <<>>
               /\ mSendBuffer' = [mSendBuffer EXCEPT ![s] = Rest(s, sent)]
               /\ mSendRequestedCount' =
                    [mSendRequestedCount EXCEPT ![s] = mSendRequestedCount[s] - 1]
               /\ inflight' = [inflight EXCEPT ![s] = 0]
               /\ pending' = [pending EXCEPT ![s]["send"] = pending[s]["send"] - 1]
               /\ UNCHANGED wire
               /\ Leave(w, s, "send", FALSE, 0, timers[w])
            \/ /\ Rest(s, sent) # <<>>
               /\ \E ok \in BOOLEAN :
                    /\ FlushSend(s, Rest(s, sent), ok, before(sent))
                    /\ Leave(w, s, "send", ~ok \/ sent < inflight[s], One(ok), timers[w])
  BY DEF SendDone, Rest
<1>6. CASE /\ Rest(s, sent) = <<>>
           /\ mSendBuffer' = [mSendBuffer EXCEPT ![s] = Rest(s, sent)]
           /\ mSendRequestedCount' =
                [mSendRequestedCount EXCEPT ![s] = mSendRequestedCount[s] - 1]
           /\ inflight' = [inflight EXCEPT ![s] = 0]
           /\ pending' = [pending EXCEPT ![s]["send"] = pending[s]["send"] - 1]
           /\ UNCHANGED wire
           /\ Leave(w, s, "send", FALSE, 0, timers[w])
  <2>1. Left(w, s, "send", 0, timers[w]) BY <1>2, <1>6, LeaveLeft
  <2>2. /\ pending'[s]["send"] = 0
        /\ \A x \in IO \ {"send"} : pending'[s][x] = pending[s][x]
        /\ \A u \in Session \ {s} : pending'[u] = pending[u]
    <3>1. pending[s]["send"] - 1 = 0 /\ 0 \in Nat BY <1>4
    <3>2. pending' = [pending EXCEPT ![s]["send"] = 0] BY <1>6, <3>1
    <3> QED BY <1>2, <1>3, <3>1, <3>2, PendingEntry
  <2>3. mSendRequestedCount[s] - 1 + 0 = mSendRequestedCount[s] - 1 BY <1>3
  <2>4. /\ mSendBuffer'[s] = Rest(s, sent)
        /\ mSendRequestedCount'[s] = mSendRequestedCount[s] - 1
        /\ inflight'[s] = 0 /\ wire'[s] = wire[s]
        /\ \A u \in Session \ {s} :
             /\ mSendBuffer'[u] = mSendBuffer[u] /\ inflight'[u] = inflight[u]
             /\ mSendRequestedCount'[u] = mSendRequestedCount[u] /\ wire'[u] = wire[u]
    BY <1>6 DEF Base, SessionTypes, DataTypes
  <2>5. Flushed(s, Rest(s, sent), 0, mSendRequestedCount[s] - 1, wire[s])
    BY <2>2, <2>3, <2>4 DEF Flushed
  <2> QED BY <1>1, <1>4, <1>5, <1>6, <2>1, <2>5
<1>7. CASE /\ Rest(s, sent) # <<>>
           /\ \E ok \in BOOLEAN :
                /\ FlushSend(s, Rest(s, sent), ok, before(sent))
                /\ Leave(w, s, "send", ~ok \/ sent < inflight[s], One(ok), timers[w])
  <2>1. PICK ok \in BOOLEAN :
                /\ FlushSend(s, Rest(s, sent), ok, before(sent))
                /\ Leave(w, s, "send", ~ok \/ sent < inflight[s], One(ok), timers[w])
    BY <1>7
  <2>2. before(sent).kernel = 0 /\ before(sent).count = mSendRequestedCount[s] - 1
        /\ before(sent).wire = IF sent < inflight[s] THEN Front(wire[s]) ELSE wire[s]
    BY <1>4
  <2>3. One(ok) \in Int /\ One(ok) \in {0, 1} BY DEF One
  <2> HIDE DEF before
  <2>4. Left(w, s, "send", One(ok), timers[w]) BY <1>2, <2>1, <2>3, LeaveLeft
  <2>5. Flushed(s, Rest(s, sent), One(ok), before(sent).count, before(sent).wire)
    BY <2>1, <2>2, FlushEffect
  <2>6. Flushed(s, Rest(s, sent), One(ok), mSendRequestedCount[s] - 1,
                         IF Rest(s, sent) # <<>> /\ sent < inflight[s]
                         THEN Front(wire[s]) ELSE wire[s])
    BY <1>7, <2>2, <2>5
  <2> QED BY <1>1, <1>4, <1>5, <2>3, <2>4, <2>6
<1> QED BY <1>5, <1>6, <1>7

(* SendDone keeps Chain.                                                   *)
LEMMA SendDoneChain ==
  ASSUME Base, Base', Chain, NEW w \in Worker, NEW s \in Session, SendDone(w, s),
         UNCHANGED <<main, mPlayerIdx>>
  PROVE  Chain'
<1> DEFINE buf == mSendBuffer[s]
<1>1. /\ pending[s]["send"] = 1 /\ mSendRequestedCount[s] > 0
      /\ inflight[s] > 0 /\ inflight[s] <= Len(buf)
      /\ who[w] = NoOne /\ ~Testing(w)
      /\ UNCHANGED <<netVars, testVars, timers, issued, out>>
  BY SendDoneEffect
<1>2. PICK sent \in {inflight[s], inflight[s] - 1}, n \in {0, 1} :
              /\ sent < inflight[s] => wire[s] # <<>>
              /\ Left(w, s, "send", n, timers[w])
              /\ Flushed(s, Rest(s, sent), n, mSendRequestedCount[s] - 1,
                         IF Rest(s, sent) # <<>> /\ sent < inflight[s]
                         THEN Front(wire[s]) ELSE wire[s])
  BY SendDoneEffect
<1>3. /\ wire[s] \in Seq(Packet) /\ inbox[s] \in Seq(PacketType)
      /\ mSendRequestedCount[s] \in Int /\ inflight[s] \in Nat /\ buf \in Seq(Packet)
      /\ Len(buf) \in Nat
  BY DEF Base, SessionTypes, DataTypes
<1>4. sent \in Nat /\ sent <= Len(buf) BY <1>1, <1>3
<1> DEFINE rest == Rest(s, sent)
           left == IF rest # <<>> /\ sent < inflight[s] THEN Front(wire[s]) ELSE wire[s]
<1>5. /\ rest \in Seq(Packet) /\ Len(rest) = Len(buf) - sent
      /\ \A k \in 1 .. Len(rest) : k + sent \in 1 .. Len(buf) /\ rest[k] = buf[k + sent]
  <2> HIDE DEF buf
  <2>1. rest = SubSeq(buf, sent + 1, Len(buf)) BY DEF Rest, buf
  <2> HIDE DEF rest
  <2> QED BY <1>3, <1>4, <2>1, RestParts
<1>6. /\ left \in Seq(Packet)
      /\ \A k \in 1 .. Len(left) : k \in 1 .. Len(wire[s]) /\ left[k] = wire[s][k]
  <2> HIDE DEF rest
  <2>1. CASE rest # <<>> /\ sent < inflight[s] BY <1>2, <1>3, <2>1, FrontParts
  <2>2. CASE ~(rest # <<>> /\ sent < inflight[s]) BY <1>3, <2>2
  <2> QED BY <2>1, <2>2
<1>7. /\ mSendBuffer'[s] = rest /\ mSendRequestedCount'[s] = mSendRequestedCount[s] - 1 + n
      /\ inflight'[s] = (IF n = 1 THEN Len(rest) ELSE 0)
      /\ wire'[s] = left \/ (n = 1 /\ wire'[s] = left \o rest)
      /\ pending'[s]["connect"] = pending[s]["connect"]
  <2>1. "connect" \in IO \ {"send"} BY DEF IO
  <2> QED BY <1>2, <2>1 DEF Flushed
<1>8. \A u \in Session \ {s} : SamePackets(u) /\ pending'[u] = pending[u]
  BY <1>1, <1>2 DEF SamePackets, Flushed, netVars
<1>9. ChainAt(s) /\ ~Untouched(s) /\ \A v \in Worker : ~Connects(v, s)
  BY <1>1 DEF Chain, Untouched, Silent, ChainAt, ConnectsOnce
<1> HIDE DEF buf, rest, left
<1>10. \A k \in 1 .. Len(rest) : Own(rest[k], s)
  <2>1. \A k \in 1 .. Len(buf) : Own(buf[k], s) BY <1>9 DEF ChainAt, KnowsItself, buf
  <2> QED BY <1>5, <2>1
<1>11. \A k \in 1 .. Len(wire'[s]) : Own(wire'[s][k], s)
  <2>1. \A k \in 1 .. Len(wire[s]) : Own(wire[s][k], s) BY <1>9 DEF ChainAt, KnowsItself
  <2>2. \A k \in 1 .. Len(left) : Own(left[k], s) BY <1>6, <2>1
  <2>3. \A k \in 1 .. Len(left \o rest) : Own((left \o rest)[k], s)
    BY <1>5, <1>6, <1>10, <2>2, ConcatParts
  <2> QED BY <1>7, <2>2, <2>3
<1>12. Started(s)' <=> Started(s) BY <1>1 DEF Started, testVars
<1>13. inbox'[s] = inbox[s] BY <1>1 DEF netVars
<1>14. ASSUME ~Started(s) PROVE LoginOnce(s)'
  <2>1. Before(s) BY <1>9, <1>14 DEF ChainAt, LoginOnce
  <2>2. Len(buf) = 1 /\ inflight[s] = 1 /\ IsLogin(buf)
    <3>1. Len(buf) <= 1 /\ IsLogin(buf) BY <2>1 DEF Before, buf
    <3>2. \A a, b \in Nat : a > 0 /\ a <= b /\ b <= 1 => a = 1 /\ b = 1 OBVIOUS
    <3> QED BY <1>1, <1>3, <3>1, <3>2
  <2>3. CASE sent = 1
    <3>1. Len(rest) = 0 /\ rest = <<>> /\ Len(rest) <= 1 BY <1>5, <2>2, <2>3
    <3>2. left \o rest = left BY <1>6, <3>1
    <3>3. wire'[s] = wire[s] BY <1>7, <3>1, <3>2 DEF left
    <3>4. IsLogin(rest) BY <3>1 DEF IsLogin
    <3>5. Before(s)' BY <1>7, <1>13, <2>1, <3>1, <3>3, <3>4 DEF Before
    <3> QED BY <1>12, <1>14, <3>5 DEF LoginOnce
  <2>4. CASE sent = 0
    <3>1. Len(rest) = 1 /\ rest # <<>> /\ sent < inflight[s] /\ wire[s] # <<>>
      <4>1. sent < inflight[s] BY <2>2, <2>4
      <4>2. Len(rest) = 1 BY <1>5, <2>2, <2>4
      <4>3. rest # <<>>
        <5>1. rest = <<>> => Len(rest) = 0 OBVIOUS
        <5> QED BY <4>2, <5>1
      <4> QED BY <1>2, <4>1, <4>2, <4>3
    <3>2. IsLogin(rest) BY <1>5, <2>2, <2>4 DEF IsLogin
    <3>3. Len(wire[s]) = 1 /\ inbox[s] = <<>>
      <4>1. Len(wire[s]) + Len(inbox[s]) <= 1 BY <2>1 DEF Before
      <4>2. \A a, b \in Nat : a + b <= 1 /\ a # 0 => a = 1 /\ b = 0 OBVIOUS
      <4>3. Len(wire[s]) \in Nat /\ Len(inbox[s]) \in Nat /\ Len(wire[s]) # 0
        BY <1>3, <3>1
      <4>4. Len(wire[s]) = 1 /\ Len(inbox[s]) = 0 BY <4>1, <4>2, <4>3
      <4> QED BY <1>3, <4>4
    <3>4. left = <<>> /\ left \o rest = rest
      <4>1. left = Front(wire[s]) BY <3>1 DEF left
      <4>2. Len(left) = 0 BY <1>3, <3>1, <3>3, <4>1, FrontParts
      <4>3. left = <<>> BY <1>6, <4>2
      <4> QED BY <1>5, <4>3
    <3>5. n = 1 => mSendRequestedCount'[s] > 0 BY <1>1, <1>3, <1>7
    <3>6. wire'[s] = <<>> \/ (n = 1 /\ wire'[s] = rest) BY <1>7, <3>4
    <3>7. inbox'[s] = <<>> BY <1>13, <3>3
    <3>8. Before(s)' BY <1>5, <1>7, <3>1, <3>2, <3>5, <3>6, <3>7, LoginSent
    <3> QED BY <1>12, <1>14, <3>8 DEF LoginOnce
  <2> QED BY <1>3, <2>2, <2>3, <2>4
<1>15. ASSUME Started(s) PROVE LoginOnce(s)'
  <2>1. Since(s) BY <1>9, <1>15 DEF ChainAt, LoginOnce
  <2>2. NoLogin(rest)
    <3>1. \A k \in 2 .. Len(buf) : buf[k].type # "login" BY <2>1 DEF Since, buf
    <3>2. CASE sent > 0
      <4>1. \A k \in 1 .. Len(rest) : k + sent \in 2 .. Len(buf) BY <1>3, <1>4, <1>5, <3>2
      <4> QED BY <1>5, <3>1, <4>1 DEF NoLogin
    <3>3. CASE sent = 0
      <4>1. wire[s] # <<>> BY <1>1, <1>2, <3>3
      <4>2. buf # <<>> => buf[1].type # "login" BY <2>1, <4>1 DEF Since, buf
      <4>3. ASSUME NEW k \in 1 .. Len(rest) PROVE rest[k].type # "login"
        <5>1. k \in 1 .. Len(buf) /\ rest[k] = buf[k] BY <1>5, <3>3
        <5>2. buf # <<>> BY <5>1
        <5>3. k = 1 \/ k \in 2 .. Len(buf) BY <1>3, <5>1
        <5> QED BY <3>1, <4>2, <5>1, <5>2, <5>3
      <4> QED BY <4>3 DEF NoLogin
    <3> QED BY <1>4, <3>2, <3>3
  <2>3. NoLogin(wire'[s])
    <3>1. NoLogin(left) BY <1>6, <2>1 DEF Since, NoLogin
    <3>2. NoLogin(left \o rest) BY <1>5, <1>6, <2>2, <3>1, ConcatParts DEF NoLogin
    <3> QED BY <1>7, <3>1, <3>2
  <2>4. \A k \in 1 .. Len(inbox'[s]) : inbox'[s][k] # "login" BY <1>13, <2>1 DEF Since
  <2>5. \A k \in 2 .. Len(rest) : rest[k].type # "login"
    <3>1. \A k \in 2 .. Len(rest) : k \in 1 .. Len(rest) BY <1>5
    <3> QED BY <2>2, <3>1 DEF NoLogin
  <2>6. rest # <<>> => rest[1].type # "login"
    <3>1. rest # <<>> => 1 \in 1 .. Len(rest) BY <1>5
    <3> QED BY <2>2, <3>1 DEF NoLogin
  <2>7. Since(s)' BY <1>7, <2>3, <2>4, <2>5, <2>6 DEF Since
  <2> QED BY <1>12, <1>15, <2>7 DEF LoginOnce
<1>16. LoginOnce(s)' BY <1>14, <1>15
<1>17. /\ UNCHANGED <<main, testVars, timers, issued, inbox>>
       /\ \A v \in Worker \ {w} : out'[v] = out[v] /\ ~Connects(v, s)
       /\ \A k \in 1 .. Len(mSendBuffer'[s]) : Own(mSendBuffer'[s][k], s)
       /\ pending'[s]["connect"] = pending[s]["connect"]
  BY <1>1, <1>7, <1>9, <1>10 DEF netVars
<1>18. /\ Left(w, s, "send", n, timers[w]) /\ who[w] \in {s, NoOne} /\ ~Untouched(s)
       /\ Testing(w) /\ who[w] = s => "send" = "none"
  BY <1>1, <1>2, <1>9
<1> QED BY <1>8, <1>11, <1>16, <1>17, <1>18, SendingChain

-----------------------------------------------------------------------------
(* Chain when the timer's queue changes.                                   *)

(* Pushing a job that was not there keeps the queue neat.                  *)
LEMMA PushNeat ==
  ASSUME NEW q, GoodQueue(q), Neat(q), NEW e \in JobOf, e \notin Elements(q)
  PROVE  Neat(Push(q, e))
BY NoJobIsNone DEF Push, Elements, IsEmpty, Queue, JobOf, GoodQueue, Neat

(* The parts of an inbox whose first k packets were read.                  *)
LEMMA InboxParts ==
  ASSUME NEW T, NEW q \in Seq(T), NEW k \in 1 .. Len(q)
  PROVE  LET r == SubSeq(q, k + 1, Len(q)) IN
         /\ r \in Seq(T) /\ Len(r) = Len(q) - k
         /\ \A i \in 1 .. Len(r) : i + k \in 1 .. Len(q) /\ r[i] = q[i + k]
OBVIOUS

(* What the handler of a receive does.                                     *)
LEMMA RecvDoneEffect ==
  ASSUME Base, NEW w \in Worker, NEW s \in Session, RecvDone(w, s)
  PROVE  /\ pending[s]["recv"] > 0 /\ who[w] = NoOne /\ ~Testing(w)
         /\ UNCHANGED <<sendVars, testVars, issued, out>>
         /\ \E k \in 1 .. Len(inbox[s]), n \in {0, 1} :
              LET packets == SubSeq(inbox[s], 1, k)
                  q == OnRead(w, s, packets)
              IN
              /\ inbox' = [inbox EXCEPT ![s] = SubSeq(inbox[s], k + 1, Len(inbox[s]))]
              /\ timers' = [timers EXCEPT ![w] = q]
              /\ Replaces(s, "recv", "zero", n)
              /\ Left(w, s, "recv", n + One(HasLogin(packets)), q)
<1>1. /\ pending[s]["recv"] > 0 /\ who[w] = NoOne /\ ~Testing(w)
      /\ UNCHANGED <<sendVars, testVars, issued, out>>
  BY DEF RecvDone, Dequeued, Base, Stands, Testing
<1>2. PICK k \in 1 .. Len(inbox[s]), ok \in BOOLEAN :
        LET packets == SubSeq(inbox[s], 1, k)
            posted == PreRecv(s, ok)
            q == OnRead(w, s, packets)
        IN
        /\ inbox' = [inbox EXCEPT ![s] = SubSeq(inbox[s], k + 1, Len(inbox[s]))]
        /\ timers' = [timers EXCEPT ![w] = q]
        /\ pending' = [pending EXCEPT ![s]["recv"] = @ - 1, ![s]["zero"] = @ + One(posted)]
        /\ Leave(w, s, "recv", ~posted, One(posted) + One(HasLogin(packets)), q)
  BY DEF RecvDone
<1> DEFINE packets == SubSeq(inbox[s], 1, k)
           q == OnRead(w, s, packets)
           n == One(PreRecv(s, ok))
           d == n + One(HasLogin(packets))
<1>3. /\ n \in Nat /\ n \in {0, 1} /\ "zero" \in IO /\ "recv" \in IO /\ "zero" # "recv"
      /\ d \in Int
  BY DEF One, IO
<1>4. /\ pending' = [pending EXCEPT ![s]["recv"] = @ - 1, ![s]["zero"] = @ + n]
      /\ Leave(w, s, "recv", ~PreRecv(s, ok), d, q)
  BY <1>2
<1>5. SessionTypes /\ ThreadTypes BY DEF Base
<1>6. inbox' = [inbox EXCEPT ![s] = SubSeq(inbox[s], k + 1, Len(inbox[s]))]
      /\ timers' = [timers EXCEPT ![w] = q]
  BY <1>2
<1> HIDE DEF n, q
<1>7. Replaces(s, "recv", "zero", n)
  BY <1>1, <1>3, <1>4, PendingMoves
<1>8. Left(w, s, "recv", d, q)
  <2> HIDE DEF d
  <2> QED BY <1>3, <1>4, <1>5, LeaveLeft
<1> QED BY <1>1, <1>3, <1>6, <1>7, <1>8 DEF q

(* RecvDone keeps Chain.                                                   *)
LEMMA RecvDoneChain ==
  ASSUME Base, Base', Chain, NEW w \in Worker, NEW s \in Session, RecvDone(w, s),
         UNCHANGED <<main, mPlayerIdx>>
  PROVE  Chain'
<1>1. /\ pending[s]["recv"] > 0 /\ who[w] = NoOne /\ ~Testing(w)
      /\ UNCHANGED <<sendVars, testVars, issued, out>>
  BY RecvDoneEffect
<1>2. PICK k \in 1 .. Len(inbox[s]), n \in {0, 1} :
              LET packets == SubSeq(inbox[s], 1, k)
                  q == OnRead(w, s, packets)
              IN
              /\ inbox' = [inbox EXCEPT ![s] = SubSeq(inbox[s], k + 1, Len(inbox[s]))]
              /\ timers' = [timers EXCEPT ![w] = q]
              /\ Replaces(s, "recv", "zero", n)
              /\ Left(w, s, "recv", n + One(HasLogin(packets)), q)
  BY RecvDoneEffect
<1> DEFINE packets == SubSeq(inbox[s], 1, k)
           q == OnRead(w, s, packets)
           rest == SubSeq(inbox[s], k + 1, Len(inbox[s]))
<1>3. /\ inbox[s] \in Seq(PacketType) /\ wire[s] \in Seq(Packet)
      /\ mSendBuffer[s] \in Seq(Packet) /\ mPlayTestCount[s] \in Nat
      /\ Len(inbox[s]) \in Nat /\ Len(wire[s]) \in Nat /\ Len(mSendBuffer[s]) \in Nat
  BY DEF Base, SessionTypes, DataTypes
<1>4. inbox'[s] = rest /\ \A u \in Session \ {s} : inbox'[u] = inbox[u]
  BY <1>2 DEF Base, SessionTypes, DataTypes
<1>5. /\ Len(rest) \in Nat /\ Len(rest) = Len(inbox[s]) - k
      /\ rest \in Seq(PacketType)
      /\ \A i \in 1 .. Len(rest) : i + k \in 1 .. Len(inbox[s]) /\ rest[i] = inbox[s][i + k]
  <2>1. /\ rest \in Seq(PacketType) /\ Len(rest) = Len(inbox[s]) - k
        /\ \A i \in 1 .. Len(rest) : i + k \in 1 .. Len(inbox[s]) /\ rest[i] = inbox[s][i + k]
    BY <1>3, InboxParts
  <2> HIDE DEF rest
  <2>2. Len(rest) \in Nat BY <2>1
  <2> QED BY <2>1, <2>2
<1>6. HasLogin(packets) <=> \E i \in 1 .. k : inbox[s][i] = "login"
  BY <1>3 DEF HasLogin
<1>7. inbox[s] # <<>> /\ k >= 1 /\ k <= Len(inbox[s]) BY <1>3
<1>8. timers'[w] = q /\ \A v \in Worker \ {w} : timers'[v] = timers[v]
  BY <1>2 DEF Base, ThreadTypes
<1>9. Left(w, s, "recv", n + One(HasLogin(packets)), q) /\ Replaces(s, "recv", "zero", n)
  BY <1>2
<1> HIDE DEF packets, q, rest
<1>10. /\ \A v \in Worker \ {w} : SameThread(v)
       /\ who'[w] \in {s, NoOne}
       /\ pc'[w] \in {"disc", "after", "loop", "idle"}
       /\ \A u \in Session \ {s} : mConnected'[u] = mConnected[u]
  <2>1. \A v \in Worker \ {w} : out'[v] = out[v] BY <1>1
  <2> QED BY <1>8, <1>9, <2>1, LeftThreads
<1>11. /\ ChainAt(s) /\ ~Untouched(s) /\ \A v \in Worker : ~Connects(v, s)
  <2>1. ~Silent(s) BY <1>7 DEF Silent
  <2> QED BY <2>1 DEF Chain, Untouched, ChainAt, ConnectsOnce
<1>12. ~Ahead(s)' /\ pending'[s]["connect"] = 0
  <2>1. ~Ahead(s) /\ pending[s]["connect"] = 0 BY <1>11, Engaged DEF ChainAt
  <2>2. pending'[s]["connect"] = pending[s]["connect"] BY <1>9 DEF Replaces, IO
  <2> QED BY <2>1, <2>2 DEF Ahead, Later
<1>13. ConnectsOnce(s)'
  <2>1. \A v \in Worker : ~Connects(v, s)'
    BY <1>10, <1>11 DEF Connects, SameThread
  <2> QED BY <1>11, <1>12, <2>1, ConnectsKept DEF ChainAt
<1>14. UNCHANGED <<mSendBuffer, mSendRequestedCount, inflight, wire, mPlayTestCount,
                   mPlayerSessionId, issued>>
  BY <1>1 DEF sendVars, bufferVars, testVars
<1>15. OthersSame(s)
  BY <1>4, <1>9, <1>10, <1>14 DEF OthersSame, SamePackets, Replaces
<1>16. KnowsItself(s)'
  <2>1. mPlayerSessionId'[s] BY <1>7, <1>11, <1>14 DEF ChainAt, KnowsItself
  <2>2. \A p : Own(p, s)' <=> Own(p, s) BY <1>14 DEF Own
  <2>3. ASSUME NEW v \in Worker, (who[v] = s /\ pc[v] = "post")' PROVE Own(out[v], s)'
    <3>1. v # w BY <1>10, <2>3
    <3>2. who[v] = s /\ pc[v] = "post" /\ out'[v] = out[v] BY <1>10, <2>3, <3>1 DEF SameThread
    <3> QED BY <1>11, <1>14, <3>2 DEF KnowsItself, ChainAt, Own
  <2>4. /\ \A i \in 1 .. Len(mSendBuffer'[s]) : Own(mSendBuffer[s][i], s)'
        /\ \A i \in 1 .. Len(wire'[s]) : Own(wire[s][i], s)'
    BY <1>11, <1>14 DEF KnowsItself, ChainAt, Own
  <2> QED BY <2>1, <2>3, <2>4 DEF KnowsItself
<1>17. CASE ~HasLogin(packets)
  <2>1. q = timers[w] BY <1>17 DEF OnRead, q
  <2>2. \A v \in Worker : timers'[v] = timers[v] BY <1>8, <2>1
  <2>3. (HasJob(timers', s) <=> HasJob(timers, s)) /\ (OneJob(timers, s) => OneJob(timers', s))
    BY <2>2 DEF HasJob, OneJob
  <2>4. SameTest(s) BY <1>14, <2>3 DEF SameTest
  <2>5. Started(s)' <=> Started(s) BY <2>4 DEF Started, SameTest
  <2>6. Plays(s)'
    <3>1. \A v \in Worker : Testing(v) /\ who[v] = s => (Testing(v) /\ who[v] = s)'
      BY <1>1, <1>10 DEF Testing, SameThread
    <3> QED BY <1>11, <2>4, <3>1, PlaysKept DEF ChainAt
  <2>7. ASSUME Before(s) PROVE Before(s)'
    <3>1. Len(wire[s]) + Len(inbox[s]) <= 1 BY <2>7 DEF Before
    <3>2. \A a, b, c \in Nat :
            a + b <= 1 /\ c >= 1 /\ c <= b /\ b - c \in Nat => a + (b - c) <= 1
      OBVIOUS
    <3>3. Len(wire'[s]) + Len(inbox'[s]) <= 1
      <4>1. k \in Nat BY <1>3
      <4>2. Len(wire[s]) + (Len(inbox[s]) - k) <= 1 BY <1>3, <1>5, <1>7, <3>1, <3>2, <4>1
      <4> QED BY <1>4, <1>5, <1>14, <4>2
    <3>4. mSendBuffer[s] # <<>> => inflight[s] = 1 /\ mSendRequestedCount[s] > 0
      BY <1>7, <2>7 DEF Before
    <3> QED BY <1>14, <2>7, <3>3, <3>4 DEF Before
  <2>8. ASSUME Since(s) PROVE Since(s)'
    <3>1. \A i \in 1 .. Len(inbox'[s]) : inbox'[s][i] # "login"
      BY <1>4, <1>5, <2>8 DEF Since
    <3> QED BY <1>14, <2>8, <3>1 DEF Since
  <2>9. LoginOnce(s)' BY <1>11, <2>5, <2>7, <2>8 DEF LoginOnce, ChainAt
  <2>10. ChainAt(s)' BY <1>13, <1>16, <2>6, <2>9 DEF ChainAt
  <2>11. JobsOf(s, timers[w], timers'[w]) /\ Neat(timers'[w])
    BY <2>2 DEF JobsOf, Chain
  <2> QED BY <1>1, <1>10, <1>14, <1>15, <2>10, <2>11, ChainFrom
<1>18. CASE HasLogin(packets)
  <2>1. ~Started(s)
    BY <1>3, <1>6, <1>7, <1>11, <1>18 DEF ChainAt, LoginOnce, Since
  <2>2. Before(s) BY <1>11, <2>1 DEF ChainAt, LoginOnce
  <2>3. Len(inbox[s]) = 1 /\ Len(wire[s]) = 0 /\ k = 1
    <3>1. Len(wire[s]) + Len(inbox[s]) <= 1 BY <2>2 DEF Before
    <3>2. \A a, b, c \in Nat : a + b <= 1 /\ c >= 1 /\ c <= b => b = 1 /\ a = 0 /\ c = 1 OBVIOUS
    <3>3. k \in Nat BY <1>3
    <3> QED BY <1>3, <1>7, <3>1, <3>2, <3>3
  <2>4. inbox'[s] = <<>> /\ wire[s] = <<>>
    <3>1. Len(rest) = 0 BY <1>5, <2>3
    <3> QED BY <1>3, <1>4, <1>5, <2>3, <3>1
  <2>5. Since(s)'
    <3>1. mSendBuffer[s] # <<>> => inflight[s] = 1 /\ mSendRequestedCount[s] > 0
      BY <1>7, <2>2 DEF Before
    <3>2. NoLogin(wire'[s]) /\ \A i \in 1 .. Len(inbox'[s]) : inbox'[s][i] # "login"
      BY <1>14, <2>4 DEF NoLogin
    <3>3. \A i \in 2 .. Len(mSendBuffer[s]) : FALSE
      <4>1. Len(mSendBuffer[s]) <= 1 BY <2>2 DEF Before
      <4> QED BY <1>3, <4>1
    <3> QED BY <1>14, <2>4, <3>1, <3>2, <3>3 DEF Since
  <2> DEFINE e == TimerJob(w, s)
  <2>6. e \in JobOf /\ e.owner = s
    BY TimerJobType DEF TimerJob, Base
  <2>7. timers'[w] = Push(timers[w], e) BY <1>8, <1>18 DEF OnRead, q
  <2> HIDE DEF e
  <2>8. GoodQueue(timers[w]) /\ Neat(timers[w])
    BY DEF Base, GoodQueue, ThreadTypes, Due, Chain
  <2>9. Elements(timers'[w]) = Elements(timers[w]) \cup {e}
    BY <2>6, <2>7, <2>8, PushElements
  <2>10. ~HasJob(timers, s) /\ mPlayTestCount[s] = 0
    BY <1>3, <2>1 DEF Started
  <2>11. e \notin Elements(timers[w]) BY <2>6, <2>10 DEF HasJob
  <2>12. Neat(timers'[w]) BY <2>6, <2>7, <2>8, <2>11, PushNeat
  <2>13. JobsOf(s, timers[w], timers'[w]) BY <2>6, <2>9 DEF JobsOf
  <2>14. HasJob(timers', s) BY <2>6, <2>9 DEF HasJob
  <2>15. OneJob(timers', s)
    <3>1. \A v \in Worker : \A f \in Elements(timers'[v]) : f.owner = s => v = w /\ f = e
      BY <1>8, <2>9, <2>10 DEF HasJob
    <3> QED BY <3>1 DEF OneJob
  <2>16. Plays(s)' BY <1>14, <2>10, <2>15, ClientsAssumption DEF Plays
  <2>17. LoginOnce(s)' BY <2>5, <2>14 DEF LoginOnce, Started
  <2>18. ChainAt(s)' BY <1>13, <1>16, <2>16, <2>17 DEF ChainAt
  <2> QED BY <1>1, <1>10, <1>14, <1>15, <2>12, <2>13, <2>18, ChainFrom
<1> QED BY <1>17, <1>18

(* PlayTest keeps Chain.                                                   *)
LEMMA PlayTestChain ==
  ASSUME Base, Base', Chain, NEW w \in Worker, PlayTest(w), UNCHANGED <<main, mPlayerIdx>>
  PROVE  Chain'
<1>1. /\ pc[w] = "loop" /\ who[w] = NoOne /\ hand[w] = "none" /\ ~IsEmpty(timers[w])
      /\ timers[w] \in Queue
  BY DEF PlayTest, Base, Stands, Due, ThreadTypes
<1>2. timers[w].top \in JobOf /\ timers[w].top \in Elements(timers[w])
  BY <1>1 DEF Queue, IsEmpty, Elements
<1>3. PICK s \in Session : s = timers[w].top.owner BY <1>2 DEF JobOf
<1>4. /\ mPlayTestCount' = [mPlayTestCount EXCEPT ![s] = mPlayTestCount[s] + 1]
      /\ who' = [who EXCEPT ![w] = s]
      /\ UNCHANGED <<mConnected, hand, sendVars, netVars, mPlayerSessionId, mPlayerIdx,
                     clockVars, issued, pending>>
  BY <1>3 DEF PlayTest
<1>5. \/ /\ pc' = [pc EXCEPT ![w] = "post"]
         /\ \E t \in {"chat", "move", "exit"}, x \in BOOLEAN :
              out' = [out EXCEPT ![w] = [type |-> t, id |-> x]]
      \/ pc' = [pc EXCEPT ![w] = "after"] /\ UNCHANGED out
  BY <1>3, PlayTestMakes
<1>6. HasJob(timers, s) /\ Started(s) BY <1>2, <1>3 DEF HasJob, Started
<1>7. /\ ChainAt(s) /\ ~Untouched(s) /\ \A v \in Worker : ~Connects(v, s)
  <2>1. ~Silent(s) BY <1>6 DEF Silent
  <2> QED BY <2>1 DEF Chain, Untouched, ChainAt, ConnectsOnce
<1>8. ~Ahead(s)' /\ pending'[s]["connect"] = 0
  <2>1. ~Ahead(s) /\ pending[s]["connect"] = 0 BY <1>7, Engaged DEF ChainAt
  <2> QED BY <1>4, <2>1 DEF Ahead, Later
<1>9. mPlayTestCount[s] < PLAYER_ACTION_REQUEST
  <2>1. ASSUME NEW v \in Worker, Testing(v), who[v] = s PROVE FALSE
    <3>1. ~IsEmpty(timers[v]) /\ timers[v].top.owner = s BY <2>1 DEF Base, Due
    <3>2. timers[v].top \in Elements(timers[v]) BY <3>1 DEF Elements
    <3>3. v = w BY <1>2, <1>3, <1>7, <3>1, <3>2 DEF ChainAt, Plays, OneJob
    <3> QED BY <1>1, <2>1, <3>3 DEF Testing
  <2> QED BY <1>6, <1>7, <2>1 DEF ChainAt, Plays
<1>10. /\ mPlayTestCount'[s] = mPlayTestCount[s] + 1 /\ mPlayTestCount[s] \in Nat
       /\ \A u \in Session \ {s} : mPlayTestCount'[u] = mPlayTestCount[u]
  BY <1>4 DEF Base, SessionTypes, DataTypes
<1>11. UNCHANGED <<mSendBuffer, mSendRequestedCount, inflight, wire, inbox, timers, lag>>
  BY <1>4 DEF sendVars, bufferVars, netVars, clockVars
<1>12. who'[w] = s /\ hand'[w] = "none" /\ pc'[w] \in {"post", "after"}
  BY <1>1, <1>4, <1>5 DEF Base, ThreadTypes
<1>13. \A v \in Worker \ {w} : SameThread(v)
  BY <1>4, <1>5, <1>11 DEF Base, ThreadTypes, SameThread
<1>14. OthersSame(s) BY <1>4, <1>10, <1>11 DEF OthersSame, SamePackets
<1>15. mPlayerSessionId[s] BY <1>6, <1>7 DEF ChainAt, KnowsItself
<1>16. KnowsItself(s)'
  <2>1. ASSUME NEW v \in Worker, (who[v] = s /\ pc[v] = "post")' PROVE Own(out[v], s)'
    <3>1. CASE v = w BY <1>4, <1>12, <1>15, <2>1, <3>1 DEF Own
    <3>2. CASE v # w
      <4>1. who[v] = s /\ pc[v] = "post" /\ out'[v] = out[v] BY <1>13, <2>1, <3>2 DEF SameThread
      <4> QED BY <1>4, <1>7, <4>1 DEF KnowsItself, ChainAt, Own
    <3> QED BY <3>1, <3>2
  <2> QED BY <1>4, <1>7, <1>11, <2>1 DEF KnowsItself, ChainAt, Own
<1>17. Plays(s)'
  <2>1. mPlayTestCount'[s] <= PLAYER_ACTION_REQUEST BY <1>9, <1>10, ClientsAssumption
  <2>2. (Testing(w) /\ who[w] = s)' BY <1>12 DEF Testing
  <2> QED BY <1>7, <1>11, <2>1, <2>2 DEF Plays, ChainAt
<1>18. LoginOnce(s)'
  <2>1. Since(s) BY <1>6, <1>7 DEF ChainAt, LoginOnce
  <2>2. Since(s)' BY <1>11, <2>1 DEF Since
  <2> QED BY <1>6, <1>11, <2>2 DEF LoginOnce, Started
<1>19. ConnectsOnce(s)'
  <2>1. \A v \in Worker : ~Connects(v, s)'
    BY <1>7, <1>12, <1>13 DEF Connects, SameThread
  <2> QED BY <1>7, <1>8, <2>1, ConnectsKept DEF ChainAt
<1>20. ChainAt(s)' BY <1>16, <1>17, <1>18, <1>19 DEF ChainAt
<1> QED BY <1>1, <1>4, <1>11, <1>12, <1>13, <1>14, <1>20, ChainQuiet

(* What Pop leaves is neat.                                                *)
LEMMA PopNeat ==
  ASSUME NEW q, GoodQueue(q), NEW r \in Pop(q)
  PROVE  Neat(r)
<1>1. CASE q.rest = {}
  BY <1>1 DEF Pop, IsEmpty, EmptyQueue, Neat
<1>2. CASE q.rest # {}
  <2>1. PICK e \in q.rest : r = [top |-> e, rest |-> q.rest \ {e}]
    BY <1>2 DEF Pop
  <2> QED BY <2>1 DEF Neat
<1> QED BY <1>1, <1>2

(* What is popped is the job that ran; its successor, if there is one, is  *)
(* the only job of the session.                                            *)
LEMMA PlayTestDoneEffect ==
  ASSUME Base, Chain, NEW w \in Worker, NEW s \in Session, s = who[w], PlayTestDone(w)
  PROVE  LET again == mPlayTestCount[s] # PLAYER_ACTION_REQUEST
             top == timers[w].top
             e == TimerJob(w, s)
         IN
         /\ pc[w] = "after" /\ hand[w] = "none"
         /\ top \in Elements(timers[w]) /\ top.owner = s
         /\ e \in JobOf /\ e.owner = s /\ e \notin Elements(timers[w])
         /\ Elements(timers'[w]) =
              (Elements(timers[w]) \ {top}) \cup (IF again THEN {e} ELSE {})
         /\ Neat(timers'[w])
         /\ \A v \in Worker \ {w} : timers'[v] = timers[v]
<1> DEFINE again == mPlayTestCount[s] # PLAYER_ACTION_REQUEST
           top == timers[w].top
           e == TimerJob(w, s)
           q == IF again THEN Push(timers[w], e) ELSE timers[w]
<1>1. pc[w] = "after" /\ hand[w] = "none" /\ Testing(w)
  BY DEF PlayTestDone, Base, Stands, Testing
<1>2. /\ ~IsEmpty(timers[w]) /\ top.owner = s /\ top.due <= -lag[w]
      /\ GoodQueue(timers[w]) /\ lag[w] \in Int /\ Neat(timers[w])
  BY <1>1 DEF Base, Due, GoodQueue, ThreadTypes, Chain
<1>3. top \in Elements(timers[w]) /\ top \in JobOf
  BY <1>2 DEF Elements, GoodQueue, Queue, IsEmpty
<1>4. e \in JobOf /\ e.owner = s /\ e.due = PLAYER_ACTION_INTERVAL - lag[w]
  BY TimerJobType DEF TimerJob
<1>5. PICK r \in Pop(q) : timers' = [timers EXCEPT ![w] = r]
  BY DEF PlayTestDone
<1>6. timers'[w] = r /\ \A v \in Worker \ {w} : timers'[v] = timers[v]
  BY <1>5 DEF Base, ThreadTypes
<1> HIDE DEF e, top
<1>7. top.due < e.due /\ top.due <= e.due
  <2>1. top.due \in Int BY <1>3 DEF JobOf
  <2> QED BY <1>2, <1>4, <2>1, ClientsAssumption
<1>8. e \notin Elements(timers[w])
  <2>1. e # top BY <1>3, <1>4, <1>7 DEF JobOf
  <2> QED BY <1>2, <1>3, <1>4, <2>1 DEF Chain, ChainAt, Plays, OneJob
<1>9. /\ GoodQueue(q) /\ ~IsEmpty(q) /\ Neat(q) /\ q.top = top
      /\ Elements(q) = Elements(timers[w]) \cup (IF again THEN {e} ELSE {})
  <2> HIDE DEF again
  <2>1. CASE again
    <3>1. q = Push(timers[w], e) BY <2>1
    <3>2. Neat(q) BY <1>2, <1>4, <1>8, <3>1, PushNeat
    <3>3. timers[w].top.due <= e.due BY <1>7 DEF top
    <3> QED BY <1>2, <1>4, <2>1, <3>1, <3>2, <3>3, PushElements DEF top
  <2>2. CASE ~again BY <1>2, <2>2 DEF top
  <2> QED BY <2>1, <2>2
<1> HIDE DEF q
<1>10. Elements(r) = Elements(q) \ {top} /\ Neat(r)
  BY <1>9, PopElements, PopNeat DEF Neat
<1>11. e # top BY <1>3, <1>8
<1> QED BY <1>1, <1>2, <1>3, <1>4, <1>6, <1>8, <1>9, <1>10, <1>11 DEF e, top

(* PlayTestDone keeps Chain.                                               *)
LEMMA PlayTestDoneChain ==
  ASSUME Base, Base', Chain, NEW w \in Worker, PlayTestDone(w), UNCHANGED <<main, mPlayerIdx>>
  PROVE  Chain'
<1>0. PICK s \in Session : s = who[w]
  BY DEF PlayTestDone, Stands, Base
<1> DEFINE again == mPlayTestCount[s] # PLAYER_ACTION_REQUEST
           top == timers[w].top
           e == TimerJob(w, s)
<1>1. /\ pc[w] = "after" /\ hand[w] = "none"
      /\ top \in Elements(timers[w]) /\ top.owner = s
      /\ e \in JobOf /\ e.owner = s /\ e \notin Elements(timers[w])
      /\ Elements(timers'[w]) =
           (Elements(timers[w]) \ {top}) \cup (IF again THEN {e} ELSE {})
      /\ Neat(timers'[w])
      /\ \A v \in Worker \ {w} : timers'[v] = timers[v]
  BY <1>0, PlayTestDoneEffect
<1> HIDE DEF e, top
<1>2. /\ UNCHANGED <<mConnected, hand, sendVars, netVars, testVars, lag, issued, pending, out>>
      /\ \A v \in Worker \ {w} : who'[v] = who[v] /\ pc'[v] = pc[v]
      /\ who'[w] = NoOne /\ pc'[w] \in {"loop", "idle"}
  BY DEF PlayTestDone, LoopOn, Base, ThreadTypes
<1>3. UNCHANGED <<mSendBuffer, mSendRequestedCount, inflight, wire, inbox, mPlayTestCount,
                  mPlayerSessionId>>
  BY <1>2 DEF sendVars, bufferVars, netVars, testVars
<1>4. \A v \in Worker \ {w} : SameThread(v) BY <1>1, <1>2 DEF SameThread
<1>5. OthersSame(s) BY <1>2, <1>3 DEF OthersSame, SamePackets
<1>6. HasJob(timers, s) /\ Started(s) BY <1>1 DEF HasJob, Started
<1>7. /\ ChainAt(s) /\ ~Untouched(s) /\ \A v \in Worker : ~Connects(v, s)
  <2>1. ~Silent(s) BY <1>6 DEF Silent
  <2> QED BY <2>1 DEF Chain, Untouched, ChainAt, ConnectsOnce
<1>8. ~Ahead(s)' /\ pending'[s]["connect"] = 0
  <2>1. ~Ahead(s) /\ pending[s]["connect"] = 0 BY <1>7, Engaged DEF ChainAt
  <2> QED BY <1>2, <2>1 DEF Ahead, Later
<1>9. JobsOf(s, timers[w], timers'[w]) BY <1>1 DEF JobsOf
<1>10. \A v \in Worker : \A f \in Elements(timers'[v]) : f.owner = s => again /\ v = w /\ f = e
  <2>1. \A v \in Worker : \A f \in Elements(timers[v]) : f.owner = s => v = w /\ f = top
    BY <1>1, <1>7 DEF ChainAt, Plays, OneJob
  <2> HIDE DEF again
  <2> QED BY <1>1, <2>1
<1>11. HasJob(timers', s) => again BY <1>10 DEF HasJob
<1>12. again => HasJob(timers', s) BY <1>1 DEF HasJob
<1>13. mPlayTestCount[s] \in Nat /\ mPlayTestCount[s] <= PLAYER_ACTION_REQUEST
  BY <1>7 DEF ChainAt, Plays, Base, SessionTypes, DataTypes
<1>14. Plays(s)'
  <2>1. OneJob(timers', s) BY <1>10 DEF OneJob
  <2>2. again => mPlayTestCount[s] < PLAYER_ACTION_REQUEST BY <1>13, ClientsAssumption
  <2> QED BY <1>3, <1>11, <1>13, <2>1, <2>2 DEF Plays
<1>15. LoginOnce(s)'
  <2>1. Started(s)'
    <3>1. ~again => mPlayTestCount[s] > 0 BY <1>13, ClientsAssumption
    <3> QED BY <1>3, <1>12, <3>1 DEF Started
  <2>2. Since(s) BY <1>6, <1>7 DEF ChainAt, LoginOnce
  <2>3. Since(s)' BY <1>3, <2>2 DEF Since
  <2> QED BY <2>1, <2>3 DEF LoginOnce
<1>16. KnowsItself(s)'
  <2>1. ASSUME NEW v \in Worker, (who[v] = s /\ pc[v] = "post")' PROVE Own(out[v], s)'
    <3>1. v # w BY <1>2, <2>1
    <3>2. who[v] = s /\ pc[v] = "post" /\ out'[v] = out[v] BY <1>4, <2>1, <3>1 DEF SameThread
    <3> QED BY <1>3, <1>7, <3>2 DEF KnowsItself, ChainAt, Own
  <2> QED BY <1>3, <1>6, <1>7, <2>1 DEF KnowsItself, ChainAt, Own
<1>17. ConnectsOnce(s)'
  <2>1. \A v \in Worker : ~Connects(v, s)'
    BY <1>2, <1>4, <1>7 DEF Connects, SameThread
  <2> QED BY <1>7, <1>8, <2>1, ConnectsKept DEF ChainAt
<1>18. ChainAt(s)' BY <1>14, <1>15, <1>16, <1>17 DEF ChainAt
<1> QED BY <1>0, <1>1, <1>2, <1>3, <1>4, <1>5, <1>9, <1>18, ChainFrom

-----------------------------------------------------------------------------
(* Chain outside the handlers.                                             *)

(* A step that does nothing for any session.                               *)
LEMMA AllSameChain ==
  ASSUME Base, Chain, \A u \in Session : Same(u), \A w \in Worker : Neat(timers'[w])
  PROVE  Chain'
BY SameChain DEF Chain

(* A step that leaves the threads alone, and every session but s.          *)
LEMMA OutsideChain ==
  ASSUME Base, Chain, NEW s \in Session, \A u \in Session \ {s} : Same(u),
         SamePackets(s), SameTest(s), UNCHANGED <<pc, who, hand, out, timers>>,
         ConnectsOnce(s)'
  PROVE  Chain'
<1>0. ChainAt(s) BY DEF Chain
<1>1. \A u \in Session \ {s} : ChainAt(u)' BY SameChain DEF Chain
<1>2. LoginOnce(s)' BY <1>0, LoginKept DEF ChainAt
<1>3. Plays(s)'
  <2>1. \A v \in Worker : Testing(v) /\ who[v] = s => (Testing(v) /\ who[v] = s)'
    BY DEF Testing
  <2> QED BY <1>0, <2>1, PlaysKept DEF ChainAt
<1>4. KnowsItself(s)'
  <2>1. \A v \in Worker : (who[v] = s /\ pc[v] = "post")' => Own(out[v], s)'
    BY <1>0 DEF KnowsItself, ChainAt, Own, SameTest
  <2> QED BY <1>0, <2>1, KnowsKept DEF ChainAt
<1> QED BY <1>1, <1>2, <1>3, <1>4 DEF Chain, ChainAt

(* It is connected already.                                                *)
LEMMA AloneConnects ==
  ASSUME NEW s \in Session, ConnectsOnce(s), ~Ahead(s)', pending'[s]["connect"] = 0,
         UNCHANGED <<pc, who, hand>>, SamePackets(s), SameTest(s)
  PROVE  ConnectsOnce(s)'
<1>1. Silent(s) => Silent(s)' BY SilentKept
<1>2. \A v \in Worker : Connects(v, s)' => Connects(v, s) BY DEF Connects
<1> QED BY <1>1, <1>2, ConnectsKept DEF ConnectsOnce

(* A thread that waits in vain, or stops, keeps Chain.                     *)
LEMMA WaitingChain ==
  ASSUME Base, Chain, NEW w \in Worker, StopNow(w) \/ WaitTimeout(w), UNCHANGED <<main, mPlayerIdx>>
  PROVE  Chain'
<1>1. /\ who[w] = NoOne /\ \A v \in Worker \ {w} : pc'[v] = pc[v]
      /\ UNCHANGED <<mConnected, who, hand, sendVars, netVars, testVars, timers, issued,
                     pending, out>>
  BY DEF StopNow, WaitTimeout, clockVars, Base, Stands, ThreadTypes
<1>2. ASSUME NEW u \in Session PROVE Same(u)
  <2>1. SameWorkers(u) BY <1>1, SessionPair DEF SameWorkers
  <2>2. SamePackets(u) /\ SameTest(u)
    BY <1>1 DEF SamePackets, SameTest, sendVars, bufferVars, netVars, testVars
  <2> QED BY <1>1, <2>1, <2>2 DEF Same, SameMain, Ahead, Later, MainCloses, Current
<1> QED BY <1>1, <1>2, AllSameChain DEF Chain

(* Jobs that differ still differ after a tick.                             *)
LEMMA SoonerInjective ==
  ASSUME NEW e \in JobOf, NEW f \in JobOf, Sooner(e) = Sooner(f)
  PROVE  e = f
<1>1. Sooner(e).owner = e.owner /\ Sooner(f).owner = f.owner
      /\ Sooner(e).due = e.due - 1 /\ Sooner(f).due = f.due - 1
  BY DEF Sooner, JobOf
<1>2. e.owner = f.owner /\ e.due - 1 = f.due - 1 BY <1>1
<1>3. e.due \in Int /\ f.due \in Int BY DEF JobOf
<1>4. e.due = f.due BY <1>2, <1>3
<1> QED BY <1>2, <1>4 DEF JobOf

(* A tick keeps a queue neat.                                              *)
LEMMA TickNeat ==
  ASSUME NEW q, GoodQueue(q), Neat(q)
  PROVE  Neat(TickPassed(q))
<1>1. CASE IsEmpty(q) BY <1>1, TickElements DEF Neat
<1>2. CASE ~IsEmpty(q)
  <2>1. q.top \in JobOf /\ q.rest \subseteq JobOf BY <1>2 DEF GoodQueue, Queue, IsEmpty
  <2>2. TickPassed(q).top = Sooner(q.top) /\ TickPassed(q).rest = {Sooner(e) : e \in q.rest}
    BY <1>2 DEF TickPassed
  <2>3. Sooner(q.top) \notin {Sooner(e) : e \in q.rest}
    BY <1>2, <2>1, SoonerInjective DEF Neat
  <2> QED BY <2>2, <2>3 DEF Neat
<1> QED BY <1>1, <1>2

(* Tick keeps Chain.                                                       *)
LEMMA TickChain ==
  ASSUME Base, Chain, Tick, UNCHANGED <<main, mPlayerIdx>>
  PROVE  Chain'
<1>1. /\ timers' = [w \in Worker |->
                      IF Running(w) THEN TickPassed(timers[w]) ELSE timers[w]]
      /\ UNCHANGED <<mConnected, pc, who, hand, sendVars, netVars, testVars, issued,
                     pending, out>>
  BY DEF Tick, handlerVars
<1>2. \A w \in Worker : GoodQueue(timers[w]) /\ Neat(timers[w])
  BY DEF Base, GoodQueue, ThreadTypes, Due, Chain
<1>3. \A w \in Worker : Neat(timers'[w])
  BY <1>1, <1>2, TickNeat
<1>4. \A w \in Worker :
        \/ Elements(timers'[w]) = Elements(timers[w])
        \/ Elements(timers'[w]) = {Sooner(e) : e \in Elements(timers[w])}
  BY <1>1, <1>2, TickElements
<1>5. \A w \in Worker : Elements(timers[w]) \subseteq JobOf BY <1>2, ElementsType
<1>6. \A e \in JobOf : Sooner(e).owner = e.owner BY DEF Sooner, JobOf
<1>7. ASSUME NEW u \in Session PROVE Same(u)
  <2>1. HasJob(timers', u) <=> HasJob(timers, u)
    BY <1>4, <1>5, <1>6 DEF HasJob
  <2>2. ASSUME OneJob(timers, u) PROVE OneJob(timers', u)
    <3> SUFFICES ASSUME NEW w \in Worker, NEW v \in Worker, NEW e \in Elements(timers'[w]),
                        NEW f \in Elements(timers'[v]), e.owner = u, f.owner = u
                 PROVE  w = v /\ e = f
      BY DEF OneJob
    <3>1. PICK a \in Elements(timers[w]) :
             a.owner = u /\ (e = a \/ e = Sooner(a))
             /\ (e = a \/ Elements(timers'[w]) = {Sooner(x) : x \in Elements(timers[w])})
      BY <1>4, <1>5, <1>6
    <3>2. PICK b \in Elements(timers[v]) : b.owner = u /\ (f = b \/ f = Sooner(b))
      BY <1>4, <1>5, <1>6
    <3>3. w = v /\ a = b BY <2>2, <3>1, <3>2 DEF OneJob
    <3>4. \A x \in Elements(timers[w]) : x.owner = u => x = a
      BY <2>2, <3>1 DEF OneJob
    <3>5. CASE Elements(timers'[w]) = Elements(timers[w])
      BY <3>3, <3>4, <3>5
    <3>6. CASE Elements(timers'[w]) = {Sooner(x) : x \in Elements(timers[w])}
      BY <1>5, <1>6, <3>3, <3>4, <3>6
    <3> QED BY <1>4, <3>5, <3>6
  <2>3. SameTest(u) BY <1>1, <2>1, <2>2 DEF SameTest, testVars
  <2>4. SamePackets(u) BY <1>1 DEF SamePackets, sendVars, bufferVars, netVars
  <2> QED BY <1>1, <2>3, <2>4 DEF Same, SameMain, SameWorkers, Ahead, Later, MainCloses, Current
<1> QED BY <1>3, <1>7, AllSameChain

(* Network keeps Chain.                                                    *)
LEMMA NetworkChain ==
  ASSUME Base, Chain, NEW s \in Session, ServerReads(s) \/ Cut(s), UNCHANGED <<main, mPlayerIdx>>
  PROVE  Chain'
<1>1. UNCHANGED <<mConnected, pc, who, hand, mSendBuffer, mSendRequestedCount, inflight,
                  mPlayTestCount, mPlayerSessionId, timers, issued, pending, out>>
  BY DEF ServerReads, Cut, handlerVars, bufferVars, testVars, clockVars
<1>2. \A u \in Session : SameTest(u) /\ SameMain(u) /\ SameWorkers(u)
  BY <1>1 DEF SameTest, SameMain, SameWorkers, Ahead, Later, MainCloses, Current
<1>3. /\ wire \in [Session -> Seq(Packet)]
      /\ inbox \in [Session -> Seq(PacketType)]
  BY DEF Base, SessionTypes, DataTypes
<1>4. CASE Break(s) /\ UNCHANGED inbox
  <2>1. \A u \in Session : SamePackets(u) BY <1>1, <1>3, <1>4 DEF SamePackets, Break
  <2>2. \A u \in Session : Same(u) BY <1>1, <1>2, <2>1 DEF Same
  <2> QED BY <1>1, <2>2, AllSameChain DEF Chain
<1>5. CASE /\ wire[s] # <<>>
           /\ ~(Head(wire[s]).type = "login" /\ ~Head(wire[s]).id)
           /\ inbox' = [inbox EXCEPT ![s] = Append(@, Head(wire[s]).type)]
           /\ wire' = [wire EXCEPT ![s] = Tail(@)]
  <2> DEFINE p == Head(wire[s])
  <2>1. /\ p = wire[s][1] /\ 1 \in 1 .. Len(wire[s])
        /\ Tail(wire[s]) \in Seq(Packet) /\ Len(Tail(wire[s])) = Len(wire[s]) - 1
        /\ \A k \in 1 .. Len(Tail(wire[s])) :
             k + 1 \in 1 .. Len(wire[s]) /\ Tail(wire[s])[k] = wire[s][k + 1]
    BY <1>3, <1>5
  <2>2. /\ wire'[s] = Tail(wire[s]) /\ inbox'[s] = Append(inbox[s], p.type)
        /\ \A u \in Session \ {s} : wire'[u] = wire[u] /\ inbox'[u] = inbox[u]
    BY <1>3, <1>5
  <2>3. \A u \in Session \ {s} : ChainAt(u)'
    <3>1. \A u \in Session \ {s} : Same(u) BY <1>1, <1>2, <2>2 DEF Same, SamePackets
    <3> QED BY <3>1, SameChain DEF Chain
  <2>4. ChainAt(s) /\ ~Silent(s) /\ \A v \in Worker : ~Connects(v, s)
    BY <1>5 DEF Chain, Silent, ChainAt, ConnectsOnce
  <2>5. ConnectsOnce(s)'
    <3>1. ~Ahead(s) /\ pending[s]["connect"] = 0
      BY <2>4, Engaged DEF Untouched, ChainAt
    <3>2. \A v \in Worker : ~Connects(v, s)' BY <1>1, <2>4 DEF Connects
    <3>3. ~Ahead(s)' BY <3>1 DEF Ahead, Later
    <3> QED BY <1>1, <2>4, <3>1, <3>2, <3>3, ConnectsKept DEF ChainAt
  <2>6. Plays(s)'
    <3>1. \A v \in Worker : Testing(v) /\ who[v] = s => (Testing(v) /\ who[v] = s)'
      BY <1>1 DEF Testing
    <3> QED BY <1>2, <2>4, <3>1, PlaysKept DEF ChainAt
  <2>7. Own(p, s) /\ mPlayerSessionId[s]
    <3>1. Own(p, s) BY <2>1, <2>4 DEF ChainAt, KnowsItself
    <3> QED BY <1>5, <3>1 DEF Own
  <2> HIDE DEF p
  <2>8. KnowsItself(s)'
    <3>1. \A k \in 1 .. Len(wire'[s]) : Own(wire[s][k], s)'
      <4>1. \A k \in 1 .. Len(wire[s]) : Own(wire[s][k], s) BY <2>4 DEF ChainAt, KnowsItself
      <4> QED BY <1>1, <2>1, <2>2, <4>1 DEF Own
    <3>2. \A k \in 1 .. Len(mSendBuffer'[s]) : Own(mSendBuffer[s][k], s)'
      BY <1>1, <2>4 DEF Own, ChainAt, KnowsItself
    <3>3. \A v \in Worker : (who[v] = s /\ pc[v] = "post")' => Own(out[v], s)'
      BY <1>1, <2>4 DEF Own, ChainAt, KnowsItself
    <3> QED BY <1>1, <2>7, <3>1, <3>2, <3>3 DEF KnowsItself
  <2>9. Started(s)' <=> Started(s) BY <1>1 DEF Started
  <2>10. /\ Len(wire[s]) \in Nat /\ Len(inbox[s]) \in Nat
         /\ Len(inbox'[s]) = Len(inbox[s]) + 1
         /\ \A k \in 1 .. Len(inbox'[s]) :
              (k \in 1 .. Len(inbox[s]) /\ inbox'[s][k] = inbox[s][k]) \/ inbox'[s][k] = p.type
    BY <1>3, <2>2
  <2>11. ASSUME Before(s) PROVE Before(s)'
    <3>1. Len(wire'[s]) + Len(inbox'[s]) <= 1
      <4>1. Len(wire[s]) + Len(inbox[s]) <= 1 BY <2>11 DEF Before
      <4>2. \A a, b \in Nat : a + b <= 1 => (a - 1) + (b + 1) <= 1 OBVIOUS
      <4>3. (Len(wire[s]) - 1) + (Len(inbox[s]) + 1) <= 1 BY <2>10, <4>1, <4>2
      <4> QED BY <2>1, <2>2, <2>10, <4>3
    <3>2. IsLogin(wire'[s]) BY <2>1, <2>2, <2>11 DEF Before, IsLogin
    <3>3. mSendBuffer[s] # <<>> => inflight[s] = 1 /\ mSendRequestedCount[s] > 0
      BY <1>5, <2>11 DEF Before
    <3> QED BY <1>1, <2>11, <3>1, <3>2, <3>3 DEF Before
  <2>12. ASSUME Since(s) PROVE Since(s)'
    <3>1. p.type # "login" BY <2>1, <2>12 DEF Since, NoLogin
    <3>2. NoLogin(wire'[s]) BY <2>1, <2>2, <2>12 DEF Since, NoLogin
    <3>3. \A k \in 1 .. Len(inbox'[s]) : inbox'[s][k] # "login"
      BY <2>10, <2>12, <3>1 DEF Since
    <3>4. ~(mSendBuffer[s] # <<>> /\ mSendBuffer[s][1].type = "login")
      BY <1>5, <2>12 DEF Since
    <3> QED BY <1>1, <2>12, <3>2, <3>3, <3>4 DEF Since
  <2>13. LoginOnce(s)' BY <2>4, <2>9, <2>11, <2>12 DEF LoginOnce, ChainAt
  <2>14. ChainAt(s)' BY <2>5, <2>6, <2>8, <2>13 DEF ChainAt
  <2> QED BY <1>1, <2>3, <2>14 DEF Chain
<1> QED BY <1>4, <1>5 DEF ServerReads, Cut

LaunchAts == {"launch", "describe", "placement", "players", "connect"}

(* Main goes on, not to a session it had gone past nor to a store.         *)
GoesPast(u) == (Later(u)' => Later(u)) /\ main'.pc \notin {"store", "storeIdx"}

(* A step of main between two requests leaves the same sessions ahead.     *)
LEMMA GoAhead ==
  ASSUME MainTypes, UNCHANGED mPlayerIdx, NEW p \in LaunchAts \cup {"undefined"}, Go(p),
         main.pc \in LaunchAts, NEW u \in Session
  PROVE  SameMain(u) /\ GoesPast(u)
<1>1. main'.pc = p /\ main'.g = main.g /\ main'.i = main.i BY DEF Go, MainTypes
<1> QED BY <1>1 DEF LaunchAts, SameMain, GoesPast, Ahead, Later, MainCloses

(* Going on to the next game session leaves the same sessions ahead.       *)
LEMMA NextGameAhead ==
  ASSUME MainTypes, NextGame, main.pc \in LaunchAts, NEW u \in Session, UNCHANGED mPlayerIdx
  PROVE  SameMain(u) /\ GoesPast(u)
<1>1. main.g \in Nat /\ u[1] \in Nat /\ u[2] \in Nat
  BY SessionPair, ClientsAssumption DEF MainTypes
<1>2. CASE main.g = Games
  <2>1. main'.pc = "wait" BY <1>2 DEF NextGame, MainAt
  <2> QED BY <2>1 DEF LaunchAts, SameMain, GoesPast, Ahead, Later, MainCloses
<1>3. CASE main.g # Games
  <2>1. main'.pc = "launch" /\ main'.g = main.g + 1 /\ main'.i = 1
    BY <1>3 DEF NextGame, MainTypes
  <2>2. u[1] > main.g + 1 \/ u[1] = main.g + 1 => u[1] > main.g BY <1>1
  <2>3. Later(u)' => u[1] > main.g + 1 \/ u[1] = main.g + 1 BY <2>1 DEF Later
  <2>4. GoesPast(u) BY <2>1, <2>2, <2>3 DEF LaunchAts, Later, GoesPast
  <2>5. Ahead(u)' => Ahead(u) BY <2>1, <2>4 DEF LaunchAts, GoesPast, Ahead
  <2> QED BY <2>1, <2>4, <2>5 DEF LaunchAts, SameMain, MainCloses
<1> QED BY <1>2, <1>3

(* No step of the launch but ConnectRequest connects a session.            *)
LEMMA LaunchAhead ==
  ASSUME MainTypes, NEW u \in Session,
         \/ PrepareGameSessions \/ CreateGameSession \/ DescribeGameSessions
         \/ StartGameSessionPlacement \/ CheckGameSessionPlacement
         \/ CreatePlayerSessions \/ ConnectEnds
  PROVE  SameMain(u) /\ GoesPast(u)
<1>0. UNCHANGED mPlayerIdx
  BY DEF PrepareGameSessions, CreateGameSession, DescribeGameSessions,
         StartGameSessionPlacement, CheckGameSessionPlacement,
         CreatePlayerSessions, ConnectEnds, sessionVars, testVars
<1>1. ASSUME NEW p \in {"describe", "players", "placement", "connect", "undefined"}, Go(p),
             main.pc \in LaunchAts
      PROVE  SameMain(u) /\ GoesPast(u)
  <2>1. p \in LaunchAts \cup {"undefined"} BY <1>1 DEF LaunchAts
  <2> QED BY <1>0, <1>1, <2>1, GoAhead
<1>2. CASE PrepareGameSessions
  <2>1. PICK b \in BOOLEAN : main' = [MainAt("launch", 1, 1) EXCEPT !.queue = b]
    BY <1>2 DEF PrepareGameSessions
  <2>2. main.pc = "prepare" /\ main'.pc = "launch"
    BY <1>2, <2>1 DEF PrepareGameSessions, MainAt
  <2> QED BY <1>0, <2>2 DEF SameMain, GoesPast, Ahead, Later, MainCloses
<1>3. CASE CreateGameSession
  <2>1. main.pc \in LaunchAts BY <1>3 DEF CreateGameSession, LaunchAts
  <2> QED BY <1>0, <1>1, <1>3, <2>1, NextGameAhead DEF CreateGameSession
<1>4. CASE DescribeGameSessions
  <2>1. main.pc \in LaunchAts BY <1>4 DEF DescribeGameSessions, LaunchAts
  <2> QED BY <1>0, <1>1, <1>4, <2>1, NextGameAhead DEF DescribeGameSessions, Polled
<1>5. CASE StartGameSessionPlacement
  <2>1. main.pc \in LaunchAts BY <1>5 DEF StartGameSessionPlacement, LaunchAts
  <2> QED BY <1>0, <1>1, <1>5, <2>1, NextGameAhead DEF StartGameSessionPlacement
<1>6. CASE CheckGameSessionPlacement
  <2>1. main.pc \in LaunchAts BY <1>6 DEF CheckGameSessionPlacement, LaunchAts
  <2> QED BY <1>0, <1>1, <1>6, <2>1, NextGameAhead DEF CheckGameSessionPlacement, Polled
<1>7. CASE CreatePlayerSessions
  <2>1. main.pc \in LaunchAts BY <1>7 DEF CreatePlayerSessions, LaunchAts
  <2> QED BY <1>0, <1>1, <1>7, <2>1, NextGameAhead DEF CreatePlayerSessions
<1>8. CASE ConnectEnds
  <2>1. main.pc \in LaunchAts BY <1>8 DEF ConnectEnds, LaunchAts
  <2> QED BY <1>0, <1>1, <1>8, <2>1, NextGameAhead DEF ConnectEnds
<1> QED BY <1>2, <1>3, <1>4, <1>5, <1>6, <1>7, <1>8

(* A step of the main thread that does nothing for any session.            *)
LEMMA MainOnlyChain ==
  ASSUME Base, Chain, UNCHANGED sessionVars \/ StopIoThreads, \A u \in Session : SameMain(u)
  PROVE  Chain'
<1>1. UNCHANGED <<mConnected, pc, who, hand, mSendBuffer, mSendRequestedCount, inflight, wire,
                  inbox, mPlayTestCount, mPlayerSessionId, timers, issued, pending, out>>
  BY DEF sessionVars, handlerVars, sendVars, bufferVars, netVars, testVars, clockVars,
         StopIoThreads
<1>2. \A u \in Session : Same(u)
  BY <1>1 DEF Same, SamePackets, SameTest, SameWorkers
<1> QED BY <1>1, <1>2, AllSameChain DEF Chain

(* What ConnectRequest does.                                               *)
LEMMA ConnectRequestEffect ==
  ASSUME Base, NEW s \in Session, s = Current, ConnectRequest
  PROVE  /\ \E n \in {0, 1} : Takes(s, "connect", n)
                              /\ mRefCount' = [mRefCount EXCEPT ![s] = @ + 1 + n]
         /\ issued' = [issued EXCEPT ![s] = TRUE]
         /\ main.pc = "connect" /\ main'.pc = "store" /\ main'.g = main.g /\ main'.i = main.i
         /\ UNCHANGED <<mConnected, pc, who, hand, sendVars, netVars, testVars, clockVars, out>>
<1>1. PICK ok \in BOOLEAN :
        /\ pending' = [pending EXCEPT ![s]["connect"] = pending[s]["connect"] + One(ok)]
        /\ mRefCount' = [mRefCount EXCEPT ![s] = @ + 1 + One(ok)]
  BY DEF ConnectRequest
<1>2. One(ok) \in {0, 1} /\ One(ok) \in Nat /\ "connect" \in IO BY DEF One, IO
<1>3. Takes(s, "connect", One(ok))
  <2>1. /\ pending[s]["connect"] + One(ok) \in Nat /\ pending \in [Session -> [IO -> Nat]]
    BY <1>2, PendingNat
  <2> QED BY <1>1, <1>2, <2>1, PendingEntry DEF Takes
<1>4. main.pc = "connect" /\ main'.pc = "store" /\ main'.g = main.g /\ main'.i = main.i
  BY DEF ConnectRequest, Go, Base, MainTypes
<1> QED BY <1>1, <1>2, <1>3, <1>4 DEF ConnectRequest

(* ConnectRequest leaves the same sessions to come, but for its own.       *)
LEMMA ConnectRequestLater ==
  ASSUME Base, ConnectRequest, NEW u \in Session, Later(u)'
  PROVE  Later(u)
<1>0. PICK s \in Session : s = Current
  BY CurrentType DEF ConnectRequest, Base
<1>1. main.pc = "connect" /\ main'.pc = "store" /\ main'.g = main.g /\ main'.i = main.i
  BY <1>0, ConnectRequestEffect
<1>2. u[1] > main.g \/ (u[1] = main.g /\ u[2] > main.i) BY <1>1 DEF Later
<1>3. u[2] \in Nat /\ main.i \in Nat BY SessionPair, ClientsAssumption DEF Base, MainTypes
<1>4. u[2] > main.i => u[2] >= main.i BY <1>3
<1> QED BY <1>1, <1>2, <1>4 DEF Later

(* ConnectRequest keeps Chain.                                             *)
LEMMA ConnectRequestChain ==
  ASSUME Base, Chain, ConnectRequest
  PROVE  Chain'
<1>0. PICK s \in Session : s = Current
  BY CurrentType DEF ConnectRequest, Base
<1>1. PICK n \in {0, 1} : Takes(s, "connect", n) BY <1>0, ConnectRequestEffect
<1>2. /\ issued' = [issued EXCEPT ![s] = TRUE]
      /\ main.pc = "connect" /\ main'.pc = "store" /\ main'.g = main.g /\ main'.i = main.i
      /\ UNCHANGED <<mConnected, pc, who, hand, sendVars, netVars, testVars, clockVars, out>>
  BY <1>0, ConnectRequestEffect
<1>3. UNCHANGED <<mSendBuffer, mSendRequestedCount, inflight, wire, inbox, mPlayTestCount,
                  mPlayerSessionId, mPlayerIdx, timers>>
  BY <1>2 DEF sendVars, bufferVars, netVars, testVars, clockVars
<1>4. s[1] = main.g /\ s[2] = main.i /\ main.g \in Nat /\ main.i \in Nat
  BY <1>0, ClientsAssumption DEF Current, Base, MainTypes
<1>5. Ahead(s) /\ ~Ahead(s)'
  <2>1. main.i >= main.i /\ ~(main.i > main.i) /\ ~(main.g > main.g) BY <1>4
  <2>2. Later(s) /\ ~Later(s)' BY <1>2, <1>4, <2>1 DEF Later
  <2>3. <<main'.g, main'.i>> = s BY <1>0, <1>2 DEF Current
  <2> QED BY <1>2, <2>2, <2>3 DEF Ahead
<1>6. Untouched(s) /\ pending[s]["connect"] = 0
  BY <1>5 DEF Chain, ChainAt, ConnectsOnce
<1>7. \A u \in Session : SameMain(u)
  <2>1. ASSUME NEW u \in Session, Ahead(u)' PROVE Ahead(u)
    <3>1. CASE Later(u)' BY <1>2, <3>1, ConnectRequestLater DEF Ahead
    <3>2. CASE ~Later(u)'
      <4>1. ~mPlayerIdx[u] BY <1>3, <2>1, <3>2 DEF Ahead
      <4> QED BY <1>2, <4>1 DEF Ahead
    <3> QED BY <3>1, <3>2
  <2> QED BY <1>2, <2>1 DEF SameMain, MainCloses
<1>8. \A u \in Session : SamePackets(u) /\ SameTest(u) /\ SameWorkers(u)
  BY <1>2, <1>3 DEF SamePackets, SameTest, SameWorkers
<1>9. \A u \in Session \ {s} : Same(u)
  <2>1. \A u \in Session \ {s} : issued'[u] = issued[u] /\ pending'[u] = pending[u]
    BY <1>1, <1>2 DEF Takes, Base, SessionTypes, DataTypes
  <2> QED BY <1>2, <1>7, <1>8, <2>1 DEF Same
<1>10. ConnectsOnce(s)'
  <2>1. issued'[s] BY <1>2 DEF Base, SessionTypes, DataTypes
  <2>2. pending'[s]["connect"] = n /\ \A x \in IO \ {"connect"} : pending'[s][x] = pending[s][x]
    BY <1>1, <1>6 DEF Takes
  <2>3. Silent(s)' BY <1>6, <1>8, SilentKept DEF Untouched
  <2>4. Untouched(s)' BY <1>2, <1>6, <2>2, <2>3 DEF Untouched, MainCloses
  <2>5. \A v \in Worker : ~Connects(v, s)' BY <1>2, <1>6 DEF Untouched, Connects
  <2> QED BY <1>5, <2>1, <2>2, <2>4, <2>5 DEF ConnectsOnce
<1> QED BY <1>2, <1>3, <1>8, <1>9, <1>10, OutsideChain

(* StorePlayerSessionId keeps Chain.                                       *)
LEMMA StoreIdChain ==
  ASSUME Base, Chain, StorePlayerSessionId
  PROVE  Chain'
<1>1. /\ main.pc = "store" /\ main'.pc = "storeIdx"
      /\ main'.g = main.g /\ main'.i = main.i
  BY DEF StorePlayerSessionId, Go, Base, MainTypes
<1>2. UNCHANGED <<mConnected, pc, who, hand, mSendBuffer, mSendRequestedCount, inflight, wire,
                  inbox, mPlayTestCount, mPlayerIdx, timers, issued, pending, out>>
  BY DEF StorePlayerSessionId, handlerVars, sendVars, bufferVars, netVars, clockVars
<1>3. \A u \in Session : mPlayerSessionId[u] => mPlayerSessionId'[u]
  BY DEF StorePlayerSessionId, Base, SessionTypes, DataTypes
<1>4. \A u \in Session : SameMain(u)
  BY <1>1, <1>2 DEF SameMain, MainCloses, Ahead, Later
<1>5. \A u \in Session : Same(u)
  BY <1>2, <1>3, <1>4 DEF Same, SamePackets, SameTest, SameWorkers
<1> QED BY <1>2, <1>5, AllSameChain DEF Chain

(* What StorePlayerIdx does; no session is still to come that was not.     *)
LEMMA StoreIdxEffect ==
  ASSUME Base, NEW s \in Session, s = Current, StorePlayerIdx
  PROVE  /\ main.pc = "storeIdx" /\ main'.pc = "connect"
         /\ mPlayerIdx' = [mPlayerIdx EXCEPT ![s] = TRUE]
         /\ UNCHANGED <<mConnected, pc, who, hand, mSendBuffer, mSendRequestedCount, inflight,
                        wire, inbox, mPlayTestCount, mPlayerSessionId, timers, issued,
                        pending, out>>
         /\ \A u \in Session : Later(u)' => Later(u)
<1>1. /\ main.pc = "storeIdx" /\ main'.pc = "connect"
      /\ main'.g = main.g /\ main'.i = main.i + 1
      /\ mPlayerIdx' = [mPlayerIdx EXCEPT ![s] = TRUE]
  BY DEF StorePlayerIdx, Base, MainTypes
<1>2. UNCHANGED <<mConnected, pc, who, hand, mSendBuffer, mSendRequestedCount, inflight, wire,
                  inbox, mPlayTestCount, mPlayerSessionId, timers, issued, pending, out>>
  BY DEF StorePlayerIdx, handlerVars, sendVars, bufferVars, netVars, clockVars
<1>3. ASSUME NEW u \in Session, Later(u)' PROVE Later(u)
  <2>1. u[1] > main.g \/ (u[1] = main.g /\ u[2] >= main.i + 1) BY <1>1, <1>3 DEF Later
  <2>2. u[2] \in Nat /\ main.i \in Nat BY SessionPair, ClientsAssumption DEF Base, MainTypes
  <2>3. u[2] >= main.i + 1 => u[2] > main.i BY <2>2
  <2> QED BY <1>1, <2>1, <2>3 DEF Later
<1> QED BY <1>1, <1>2, <1>3

(* StorePlayerIdx keeps Chain.                                             *)
LEMMA StoreIdxChain ==
  ASSUME Base, Chain, StorePlayerIdx
  PROVE  Chain'
<1>0. PICK s \in Session : s = Current
  BY CurrentType DEF StorePlayerIdx, Base, MainTypes
<1>1. /\ main.pc = "storeIdx" /\ main'.pc = "connect"
      /\ mPlayerIdx' = [mPlayerIdx EXCEPT ![s] = TRUE]
      /\ UNCHANGED <<mConnected, pc, who, hand, mSendBuffer, mSendRequestedCount, inflight,
                     wire, inbox, mPlayTestCount, mPlayerSessionId, timers, issued,
                     pending, out>>
      /\ \A u \in Session : Later(u)' => Later(u)
  BY <1>0, StoreIdxEffect
<1>2. ASSUME NEW u \in Session, Ahead(u)' PROVE Ahead(u)
  <2>1. CASE Later(u)' BY <1>1, <2>1 DEF Ahead
  <2>2. CASE ~Later(u)'
    <3>1. ~mPlayerIdx'[u] BY <1>2, <2>2 DEF Ahead
    <3>2. u # s /\ ~mPlayerIdx[u] BY <1>1, <3>1 DEF Base, SessionTypes, DataTypes
    <3> QED BY <1>0, <3>2 DEF Ahead, Current
  <2> QED BY <2>1, <2>2
<1>3. \A u \in Session : SameMain(u) BY <1>1, <1>2 DEF SameMain, MainCloses
<1>4. \A u \in Session : Same(u)
  BY <1>1, <1>3 DEF Same, SamePackets, SameTest, SameWorkers
<1> QED BY <1>1, <1>4, AllSameChain DEF Chain

(* Launch keeps Chain.                                                     *)
LEMMA LaunchChain ==
  ASSUME Base, Chain, Launch
  PROVE  Chain'
<1>1. CASE \/ PrepareGameSessions \/ CreateGameSession \/ DescribeGameSessions
           \/ StartGameSessionPlacement \/ CheckGameSessionPlacement
           \/ CreatePlayerSessions \/ ConnectEnds
  <2>1. \A u \in Session : SameMain(u) BY <1>1, LaunchAhead DEF Base
  <2>2. UNCHANGED sessionVars
    BY <1>1 DEF PrepareGameSessions, CreateGameSession, DescribeGameSessions,
                StartGameSessionPlacement, CheckGameSessionPlacement,
                CreatePlayerSessions, ConnectEnds
  <2> QED BY <2>1, <2>2, MainOnlyChain
<1> QED BY <1>1, ConnectRequestChain, StoreIdChain, StoreIdxChain DEF Launch

(* The exchange of DisconnectRequest on the main thread.                   *)
LEMMA TerminateEffect ==
  ASSUME Base, NEW s \in Session, s = Current, TerminateGameSessions
  PROVE  /\ main.pc \in {"wait", "terminate"}
         /\ UNCHANGED <<mRefCount, pc, who, hand, sendVars, netVars, testVars, clockVars,
                        issued, pending, out>>
         /\ \/ /\ UNCHANGED mConnected /\ main'.pc \in {"stop", "terminate"}
            \/ /\ mConnected[s] /\ mConnected' = [mConnected EXCEPT ![s] = FALSE]
               /\ main'.pc = "close" /\ Current' = s
<1> DEFINE here == main.i <= ready[main.g]
<1>1. /\ main.pc \in {"wait", "terminate"}
      /\ UNCHANGED <<mRefCount, pc, who, hand, sendVars, netVars, testVars, clockVars,
                     issued, pending, out>>
      /\ mConnected' = [mConnected EXCEPT ![s] = mConnected[s] /\ ~here]
  BY DEF TerminateGameSessions
<1>2. mConnected \in [Session -> BOOLEAN] BY DEF Base, SessionTypes
<1>3. CASE here /\ mConnected[s]
  <2>1. main' = MainAt("close", main.g, main.i) BY <1>3 DEF TerminateGameSessions
  <2>2. main'.pc = "close" /\ Current' = s BY <2>1 DEF MainAt, Current
  <2>3. mConnected' = [mConnected EXCEPT ![s] = FALSE] BY <1>1, <1>3
  <2> QED BY <1>1, <1>3, <2>2, <2>3
<1>4. CASE ~(here /\ mConnected[s])
  <2>1. main'.pc \in {"stop", "terminate"} BY <1>4 DEF TerminateGameSessions, MainAt
  <2>2. (mConnected[s] /\ ~here) = mConnected[s] BY <1>2, <1>4
  <2>3. UNCHANGED mConnected BY <1>1, <1>2, <2>2
  <2> QED BY <1>1, <2>1, <2>3
<1> QED BY <1>3, <1>4

(* Terminate keeps Chain.                                                  *)
LEMMA TerminateChain ==
  ASSUME Base, Chain, TerminateGameSessions
  PROVE  Chain'
<1>0. PICK s \in Session : s = Current
  BY CurrentType DEF TerminateGameSessions, Base, MainTypes
<1>1. /\ main.pc \in {"wait", "terminate"}
      /\ UNCHANGED <<mRefCount, pc, who, hand, sendVars, netVars, testVars, clockVars,
                     issued, pending, out>>
  BY <1>0, TerminateEffect
<1>2. \A u \in Session : SamePackets(u) /\ SameTest(u) /\ SameWorkers(u)
  BY <1>1 DEF SamePackets, SameTest, SameWorkers, sendVars, bufferVars, netVars, testVars,
              clockVars
<1>3. CASE UNCHANGED mConnected /\ main'.pc \in {"stop", "terminate"}
  <2>1. \A u \in Session : SameMain(u)
    BY <1>1, <1>3 DEF SameMain, Ahead, Later, MainCloses, testVars
  <2>2. \A u \in Session : Same(u) BY <1>1, <1>2, <1>3, <2>1 DEF Same
  <2> QED BY <1>1, <2>2, AllSameChain DEF Chain, clockVars
<1>4. CASE /\ mConnected[s] /\ mConnected' = [mConnected EXCEPT ![s] = FALSE]
           /\ main'.pc = "close" /\ Current' = s
  <2>1. \A u \in Session \ {s} : SameMain(u)
    BY <1>1, <1>4 DEF SameMain, Ahead, Later, MainCloses, testVars
  <2>2. \A u \in Session \ {s} : Same(u)
    BY <1>1, <1>2, <1>4, <2>1 DEF Same, Base, SessionTypes
  <2>3. ConnectsOnce(s) BY DEF Chain, ChainAt
  <2>4. ~Ahead(s) /\ pending[s]["connect"] = 0 BY <1>4, <2>3, Engaged DEF Untouched
  <2>5. ~Ahead(s)' BY <1>1, <1>4, <2>4 DEF Ahead, Later, testVars
  <2>6. ConnectsOnce(s)' BY <1>1, <1>2, <2>3, <2>4, <2>5, AloneConnects
  <2> QED BY <1>1, <1>2, <2>2, <2>6, OutsideChain DEF clockVars
<1> QED BY <1>0, <1>3, <1>4, TerminateEffect

(* What the DisconnectEx of main does.                                     *)
LEMMA CloseEffect ==
  ASSUME Base, NEW s \in Session, s = Current, CloseSession
  PROVE  /\ \E n \in {0, 1} : Takes(s, "disconnect", n)
                              /\ mRefCount' = [mRefCount EXCEPT ![s] = @ + n]
         /\ main.pc = "close" /\ main'.pc = "terminate" /\ Break(s)
         /\ UNCHANGED <<mConnected, pc, who, hand, bufferVars, inbox, testVars, clockVars,
                        issued, out>>
<1>1. PICK ok \in BOOLEAN :
        /\ pending' = [pending EXCEPT ![s]["disconnect"] = pending[s]["disconnect"] + One(ok)]
        /\ mRefCount' = [mRefCount EXCEPT ![s] = @ + One(ok)]
  BY DEF CloseSession
<1>2. One(ok) \in {0, 1} /\ One(ok) \in Nat /\ "disconnect" \in IO BY DEF One, IO
<1>3. Takes(s, "disconnect", One(ok))
  <2>1. /\ pending[s]["disconnect"] + One(ok) \in Nat /\ pending \in [Session -> [IO -> Nat]]
    BY <1>2, PendingNat
  <2> QED BY <1>1, <1>2, <2>1, PendingEntry DEF Takes
<1>4. main.pc = "close" /\ main'.pc = "terminate" BY DEF CloseSession, Go, Base, MainTypes
<1> QED BY <1>1, <1>2, <1>3, <1>4 DEF CloseSession

(* Close keeps Chain.                                                      *)
LEMMA CloseChain ==
  ASSUME Base, Chain, CloseSession
  PROVE  Chain'
<1>0. PICK s \in Session : s = Current
  BY CurrentType DEF CloseSession, Base, MainTypes
<1>1. PICK n \in {0, 1} : Takes(s, "disconnect", n) BY <1>0, CloseEffect
<1>2. /\ main.pc = "close" /\ main'.pc = "terminate" /\ Break(s)
      /\ UNCHANGED <<mConnected, pc, who, hand, bufferVars, inbox, testVars, clockVars,
                     issued, out>>
  BY <1>0, CloseEffect
<1>3. \A u \in Session : SamePackets(u) /\ SameTest(u) /\ SameWorkers(u)
  <2>1. \A u \in Session : wire'[u] = wire[u] \/ wire'[u] = <<>>
    BY <1>2 DEF Break, Base, SessionTypes, DataTypes
  <2> QED BY <1>2, <2>1 DEF SamePackets, SameTest, SameWorkers, bufferVars, testVars, clockVars
<1>4. \A u \in Session \ {s} : SameMain(u)
  BY <1>0, <1>2 DEF SameMain, Ahead, Later, MainCloses, testVars
<1>5. \A u \in Session \ {s} : Same(u)
  BY <1>1, <1>2, <1>3, <1>4 DEF Same, Takes
<1>6. ConnectsOnce(s)'
  <2>1. ConnectsOnce(s) BY DEF Chain, ChainAt
  <2>2. ~Ahead(s) /\ pending[s]["connect"] = 0
    BY <1>0, <1>2, <2>1, Engaged DEF Untouched, MainCloses
  <2>3. ~Ahead(s)' BY <1>2, <2>2 DEF Ahead, Later, testVars
  <2>4. pending'[s]["connect"] = pending[s]["connect"] BY <1>1 DEF Takes, IO
  <2> QED BY <1>2, <1>3, <2>1, <2>2, <2>3, <2>4, AloneConnects
<1> QED BY <1>2, <1>3, <1>5, <1>6, OutsideChain DEF clockVars

(* Shutdown keeps Chain.                                                   *)
LEMMA ShutdownChain ==
  ASSUME Base, Chain, Shutdown
  PROVE  Chain'
<1>1. CASE StopIoThreads
  <2>1. main.pc = "stop" /\ main'.pc = "join" BY <1>1 DEF StopIoThreads, Go, Base, MainTypes
  <2>2. \A u \in Session : SameMain(u) BY <1>1, <2>1
    DEF SameMain, Ahead, Later, MainCloses, StopIoThreads, testVars
  <2> QED BY <1>1, <2>2, MainOnlyChain
<1>2. CASE Finalize
  <2>1. main.pc = "join" /\ main'.pc = "done" BY <1>2 DEF Finalize, Go, Base, MainTypes
  <2>2. \A u \in Session : SameMain(u) BY <1>2, <2>1
    DEF SameMain, Ahead, Later, MainCloses, Finalize, sessionVars, testVars
  <2> QED BY <1>2, <2>2, MainOnlyChain DEF Finalize
<1> QED BY <1>1, <1>2, TerminateChain, CloseChain DEF Shutdown

(* Only the main thread stores ids and indices.                            *)
LEMMA ThreadsKeepIds ==
  ASSUME Threads \/ World
  PROVE  UNCHANGED <<mPlayerSessionId, mPlayerIdx>>
<1> USE DEF testVars
<1>1. CASE World
  <2>1. CASE Tick BY <2>1 DEF Tick
  <2>2. ASSUME NEW s \in Session, ServerReads(s) \/ Cut(s)
        PROVE  UNCHANGED <<mPlayerSessionId, mPlayerIdx>>
    BY <2>2 DEF ServerReads, Cut
  <2> QED BY <1>1, <2>1, <2>2 DEF World, Environment
<1>2. ASSUME NEW w \in Worker, Run(w) PROVE UNCHANGED <<mPlayerSessionId, mPlayerIdx>>
  BY <1>2 DEF Run, ConnectPreRecv, StartTest, PostSend, DisconnectEx, PlayTest, PlayTestDone
<1>3. ASSUME NEW w \in Worker, Awaited(w) PROVE UNCHANGED <<mPlayerSessionId, mPlayerIdx>>
  <2>1. CASE WaitTimeout(w) \/ StopNow(w) BY <2>1 DEF WaitTimeout, StopNow
  <2>2. ASSUME NEW s \in Session, Dequeue(w, s)
        PROVE  UNCHANGED <<mPlayerSessionId, mPlayerIdx>>
    BY <2>2 DEF Dequeue, ConnectDone, PreRecvDone, RecvDone, SendDone, DisconnectDone,
       CompletionError
  <2> QED BY <1>3, <2>1, <2>2 DEF Awaited
<1> QED BY <1>1, <1>2, <1>3 DEF Threads

(* Every step of an I/O thread keeps Chain.                                *)
LEMMA ThreadsChain ==
  ASSUME Base, Base', Chain, Threads
  PROVE  Chain'
<1>1. PICK w \in Worker : Awaited(w) \/ Run(w) BY DEF Threads
<1>2. UNCHANGED <<main, mPlayerIdx>> BY ThreadsKeepIds DEF Threads
<1>3. CASE Run(w)
  BY <1>2, <1>3, ConnectPreRecvChain, StartTestChain, PostSendChain, DisconnectExChain,
     PlayTestChain, PlayTestDoneChain DEF Run
<1>4. CASE WaitTimeout(w) \/ StopNow(w)
  BY <1>2, <1>4, WaitingChain
<1>5. ASSUME NEW s \in Session, Dequeue(w, s) PROVE Chain'
  BY <1>2, <1>5, ConnectDoneChain, PreRecvDoneChain, RecvDoneChain, SendDoneChain,
     DisconnectDoneChain, CompletionErrorChain DEF Dequeue
<1> QED BY <1>1, <1>3, <1>4, <1>5 DEF Awaited

(* Chain is inductive relative to Base.                                    *)
LEMMA ChainStep == Base /\ Chain /\ [Next]_vars => Chain'
<1> SUFFICES ASSUME Base, Chain, [Next]_vars PROVE Chain'
  OBVIOUS
<1>0. Base' BY BaseStep
<1>1. CASE Launch BY <1>1, LaunchChain
<1>2. CASE Shutdown BY <1>2, ShutdownChain
<1>3. CASE ServiceDecides \/ UNCHANGED vars
  <2>1. UNCHANGED <<main, sessionVars>> BY <1>3 DEF ServiceDecides, vars
  <2>2. \A u \in Session : SameMain(u)
    BY <2>1 DEF SameMain, Ahead, Later, MainCloses, Current, sessionVars, testVars
  <2> QED BY <2>1, <2>2, MainOnlyChain
<1>4. CASE Threads BY <1>0, <1>4, ThreadsChain
<1>5. CASE World
  <2>1. UNCHANGED <<main, mPlayerIdx>> BY <1>5, ThreadsKeepIds DEF World
  <2> QED BY <1>5, <2>1, TickChain, NetworkChain DEF World, Environment
<1> QED BY <1>1, <1>2, <1>3, <1>4, <1>5 DEF Next, Ended

(* Chain holds when the program starts.                                    *)
LEMMA InitChain == Init => Chain
<1> SUFFICES ASSUME Init PROVE Chain
  OBVIOUS
<1> USE DEF Init, SessionInit
<1>1. \A w \in Worker : Elements(timers[w]) = {} /\ Neat(timers[w])
  BY DEF Elements, EmptyQueue, IsEmpty, Neat
<1>2. ASSUME NEW s \in Session PROVE ChainAt(s)
  <2>1. ~HasJob(timers, s) /\ OneJob(timers, s) /\ ~Started(s)
    BY <1>1 DEF HasJob, OneJob, Started
  <2>2. Silent(s) /\ s # NoOne BY <2>1, SessionPair DEF Silent
  <2>3. main.pc = "prepare" BY DEF MainAt
  <2>4. \A io \in IO : pending[s][io] = 0 OBVIOUS
  <2>5. ConnectsOnce(s)
    <3>1. Untouched(s) BY <2>2, <2>3, <2>4 DEF Untouched, MainCloses, IO
    <3>2. \A w \in Worker : ~Connects(w, s) BY DEF Connects
    <3>3. pending[s]["connect"] = 0 BY <2>4 DEF IO
    <3> QED BY <3>1, <3>2, <3>3 DEF ConnectsOnce
  <2>6. LoginOnce(s)
    <3>1. Len(wire[s]) = 0 /\ Len(inbox[s]) = 0 /\ Len(mSendBuffer[s]) = 0
          /\ mSendBuffer[s] = <<>>
      OBVIOUS
    <3>2. Before(s) BY <3>1 DEF Before, IsLogin
    <3> QED BY <2>1, <3>2 DEF LoginOnce
  <2>7. Plays(s) BY <2>1, ClientsAssumption DEF Plays
  <2>8. KnowsItself(s) BY <2>1 DEF KnowsItself
  <2> QED BY <2>5, <2>6, <2>7, <2>8 DEF ChainAt
<1> QED BY <1>1, <1>2 DEF Chain

(* A session is connected once, so that its login is sent and answered at  *)
(* most once and becomes at most one chain of timer jobs.                  *)
THEOREM ChainInvariant == Spec => [](Base /\ Chain)
<1>1. Init => Base /\ Chain BY InitBase, InitChain
<1>2. Base /\ Chain /\ [Next]_vars => (Base /\ Chain)' BY BaseStep, ChainStep
<1> QED BY <1>1, <1>2, PTL DEF Spec

-----------------------------------------------------------------------------
(* Refs is an invariant.                                                   *)

-----------------------------------------------------------------------------
(* Refs is an invariant.                                                   *)

(* The threads at work for a session.                                      *)
LEMMA WorkersFinite ==
  \A s \in Session : IsFiniteSet(Workers(s)) /\ Cardinality(Workers(s)) \in Nat
<1> SUFFICES ASSUME NEW s \in Session
             PROVE  IsFiniteSet(Workers(s)) /\ Cardinality(Workers(s)) \in Nat
  OBVIOUS
<1>1. Workers(s) \subseteq Worker BY DEF Workers
<1>2. IsFiniteSet(Worker) BY ClientsAssumption
<1>3. IsFiniteSet(Workers(s)) BY <1>1, <1>2, FS_Subset
<1> QED BY <1>3, FS_CardinalityType

(* How the number of threads that work for a session changes with one of   *)
(* them.                                                                   *)
LEMMA WorkersCount ==
  ASSUME NEW w \in Worker, NEW s \in Session, \A v \in Worker \ {w} : who'[v] = who[v]
  PROVE  Cardinality(Workers(s)') =
           Cardinality(Workers(s)) + One(who'[w] = s) - One(who[w] = s)
<1>0. IsFiniteSet(Workers(s)) /\ Cardinality(Workers(s)) \in Nat BY WorkersFinite
<1>1. CASE who'[w] = s /\ who[w] = s
  <2>1. Workers(s)' = Workers(s) BY <1>1 DEF Workers
  <2> QED BY <1>0, <1>1, <2>1 DEF One
<1>2. CASE who'[w] # s /\ who[w] # s
  <2>1. Workers(s)' = Workers(s) BY <1>2 DEF Workers
  <2> QED BY <1>0, <1>2, <2>1 DEF One
<1>3. CASE who'[w] = s /\ who[w] # s
  <2>1. Workers(s)' = Workers(s) \cup {w} /\ w \notin Workers(s) BY <1>3 DEF Workers
  <2>2. Cardinality(Workers(s) \cup {w}) = Cardinality(Workers(s)) + 1
    BY <1>0, <2>1, FS_AddElement
  <2> QED BY <1>0, <1>3, <2>1, <2>2 DEF One
<1>4. CASE who'[w] # s /\ who[w] = s
  <2>1. Workers(s)' = Workers(s) \ {w} /\ w \in Workers(s) BY <1>4 DEF Workers
  <2>2. Cardinality(Workers(s) \ {w}) = Cardinality(Workers(s)) - 1
    BY <1>0, <2>1, FS_RemoveElement
  <2> QED BY <1>0, <1>4, <2>1, <2>2 DEF One
<1> QED BY <1>1, <1>2, <1>3, <1>4

(* The contexts in the kernel.                                             *)
LEMMA KernelNat ==
  ASSUME Base, NEW s \in Session
  PROVE  /\ \A x \in IO : pending[s][x] \in Nat
         /\ InKernel(s) \in Nat
<1>1. \A x \in IO : pending[s][x] \in Nat BY PendingNat
<1>2. {"connect", "zero", "recv", "send", "disconnect"} \subseteq IO BY DEF IO
<1>3. /\ pending[s]["connect"] \in Nat /\ pending[s]["zero"] \in Nat
      /\ pending[s]["recv"] \in Nat /\ pending[s]["send"] \in Nat
      /\ pending[s]["disconnect"] \in Nat
  BY <1>1, <1>2
<1> QED BY <1>1, <1>3 DEF InKernel

(* How the number of a session's operations in the kernel changes.         *)
LEMMA KernelTakes ==
  ASSUME Base, NEW s \in Session, NEW a \in IO, NEW n \in Int, Takes(s, a, n)
  PROVE  InKernel(s)' = InKernel(s) + n
<1> DEFINE c == pending[s]["connect"]
           z == pending[s]["zero"]
           r == pending[s]["recv"]
           x == pending[s]["send"]
           d == pending[s]["disconnect"]
<1>1. {"connect", "zero", "recv", "send", "disconnect"} = IO BY DEF IO
<1>2. c \in Nat /\ z \in Nat /\ r \in Nat /\ x \in Nat /\ d \in Nat BY <1>1, KernelNat
<1>3. InKernel(s) = c + z + r + x + d BY DEF InKernel
<1> HIDE DEF c, z, r, x, d
<1>4. CASE a = "connect"
  <2>1. InKernel(s)' = (c + n) + z + r + x + d
    BY <1>1, <1>4 DEF Takes, InKernel, c, z, r, x, d
  <2> QED BY <1>2, <1>3, <2>1
<1>5. CASE a = "zero"
  <2>1. InKernel(s)' = c + (z + n) + r + x + d
    BY <1>1, <1>5 DEF Takes, InKernel, c, z, r, x, d
  <2> QED BY <1>2, <1>3, <2>1
<1>6. CASE a = "recv"
  <2>1. InKernel(s)' = c + z + (r + n) + x + d
    BY <1>1, <1>6 DEF Takes, InKernel, c, z, r, x, d
  <2> QED BY <1>2, <1>3, <2>1
<1>7. CASE a = "send"
  <2>1. InKernel(s)' = c + z + r + (x + n) + d
    BY <1>1, <1>7 DEF Takes, InKernel, c, z, r, x, d
  <2> QED BY <1>2, <1>3, <2>1
<1>8. CASE a = "disconnect"
  <2>1. InKernel(s)' = c + z + r + x + (d + n)
    BY <1>1, <1>8 DEF Takes, InKernel, c, z, r, x, d
  <2> QED BY <1>2, <1>3, <2>1
<1> QED BY <1>4, <1>5, <1>6, <1>7, <1>8 DEF IO

(* The zero-byte receive and the receive that follow each other.           *)
LEMMA KernelMoves ==
  ASSUME Base, NEW s \in Session, NEW n \in Int,
         Replaces(s, "zero", "recv", n) \/ Replaces(s, "recv", "zero", n)
  PROVE  InKernel(s)' = InKernel(s) + n - 1
<1> DEFINE c == pending[s]["connect"]
           z == pending[s]["zero"]
           r == pending[s]["recv"]
           x == pending[s]["send"]
           d == pending[s]["disconnect"]
<1>1. {"connect", "zero", "recv", "send", "disconnect"} = IO BY DEF IO
<1>2. c \in Nat /\ z \in Nat /\ r \in Nat /\ x \in Nat /\ d \in Nat BY <1>1, KernelNat
<1>3. InKernel(s) = c + z + r + x + d BY DEF InKernel
<1> HIDE DEF c, z, r, x, d
<1>4. CASE Replaces(s, "zero", "recv", n)
  <2>1. InKernel(s)' = c + (z - 1) + (r + n) + x + d
    BY <1>1, <1>4 DEF Replaces, InKernel, c, z, r, x, d
  <2> QED BY <1>2, <1>3, <2>1
<1>5. CASE Replaces(s, "recv", "zero", n)
  <2>1. InKernel(s)' = c + (z + n) + (r - 1) + x + d
    BY <1>1, <1>5 DEF Replaces, InKernel, c, z, r, x, d
  <2> QED BY <1>2, <1>3, <2>1
<1> QED BY <1>4, <1>5

(* Nothing happened to the references on session u.                        *)
SameRefs(u) ==
  /\ mConnected'[u] = mConnected[u] /\ pending'[u] = pending[u] /\ issued'[u] = issued[u]
  /\ mRefCount'[u] = mRefCount[u]
  /\ HasJob(timers', u) <=> HasJob(timers, u)
  /\ MainCloses(u)' <=> MainCloses(u)
  /\ \A v \in Worker : (who'[v] = u <=> who[v] = u) /\ (who[v] = u => pc'[v] = pc[v])

RefsAt(u) == ClosesOnce(u) /\ AddUp(u)

(* A session that a step does not concern keeps its accounts.              *)
LEMMA SameRefsKept ==
  ASSUME NEW u \in Session, RefsAt(u), SameRefs(u)
  PROVE  RefsAt(u)'
<1>1. ClosesOnce(u)'
  <2>1. \A v \in Worker : Closes(v, u)' <=> Closes(v, u) BY DEF Closes, SameRefs
  <2> QED BY <2>1 DEF ClosesOnce, RefsAt, SameRefs
<1>2. AddUp(u)'
  <2>1. Workers(u)' = Workers(u) BY DEF Workers, SameRefs
  <2>2. InKernel(u)' = InKernel(u) BY DEF InKernel, SameRefs
  <2>3. HasJob(timers, u)' <=> HasJob(timers, u) BY DEF SameRefs
  <2>4. One(HasJob(timers, u))' = One(HasJob(timers, u)) BY <2>3 DEF One
  <2> QED BY <2>1, <2>2, <2>4 DEF AddUp, RefsAt, SameRefs
<1> QED BY <1>1, <1>2 DEF RefsAt

(* A step of thread w for session s.                                       *)
LEMMA RefsFrom ==
  ASSUME Base, Base', Refs, NEW w \in Worker, NEW s \in Session,
         \A v \in Worker \ {w} : SameThread(v),
         who[w] \in {s, NoOne}, who'[w] \in {s, NoOne}, UNCHANGED main,
         JobsOf(s, timers[w], timers'[w]),
         \A u \in Session \ {s} :
           /\ mConnected'[u] = mConnected[u] /\ pending'[u] = pending[u]
           /\ issued'[u] = issued[u] /\ mRefCount'[u] = mRefCount[u],
         RefsAt(s)'
  PROVE  Refs'
<1>1. \A v \in Worker \ {w} : timers'[v] = timers[v] BY DEF SameThread
<1>2. ASSUME NEW u \in Session \ {s} PROVE RefsAt(u)'
  <2>1. HasJob(timers', u) <=> HasJob(timers, u) BY <1>1, JobsSame
  <2>2. who[w] # u /\ who'[w] # u BY SessionPair
  <2>3. SameRefs(u)
    BY <2>1, <2>2 DEF SameRefs, SameThread, MainCloses, Current
  <2> QED BY <2>3, SameRefsKept DEF Refs, RefsAt
<1> QED BY <1>2 DEF Refs, RefsAt

(* What Leave does to the references.                                      *)
LEMMA LeftCount ==
  ASSUME Base, NEW w \in Worker, NEW s \in Session, NEW io, NEW d \in Int, NEW q,
         Left(w, s, io, d, q)
  PROVE  /\ mRefCount'[s] = mRefCount[s] + d - 1 + One(who'[w] = s)
         /\ \A u \in Session \ {s} : mRefCount'[u] = mRefCount[u]
         /\ mRefCount[s] \in Int
<1>0. /\ mRefCount \in [Session -> Int] /\ mRefCount[s] \in Int /\ s # NoOne
      /\ who \in [Worker -> Session \cup {NoOne}]
  BY SessionPair DEF Base, SessionTypes, ThreadTypes
<1>1. CASE who'[w] = s /\ mRefCount' = [mRefCount EXCEPT ![s] = @ + d]
  BY <1>0, <1>1 DEF One
<1>2. CASE who'[w] = NoOne /\ mRefCount' = [mRefCount EXCEPT ![s] = @ + d - 1]
  BY <1>0, <1>2 DEF One
<1> QED BY <1>0, <1>1, <1>2 DEF Left

(* The references of a session add up when a thread lets it go.            *)
LEMMA LeftAddUp ==
  ASSUME Base, Base', NEW w \in Worker, NEW s \in Session, AddUp(s),
         NEW io, NEW d \in Int, NEW q, Left(w, s, io, d, q),
         \A v \in Worker \ {w} : who'[v] = who[v], NEW n \in Int,
         InKernel(s)' = InKernel(s) + n - One(who[w] # s),
         d = n + One(issued'[s]) - One(issued[s])
               + One(HasJob(timers', s)) - One(HasJob(timers, s))
  PROVE  AddUp(s)'
<1> DEFINE a == One(issued[s])
           b == One(issued'[s])
           f == One(HasJob(timers, s))
           g == One(HasJob(timers', s))
           k == InKernel(s)
           c == Cardinality(Workers(s))
           o == One(who'[w] = s)
           p == One(who[w] = s)
           m == mRefCount[s]
<1>1. /\ mRefCount'[s] = m + d - 1 + o /\ m \in Int BY LeftCount
<1>2. Cardinality(Workers(s)') = c + o - p BY WorkersCount
<1>3. One(who[w] # s) = 1 - p BY DEF One
<1>4. m = a + k + c + f BY DEF AddUp
<1>5. /\ a \in Int /\ b \in Int /\ f \in Int /\ g \in Int /\ o \in Int /\ p \in Int
  BY DEF One
<1>6. k \in Int /\ c \in Int BY KernelNat, WorkersFinite
<1>7. AddUp(s)' <=> mRefCount'[s] = b + InKernel(s)' + Cardinality(Workers(s)') + g
  BY DEF AddUp
<1> HIDE DEF a, b, f, g, k, c, o, p, m
<1>8. d = n + b - a + g - f BY DEF a, b, f, g
<1>9. InKernel(s)' = k + n - (1 - p) BY <1>3 DEF k
<1>10. m + d - 1 + o = b + (k + n - (1 - p)) + (c + o - p) + g
  BY <1>1, <1>4, <1>5, <1>6, <1>8
<1> QED BY <1>1, <1>2, <1>7, <1>9, <1>10

(* The right to disconnect stays unique when a thread lets a session go.   *)
LEMMA LeftCloses ==
  ASSUME Base, NEW w \in Worker, NEW s \in Session, ClosesOnce(s),
         NEW io, NEW d, NEW q, Left(w, s, io, d, q),
         \A v \in Worker \ {w} : SameThread(v), UNCHANGED main,
         issued'[s] = issued[s], pending'[s]["disconnect"] = pending[s]["disconnect"]
  PROVE  ClosesOnce(s)'
<1>0. /\ mConnected \in [Session -> BOOLEAN] /\ pc \in [Worker -> Labels]
      /\ who \in [Worker -> Session \cup {NoOne}]
  BY DEF Base, SessionTypes, ThreadTypes
<1>1. MainCloses(s)' <=> MainCloses(s) BY DEF MainCloses, Current
<1>2. \A v \in Worker \ {w} : Closes(v, s)' <=> Closes(v, s) BY DEF Closes, SameThread
<1>3. CASE mConnected[s] /\ mConnected' = [mConnected EXCEPT ![s] = FALSE]
  <2>1. ~mConnected'[s] BY <1>0, <1>3
  <2> QED BY <1>1, <1>2, <1>3, <2>1 DEF ClosesOnce
<1>4. CASE UNCHANGED mConnected /\ pc'[w] \in {"after", "loop", "idle"}
  <2>1. ~Closes(w, s)' BY <1>4 DEF Closes
  <2> QED BY <1>1, <1>2, <1>4, <2>1 DEF ClosesOnce
<1>5. \/ mConnected[s] /\ mConnected' = [mConnected EXCEPT ![s] = FALSE]
      \/ UNCHANGED mConnected /\ pc'[w] \in {"after", "loop", "idle"}
  BY <1>0 DEF Left, LoopOn
<1> QED BY <1>3, <1>4, <1>5

(* A handler, or PlayTest, that ends, while the right to disconnect stays  *)
(* where it is or is taken by the thread.                                  *)
LEMMA LeftRefs ==
  ASSUME Base, Base', Refs, NEW w \in Worker, NEW s \in Session,
         NEW io, NEW d \in Int, NEW q, Left(w, s, io, d, q),
         \A v \in Worker \ {w} : timers'[v] = timers[v] /\ out'[v] = out[v],
         who[w] \in {s, NoOne}, UNCHANGED <<main, issued>>,
         JobsOf(s, timers[w], timers'[w]), NEW n \in Int,
         InKernel(s)' = InKernel(s) + n - One(who[w] # s),
         d = n + One(HasJob(timers', s)) - One(HasJob(timers, s)),
         pending'[s]["disconnect"] = pending[s]["disconnect"],
         \A u \in Session \ {s} : pending'[u] = pending[u]
  PROVE  Refs'
<1>1. /\ \A v \in Worker \ {w} : SameThread(v)
      /\ who'[w] \in {s, NoOne}
      /\ \A u \in Session \ {s} : mConnected'[u] = mConnected[u]
  BY LeftThreads
<1>2. \A u \in Session \ {s} : mRefCount'[u] = mRefCount[u] BY LeftCount
<1>3. ClosesOnce(s)' BY <1>1, LeftCloses DEF Refs
<1>4. AddUp(s)'
  <2>1. \A v \in Worker \ {w} : who'[v] = who[v] BY <1>1 DEF SameThread
  <2>2. d = n + One(issued'[s]) - One(issued[s])
              + One(HasJob(timers', s)) - One(HasJob(timers, s))
    <3>1. One(issued[s]) \in Int /\ One(issued'[s]) = One(issued[s])
          /\ One(HasJob(timers', s)) \in Int /\ One(HasJob(timers, s)) \in Int
      BY DEF One
    <3> QED BY <3>1
  <2> QED BY <2>1, <2>2, LeftAddUp DEF Refs
<1> QED BY <1>1, <1>2, <1>3, <1>4, RefsFrom DEF RefsAt

(* The same when the timers stay as they are.                              *)
LEMMA QuietRefs ==
  ASSUME Base, Base', Refs, NEW w \in Worker, NEW s \in Session,
         NEW io, NEW d \in Int, Left(w, s, io, d, timers[w]),
         \A v \in Worker \ {w} : out'[v] = out[v],
         who[w] \in {s, NoOne}, UNCHANGED <<main, issued, timers>>,
         InKernel(s)' = InKernel(s) + d - One(who[w] # s),
         pending'[s]["disconnect"] = pending[s]["disconnect"],
         \A u \in Session \ {s} : pending'[u] = pending[u]
  PROVE  Refs'
<1>1. JobsOf(s, timers[w], timers'[w]) BY DEF JobsOf
<1>2. One(HasJob(timers', s)) = One(HasJob(timers, s)) /\ One(HasJob(timers, s)) \in Int
  BY DEF One
<1>3. d = d + One(HasJob(timers', s)) - One(HasJob(timers, s)) BY <1>2
<1> QED BY <1>1, <1>3, LeftRefs

(* A thread without a session does not count for s.                        *)
LEMMA OneIdle ==
  ASSUME NEW w \in Worker, NEW s \in Session, who[w] = NoOne
  PROVE  One(who[w] # s) = 1
BY SessionPair DEF One

(* A thread that has s counts for it.                                      *)
LEMMA OneBusy ==
  ASSUME NEW w \in Worker, NEW s \in Session, who[w] = s
  PROVE  One(who[w] # s) = 0
BY DEF One

(* PreRecvDone keeps Refs.                                                 *)
LEMMA PreRecvDoneRefs ==
  ASSUME Base, Base', Refs, NEW w \in Worker, NEW s \in Session, PreRecvDone(w, s),
         UNCHANGED main
  PROVE  Refs'
<1>1. PICK n \in {0, 1} : Left(w, s, "zero", n, timers[w]) /\ Replaces(s, "zero", "recv", n)
  BY PreRecvDoneEffect
<1>2. who[w] = NoOne /\ UNCHANGED <<timers, issued, out>> BY PreRecvDoneEffect
<1>3. n \in Int OBVIOUS
<1>4. InKernel(s)' = InKernel(s) + n - One(who[w] # s)
  <2>1. InKernel(s)' = InKernel(s) + n - 1 BY <1>1, <1>3, KernelMoves
  <2> QED BY <1>2, <2>1, OneIdle
<1>5. pending'[s]["disconnect"] = pending[s]["disconnect"]
      /\ \A u \in Session \ {s} : pending'[u] = pending[u]
  BY <1>1 DEF Replaces, IO
<1> QED BY <1>1, <1>2, <1>3, <1>4, <1>5, QuietRefs

(* CompletionError keeps Refs.                                             *)
LEMMA CompletionErrorRefs ==
  ASSUME Base, Base', Refs, NEW w \in Worker, NEW s \in Session,
         NEW io \in {"recv", "send"}, CompletionError(w, s, io), UNCHANGED main
  PROVE  Refs'
<1>1. /\ pending[s][io] > 0 /\ pending' = [pending EXCEPT ![s][io] = pending[s][io] - 1]
      /\ Leave(w, s, io, TRUE, 0, timers[w]) /\ who[w] = NoOne
      /\ UNCHANGED <<timers, issued, out>>
  BY DEF CompletionError, Dequeued, Base, Stands
<1>2. 0 \in Int /\ -1 \in Int /\ io \in IO /\ "disconnect" \in IO \ {io} BY DEF IO
<1>3. Left(w, s, io, 0, timers[w]) BY <1>1, <1>2, LeaveLeft DEF Base
<1>4. Takes(s, io, -1)
  <2>1. /\ pending[s][io] - 1 \in Nat /\ pending \in [Session -> [IO -> Nat]]
        /\ pending[s][io] - 1 = pending[s][io] + (-1)
    BY <1>1, <1>2, PendingNat
  <2>2. /\ pending'[s][io] = pending[s][io] - 1
        /\ \A x \in IO \ {io} : pending'[s][x] = pending[s][x]
        /\ \A u \in Session \ {s} : pending'[u] = pending[u]
    BY <1>1, <1>2, <2>1, PendingEntry
  <2> QED BY <2>1, <2>2 DEF Takes
<1>5. InKernel(s)' = InKernel(s) + 0 - One(who[w] # s)
  <2>1. InKernel(s)' = InKernel(s) + (-1) BY <1>2, <1>4, KernelTakes
  <2>2. InKernel(s) \in Nat BY KernelNat
  <2>3. InKernel(s) + (-1) = InKernel(s) + 0 - 1 BY <2>2
  <2> QED BY <1>1, <2>1, <2>3, OneIdle
<1>6. pending'[s]["disconnect"] = pending[s]["disconnect"]
      /\ \A u \in Session \ {s} : pending'[u] = pending[u]
  BY <1>2, <1>4 DEF Takes
<1> QED BY <1>1, <1>2, <1>3, <1>5, <1>6, QuietRefs

(* RecvDone keeps Refs.                                                    *)
LEMMA RecvDoneRefs ==
  ASSUME Base, Base', Chain, Refs, NEW w \in Worker, NEW s \in Session, RecvDone(w, s),
         UNCHANGED main
  PROVE  Refs'
<1>1. who[w] = NoOne /\ UNCHANGED <<issued, out>> BY RecvDoneEffect
<1>2. PICK k \in 1 .. Len(inbox[s]), n \in {0, 1} :
              LET packets == SubSeq(inbox[s], 1, k)
                  q == OnRead(w, s, packets)
              IN
              /\ timers' = [timers EXCEPT ![w] = q]
              /\ Replaces(s, "recv", "zero", n)
              /\ Left(w, s, "recv", n + One(HasLogin(packets)), q)
  BY RecvDoneEffect
<1> DEFINE packets == SubSeq(inbox[s], 1, k)
           q == OnRead(w, s, packets)
           d == n + One(HasLogin(packets))
<1>3. timers'[w] = q /\ \A v \in Worker \ {w} : timers'[v] = timers[v]
  BY <1>2 DEF Base, ThreadTypes
<1>4. Left(w, s, "recv", d, q) /\ Replaces(s, "recv", "zero", n)
  BY <1>2
<1>5. HasLogin(packets) => ~HasJob(timers, s)
  <2>1. inbox[s] \in Seq(PacketType)
    BY DEF Base, SessionTypes, DataTypes
  <2>2. HasLogin(packets) => \E i \in 1 .. Len(inbox[s]) : inbox[s][i] = "login"
    BY <2>1 DEF HasLogin
  <2> QED BY <2>2 DEF Chain, ChainAt, LoginOnce, Since, Started
<1> HIDE DEF packets, q
<1>6. n \in Int /\ d \in Int BY DEF One
<1>7. InKernel(s)' = InKernel(s) + n - One(who[w] # s)
  <2>1. InKernel(s)' = InKernel(s) + n - 1 BY <1>4, <1>6, KernelMoves
  <2> QED BY <1>1, <2>1, OneIdle
<1>8. pending'[s]["disconnect"] = pending[s]["disconnect"]
      /\ \A u \in Session \ {s} : pending'[u] = pending[u]
  BY <1>4 DEF Replaces, IO
<1>9. JobsOf(s, timers[w], timers'[w])
      /\ One(HasLogin(packets)) = One(HasJob(timers', s)) - One(HasJob(timers, s))
  <2>1. CASE HasLogin(packets)
    <3> DEFINE e == TimerJob(w, s)
    <3>1. e \in JobOf /\ e.owner = s BY TimerJobType DEF TimerJob
    <3>2. timers'[w] = Push(timers[w], e) BY <1>3, <2>1 DEF OnRead, q
    <3> HIDE DEF e
    <3>3. GoodQueue(timers[w]) BY DEF Base, GoodQueue, ThreadTypes, Due
    <3>4. Elements(timers'[w]) = Elements(timers[w]) \cup {e}
      BY <3>1, <3>2, <3>3, PushElements
    <3>5. HasJob(timers', s) BY <3>1, <3>4 DEF HasJob
    <3>6. JobsOf(s, timers[w], timers'[w]) BY <3>1, <3>4 DEF JobsOf
    <3> QED BY <1>5, <2>1, <3>5, <3>6 DEF One
  <2>2. CASE ~HasLogin(packets)
    <3>1. timers'[w] = timers[w] BY <1>3, <2>2 DEF OnRead, q
    <3>2. JobsOf(s, timers[w], timers'[w]) BY <3>1 DEF JobsOf
    <3>3. HasJob(timers', s) <=> HasJob(timers, s) BY <1>3, <3>1 DEF HasJob
    <3> QED BY <2>2, <3>2, <3>3 DEF One
  <2> QED BY <2>1, <2>2
<1>10. d = n + One(HasJob(timers', s)) - One(HasJob(timers, s))
  <2>1. One(HasJob(timers', s)) \in Int /\ One(HasJob(timers, s)) \in Int BY DEF One
  <2> QED BY <1>6, <1>9, <2>1
<1>11. \A v \in Worker \ {w} : timers'[v] = timers[v] /\ out'[v] = out[v]
  BY <1>1, <1>3
<1> HIDE DEF d
<1> QED BY <1>1, <1>4, <1>6, <1>7, <1>8, <1>9, <1>10, <1>11, LeftRefs

(* SendDone keeps Refs.                                                    *)
LEMMA SendDoneRefs ==
  ASSUME Base, Base', Refs, NEW w \in Worker, NEW s \in Session, SendDone(w, s),
         UNCHANGED main
  PROVE  Refs'
<1>1. /\ pending[s]["send"] = 1 /\ who[w] = NoOne /\ UNCHANGED <<timers, issued, out>>
  BY SendDoneEffect
<1>2. PICK sent \in {inflight[s], inflight[s] - 1}, n \in {0, 1} :
              /\ Left(w, s, "send", n, timers[w])
              /\ Flushed(s, Rest(s, sent), n, mSendRequestedCount[s] - 1,
                         IF Rest(s, sent) # <<>> /\ sent < inflight[s]
                         THEN Front(wire[s]) ELSE wire[s])
  BY SendDoneEffect
<1>3. n \in Int /\ n - 1 \in Int /\ "send" \in IO /\ "disconnect" \in IO \ {"send"} BY DEF IO
<1>4. /\ pending'[s]["send"] = n
      /\ \A x \in IO \ {"send"} : pending'[s][x] = pending[s][x]
      /\ \A u \in Session \ {s} : pending'[u] = pending[u]
  BY <1>2 DEF Flushed
<1>5. Takes(s, "send", n - 1)
  <2>1. pending'[s]["send"] = pending[s]["send"] + (n - 1) BY <1>1, <1>3, <1>4
  <2> QED BY <1>4, <2>1 DEF Takes
<1>6. InKernel(s)' = InKernel(s) + n - One(who[w] # s)
  <2>1. InKernel(s)' = InKernel(s) + (n - 1) BY <1>3, <1>5, KernelTakes
  <2>2. InKernel(s) \in Nat BY KernelNat
  <2>3. InKernel(s) + (n - 1) = InKernel(s) + n - 1 BY <1>3, <2>2
  <2> QED BY <1>1, <2>1, <2>3, OneIdle
<1>7. pending'[s]["disconnect"] = pending[s]["disconnect"] BY <1>3, <1>4
<1> QED BY <1>1, <1>2, <1>3, <1>4, <1>6, <1>7, QuietRefs

(* PostSend keeps Refs.                                                    *)
LEMMA PostSendRefs ==
  ASSUME Base, Base', Refs, NEW w \in Worker, PostSend(w), UNCHANGED main
  PROVE  Refs'
<1>0. PICK s \in Session : s = who[w]
  BY DEF PostSend, Stands, Base
<1> DEFINE buf == Append(mSendBuffer[s], AsSent(out[w]))
<1>1. UNCHANGED <<timers, issued>> /\ \A v \in Worker \ {w} : out'[v] = out[v]
  BY <1>0, PostSendEffect
<1>2. \/ Left(w, s, hand[w], 0, timers[w]) /\ UNCHANGED pending
      \/ /\ pending[s]["send"] = 0
         /\ \E n \in {0, 1} : /\ Left(w, s, hand[w], n, timers[w])
                              /\ Flushed(s, buf, n, 0, wire[s])
  BY <1>0, PostSendEffect
<1>3. InKernel(s) \in Nat /\ One(who[w] # s) = 0 BY <1>0, KernelNat, OneBusy
<1> HIDE DEF buf
<1>4. CASE Left(w, s, hand[w], 0, timers[w]) /\ UNCHANGED pending
  <2>1. InKernel(s)' = InKernel(s) BY <1>4 DEF InKernel
  <2>2. InKernel(s)' = InKernel(s) + 0 - One(who[w] # s) BY <1>3, <2>1
  <2>3. 0 \in Int OBVIOUS
  <2> QED BY <1>0, <1>1, <1>4, <2>2, <2>3, QuietRefs
<1>5. CASE /\ pending[s]["send"] = 0
           /\ \E n \in {0, 1} : /\ Left(w, s, hand[w], n, timers[w])
                                /\ Flushed(s, buf, n, 0, wire[s])
  <2>1. PICK n \in {0, 1} : /\ Left(w, s, hand[w], n, timers[w])
                            /\ Flushed(s, buf, n, 0, wire[s])
    BY <1>5
  <2>2. n \in Int /\ "send" \in IO /\ "disconnect" \in IO \ {"send"} BY DEF IO
  <2>3. /\ pending'[s]["send"] = n
        /\ \A x \in IO \ {"send"} : pending'[s][x] = pending[s][x]
        /\ \A u \in Session \ {s} : pending'[u] = pending[u]
    BY <2>1 DEF Flushed
  <2>4. Takes(s, "send", n)
    <3>1. pending'[s]["send"] = pending[s]["send"] + n BY <1>5, <2>2, <2>3
    <3> QED BY <2>3, <3>1 DEF Takes
  <2>5. InKernel(s)' = InKernel(s) + n - One(who[w] # s)
    <3>1. InKernel(s)' = InKernel(s) + n BY <2>2, <2>4, KernelTakes
    <3> QED BY <1>3, <2>2, <3>1
  <2>6. pending'[s]["disconnect"] = pending[s]["disconnect"] BY <2>2, <2>3
  <2> QED BY <1>0, <1>1, <2>1, <2>2, <2>3, <2>5, <2>6, QuietRefs
<1> QED BY <1>2, <1>4, <1>5

(* DisconnectEx keeps Refs.                                                *)
LEMMA DisconnectExRefs ==
  ASSUME Base, Base', Refs, NEW w \in Worker, DisconnectEx(w), UNCHANGED main
  PROVE  Refs'
<1>1. PICK s \in Session : s = who[w]
  BY DEF DisconnectEx, Stands, Base
<1>2. PICK ok \in BOOLEAN :
        /\ pending' = [pending EXCEPT ![s]["disconnect"] = pending[s]["disconnect"] + One(ok)]
        /\ Leave(w, s, hand[w], FALSE, One(ok), timers[w])
  BY <1>1 DEF DisconnectEx
<1>3. pc[w] = "disc" /\ UNCHANGED <<timers, issued, out>> BY DEF DisconnectEx
<1> DEFINE n == One(ok)
<1>4. n \in Int /\ n \in Nat /\ n \in {0, 1} /\ "disconnect" \in IO BY DEF One, IO
<1>5. Left(w, s, hand[w], n, timers[w])
  BY <1>2, <1>4, LeaveLeft DEF Base
<1>6. Takes(s, "disconnect", n)
  <2>1. pending[s]["disconnect"] + n \in Nat /\ pending \in [Session -> [IO -> Nat]]
    BY <1>4, PendingNat
  <2> QED BY <1>2, <1>4, <2>1, PendingEntry DEF Takes
<1> HIDE DEF n
<1>7. /\ \A v \in Worker \ {w} : SameThread(v)
      /\ who'[w] \in {s, NoOne}
      /\ \A u \in Session \ {s} : mConnected'[u] = mConnected[u]
  BY <1>3, <1>5, LeftThreads
<1>8. Closes(w, s) /\ ClosesOnce(s) BY <1>1, <1>3 DEF Closes, Refs
<1>9. ~mConnected[s] /\ pending[s]["disconnect"] = 0 /\ issued[s] /\ ~MainCloses(s)
  BY <1>8 DEF ClosesOnce
<1>10. UNCHANGED mConnected /\ pc'[w] \in {"after", "loop", "idle"}
  BY <1>5, <1>9 DEF Left, LoopOn, Base, ThreadTypes
<1>11. ClosesOnce(s)'
  <2>1. \A v \in Worker : ~Closes(v, s)'
    BY <1>7, <1>8, <1>10 DEF Closes, SameThread, ClosesOnce
  <2>2. ~MainCloses(s)' BY <1>9 DEF MainCloses, Current
  <2>3. pending'[s]["disconnect"] = n BY <1>4, <1>6, <1>9 DEF Takes
  <2> QED BY <1>3, <1>4, <1>9, <1>10, <2>1, <2>2, <2>3 DEF ClosesOnce
<1>12. AddUp(s)'
  <2>1. InKernel(s)' = InKernel(s) + n - One(who[w] # s)
    <3>1. InKernel(s)' = InKernel(s) + n BY <1>4, <1>6, KernelTakes
    <3>2. InKernel(s) \in Nat /\ One(who[w] # s) = 0 BY <1>1, KernelNat, OneBusy
    <3> QED BY <1>4, <3>1, <3>2
  <2>2. n = n + One(issued'[s]) - One(issued[s])
              + One(HasJob(timers', s)) - One(HasJob(timers, s))
    <3>1. One(issued[s]) \in Int /\ One(issued'[s]) = One(issued[s])
          /\ One(HasJob(timers', s)) = One(HasJob(timers, s)) /\ One(HasJob(timers, s)) \in Int
      BY <1>3 DEF One
    <3> QED BY <1>4, <3>1
  <2>3. \A v \in Worker \ {w} : who'[v] = who[v] BY <1>7 DEF SameThread
  <2> QED BY <1>4, <1>5, <2>1, <2>2, <2>3, LeftAddUp DEF Refs
<1>13. \A u \in Session \ {s} :
           /\ mConnected'[u] = mConnected[u] /\ pending'[u] = pending[u]
           /\ issued'[u] = issued[u] /\ mRefCount'[u] = mRefCount[u]
  BY <1>3, <1>4, <1>5, <1>6, <1>7, LeftCount DEF Takes
<1>14. JobsOf(s, timers[w], timers'[w]) BY <1>3 DEF JobsOf
<1> QED BY <1>1, <1>7, <1>11, <1>12, <1>13, <1>14, RefsFrom DEF RefsAt

(* DisconnectDone keeps Refs.                                              *)
LEMMA DisconnectDoneRefs ==
  ASSUME Base, Base', Refs, NEW w \in Worker, NEW s \in Session, DisconnectDone(w, s),
         UNCHANGED main
  PROVE  Refs'
<1>1. /\ pending[s]["disconnect"] > 0
      /\ pending' = [pending EXCEPT ![s]["disconnect"] = pending[s]["disconnect"] - 1]
      /\ Leave(w, s, "disconnect", FALSE, -1, timers[w]) /\ who[w] = NoOne
      /\ UNCHANGED <<timers, out>>
      /\ issued' = [issued EXCEPT ![s] = FALSE]
  BY DEF DisconnectDone, Dequeued, Base, Stands
<1>2. -1 \in Int /\ 0 \in Int /\ "disconnect" \in IO BY DEF IO
<1>3. Left(w, s, "disconnect", -1, timers[w]) BY <1>1, <1>2, LeaveLeft DEF Base
<1>4. Takes(s, "disconnect", -1)
  <2>1. /\ pending[s]["disconnect"] - 1 \in Nat /\ pending \in [Session -> [IO -> Nat]]
        /\ pending[s]["disconnect"] - 1 = pending[s]["disconnect"] + (-1)
    BY <1>1, <1>2, PendingNat
  <2>2. /\ pending'[s]["disconnect"] = pending[s]["disconnect"] - 1
        /\ \A x \in IO \ {"disconnect"} : pending'[s][x] = pending[s][x]
        /\ \A u \in Session \ {s} : pending'[u] = pending[u]
    BY <1>1, <1>2, <2>1, PendingEntry
  <2> QED BY <2>1, <2>2 DEF Takes
<1>5. /\ \A v \in Worker \ {w} : SameThread(v)
      /\ who'[w] \in {s, NoOne}
      /\ \A u \in Session \ {s} : mConnected'[u] = mConnected[u]
  BY <1>1, <1>3, LeftThreads
<1>6. ClosesOnce(s) /\ pending[s]["disconnect"] \in Nat
  BY <1>2, PendingNat DEF Refs
<1>7. /\ ~mConnected[s] /\ issued[s] /\ ~MainCloses(s) /\ pending[s]["disconnect"] = 1
      /\ \A v \in Worker : ~Closes(v, s)
  BY <1>1, <1>6 DEF ClosesOnce
<1>8. UNCHANGED mConnected /\ pc'[w] \in {"loop", "idle"}
  BY <1>3, <1>7 DEF Left, LoopOn, Base, ThreadTypes
<1>9. ClosesOnce(s)'
  <2>1. \A v \in Worker : ~Closes(v, s)' BY <1>5, <1>7, <1>8 DEF Closes, SameThread
  <2>2. ~MainCloses(s)' BY <1>7 DEF MainCloses, Current
  <2>3. pending'[s]["disconnect"] = 0 BY <1>4, <1>7 DEF Takes
  <2> QED BY <1>7, <1>8, <2>1, <2>2, <2>3 DEF ClosesOnce
<1>10. ~issued'[s] /\ \A u \in Session \ {s} : issued'[u] = issued[u]
  BY <1>1 DEF Base, SessionTypes, DataTypes
<1>11. AddUp(s)'
  <2>1. InKernel(s)' = InKernel(s) + 0 - One(who[w] # s)
    <3>1. InKernel(s)' = InKernel(s) + (-1) BY <1>2, <1>4, KernelTakes
    <3>2. InKernel(s) \in Nat /\ One(who[w] # s) = 1 BY <1>1, KernelNat, OneIdle
    <3> QED BY <3>1, <3>2
  <2>2. -1 = 0 + One(issued'[s]) - One(issued[s])
              + One(HasJob(timers', s)) - One(HasJob(timers, s))
    <3>1. One(issued[s]) = 1 /\ One(issued'[s]) = 0
          /\ One(HasJob(timers', s)) = One(HasJob(timers, s)) /\ One(HasJob(timers, s)) \in Int
      BY <1>1, <1>7, <1>10 DEF One
    <3> QED BY <3>1
  <2>3. \A v \in Worker \ {w} : who'[v] = who[v] BY <1>5 DEF SameThread
  <2> QED BY <1>2, <1>3, <2>1, <2>2, <2>3, LeftAddUp DEF Refs
<1>12. \A u \in Session \ {s} :
           /\ mConnected'[u] = mConnected[u] /\ pending'[u] = pending[u]
           /\ issued'[u] = issued[u] /\ mRefCount'[u] = mRefCount[u]
  BY <1>2, <1>3, <1>4, <1>5, <1>10, LeftCount DEF Takes
<1>13. JobsOf(s, timers[w], timers'[w]) BY <1>1 DEF JobsOf
<1> QED BY <1>1, <1>5, <1>9, <1>11, <1>12, <1>13, RefsFrom DEF RefsAt

(* A step of thread w that does not end its handler: the references come   *)
(* and go one by one.                                                      *)
LEMMA StepAddUp ==
  ASSUME Base, Base', NEW w \in Worker, NEW s \in Session, AddUp(s),
         \A v \in Worker \ {w} : who'[v] = who[v], NEW n \in Int, NEW d \in Int, NEW j \in Int,
         mRefCount'[s] = mRefCount[s] + d, issued'[s] = issued[s],
         InKernel(s)' = InKernel(s) + n,
         One(HasJob(timers', s)) = One(HasJob(timers, s)) + j,
         d = n + j + One(who'[w] = s) - One(who[w] = s)
  PROVE  AddUp(s)'
<1> DEFINE a == One(issued[s])
           f == One(HasJob(timers, s))
           g == One(HasJob(timers', s))
           k == InKernel(s)
           c == Cardinality(Workers(s))
           o == One(who'[w] = s)
           p == One(who[w] = s)
           m == mRefCount[s]
<1>1. m = a + k + c + f BY DEF AddUp
<1>2. Cardinality(Workers(s)') = c + o - p BY WorkersCount
<1>3. a \in Int /\ f \in Int /\ o \in Int /\ p \in Int BY DEF One
<1>4. k \in Int /\ c \in Int /\ m \in Int
  BY KernelNat, WorkersFinite DEF Base, SessionTypes
<1>5. AddUp(s)' <=> mRefCount'[s] = a + InKernel(s)' + Cardinality(Workers(s)') + g
  BY DEF AddUp
<1>6. InKernel(s)' = k + n /\ g = f + j /\ mRefCount'[s] = m + d /\ d = n + j + o - p
  OBVIOUS
<1> HIDE DEF a, f, g, k, c, o, p, m
<1>7. m + d = a + (k + n) + (c + o - p) + (f + j) BY <1>1, <1>3, <1>4, <1>6
<1> QED BY <1>2, <1>5, <1>6, <1>7

(* ConnectDone keeps Refs.                                                 *)
LEMMA ConnectDoneRefs ==
  ASSUME Base, Base', Chain, Refs, NEW w \in Worker, NEW s \in Session, ConnectDone(w, s),
         UNCHANGED main
  PROVE  Refs'
<1>1. /\ pending[s]["connect"] > 0 /\ who[w] = NoOne
      /\ Takes(s, "connect", -1)
      /\ UNCHANGED <<timers, issued, out>>
  BY ConnectDoneEffect
<1>2. -1 \in Int /\ 0 \in Int /\ "connect" \in IO /\ "disconnect" \in IO \ {"connect"} BY DEF IO
<1>3. InKernel(s)' = InKernel(s) + (-1) /\ InKernel(s) \in Nat
  BY <1>1, <1>2, KernelTakes, KernelNat
<1>4. /\ pending'[s]["disconnect"] = pending[s]["disconnect"]
      /\ \A u \in Session \ {s} : pending'[u] = pending[u]
  BY <1>1, <1>2 DEF Takes
<1>5. CASE Left(w, s, "connect", 0, timers[w])
  <2>1. InKernel(s)' = InKernel(s) + 0 - One(who[w] # s)
    <3>1. One(who[w] # s) = 1 BY <1>1, OneIdle
    <3> QED BY <1>3, <3>1
  <2> QED BY <1>1, <1>2, <1>4, <1>5, <2>1, QuietRefs
<1>6. CASE /\ mConnected' = [mConnected EXCEPT ![s] = TRUE]
           /\ pc' = [pc EXCEPT ![w] = "prerecv"]
           /\ who' = [who EXCEPT ![w] = s]
           /\ hand' = [hand EXCEPT ![w] = "connect"]
           /\ UNCHANGED <<mRefCount, lag>>
  <2>1. \A v \in Worker \ {w} : SameThread(v)
    BY <1>1, <1>6 DEF SameThread, Base, ThreadTypes
  <2>2. who'[w] = s /\ pc'[w] = "prerecv" BY <1>6 DEF Base, ThreadTypes
  <2>3. Untouched(s) /\ issued[s] /\ ~MainCloses(s) /\ pending[s]["disconnect"] = 0
    BY <1>1, <1>2 DEF Chain, ChainAt, ConnectsOnce, Untouched
  <2>4. ClosesOnce(s)'
    <3>1. \A v \in Worker : ~Closes(v, s)'
      BY <2>1, <2>2, <2>3 DEF Closes, SameThread, Untouched
    <3>2. ~MainCloses(s)' BY <2>3 DEF MainCloses, Current
    <3> QED BY <1>1, <1>4, <2>3, <3>1, <3>2 DEF ClosesOnce
  <2>5. AddUp(s)'
    <3>1. One(HasJob(timers', s)) = One(HasJob(timers, s)) + 0
      BY <1>1 DEF One
    <3>2. 0 = -1 + 0 + One(who'[w] = s) - One(who[w] = s)
      <4>1. who[w] # s BY <1>1, SessionPair
      <4>2. One(who'[w] = s) = 1 /\ One(who[w] = s) = 0 BY <2>2, <4>1 DEF One
      <4> QED BY <4>2
    <3>3. mRefCount'[s] = mRefCount[s] + 0 BY <1>6 DEF Base, SessionTypes
    <3>4. \A v \in Worker \ {w} : who'[v] = who[v] BY <2>1 DEF SameThread
    <3>5. issued'[s] = issued[s] /\ AddUp(s) BY <1>1 DEF Refs
    <3> QED BY <1>2, <1>3, <3>1, <3>2, <3>3, <3>4, <3>5, StepAddUp
  <2>6. \A u \in Session \ {s} :
           /\ mConnected'[u] = mConnected[u] /\ pending'[u] = pending[u]
           /\ issued'[u] = issued[u] /\ mRefCount'[u] = mRefCount[u]
    BY <1>1, <1>4, <1>6 DEF Base, SessionTypes
  <2>7. JobsOf(s, timers[w], timers'[w]) BY <1>1 DEF JobsOf
  <2> QED BY <1>1, <2>1, <2>2, <2>4, <2>5, <2>6, <2>7, RefsFrom DEF RefsAt
<1> QED BY <1>5, <1>6, ConnectDoneEffect

(* ConnectPreRecv keeps Refs.                                              *)
LEMMA ConnectPreRecvRefs ==
  ASSUME Base, Base', Refs, NEW w \in Worker, ConnectPreRecv(w), UNCHANGED main
  PROVE  Refs'
<1>0. PICK s \in Session : s = who[w]
  BY DEF ConnectPreRecv, Stands, Base
<1>1. pc[w] = "prerecv" /\ UNCHANGED <<timers, issued, out>> BY DEF ConnectPreRecv
<1>2. 0 \in Int /\ 1 \in Int /\ -1 \in Int /\ "zero" \in IO /\ "disconnect" \in IO \ {"zero"}
  BY DEF IO
<1>3. \A v \in Worker \ {w} : SameThread(v)
  BY <1>1 DEF ConnectPreRecv, SameThread, Base, ThreadTypes
<1>4. \/ /\ pending' = [pending EXCEPT ![s]["zero"] = pending[s]["zero"] + 1]
         /\ mRefCount' = [mRefCount EXCEPT ![s] = mRefCount[s] + 1]
         /\ pc'[w] = "login" /\ UNCHANGED <<who, mConnected>>
      \/ /\ UNCHANGED pending
         /\ mRefCount' = [mRefCount EXCEPT ![s] = mRefCount[s] - 1]
         /\ pc'[w] \in {"idle", "loop"} /\ who'[w] = NoOne
         /\ mConnected' = [mConnected EXCEPT ![s] = FALSE]
  BY <1>0 DEF ConnectPreRecv, Base, ThreadTypes, LoopOn
<1>5. /\ mRefCount \in [Session -> Int] /\ mConnected \in [Session -> BOOLEAN]
      /\ mRefCount[s] \in Int
  BY DEF Base, SessionTypes
<1>6. \A v \in Worker \ {w} : who'[v] = who[v] BY <1>3 DEF SameThread
<1>7. /\ \A v \in Worker : Closes(v, s)' <=> v # w /\ Closes(v, s)
      /\ ~Closes(w, s) /\ (MainCloses(s)' <=> MainCloses(s))
  BY <1>1, <1>3, <1>4 DEF Closes, SameThread, MainCloses, Current
<1>8. JobsOf(s, timers[w], timers'[w]) /\ One(HasJob(timers', s)) = One(HasJob(timers, s)) + 0
  BY <1>1 DEF JobsOf, One
<1>9. ClosesOnce(s) /\ AddUp(s) BY DEF Refs
<1>10. CASE /\ pending' = [pending EXCEPT ![s]["zero"] = pending[s]["zero"] + 1]
            /\ mRefCount' = [mRefCount EXCEPT ![s] = mRefCount[s] + 1]
            /\ pc'[w] = "login" /\ UNCHANGED <<who, mConnected>>
  <2>1. Takes(s, "zero", 1)
    <3>1. pending[s]["zero"] + 1 \in Nat /\ pending \in [Session -> [IO -> Nat]]
      BY <1>2, PendingNat
    <3> QED BY <1>2, <1>10, <3>1, PendingEntry DEF Takes
  <2>2. InKernel(s)' = InKernel(s) + 1 BY <1>2, <2>1, KernelTakes
  <2>3. mRefCount'[s] = mRefCount[s] + 1 /\ \A u \in Session \ {s} : mRefCount'[u] = mRefCount[u]
    BY <1>5, <1>10
  <2>4. 1 = 1 + 0 + One(who'[w] = s) - One(who[w] = s) BY <1>10 DEF One
  <2>5. AddUp(s)'
    <3>1. issued'[s] = issued[s] BY <1>1
    <3> QED BY <1>2, <1>6, <1>8, <1>9, <2>2, <2>3, <2>4, <3>1, StepAddUp
  <2>6. ClosesOnce(s)'
    BY <1>1, <1>2, <1>7, <1>9, <1>10, <2>1 DEF ClosesOnce, Takes
  <2>7. \A u \in Session \ {s} :
           /\ mConnected'[u] = mConnected[u] /\ pending'[u] = pending[u]
           /\ issued'[u] = issued[u] /\ mRefCount'[u] = mRefCount[u]
    BY <1>1, <1>10, <2>1, <2>3 DEF Takes
  <2> QED BY <1>0, <1>3, <1>8, <1>10, <2>5, <2>6, <2>7, RefsFrom DEF RefsAt
<1>11. CASE /\ UNCHANGED pending
            /\ mRefCount' = [mRefCount EXCEPT ![s] = mRefCount[s] - 1]
            /\ pc'[w] \in {"idle", "loop"} /\ who'[w] = NoOne
            /\ mConnected' = [mConnected EXCEPT ![s] = FALSE]
  <2>1. InKernel(s)' = InKernel(s) + 0
    <3>1. InKernel(s) \in Nat BY KernelNat
    <3>2. InKernel(s)' = InKernel(s) BY <1>11 DEF InKernel
    <3> QED BY <3>1, <3>2
  <2>2. mRefCount'[s] = mRefCount[s] + (-1) /\ \A u \in Session \ {s} : mRefCount'[u] = mRefCount[u]
    BY <1>5, <1>11
  <2>3. -1 = 0 + 0 + One(who'[w] = s) - One(who[w] = s)
    <3>1. who'[w] # s BY <1>11, SessionPair
    <3> QED BY <1>0, <3>1 DEF One
  <2>4. AddUp(s)'
    <3>1. issued'[s] = issued[s] BY <1>1
    <3> QED BY <1>2, <1>6, <1>8, <1>9, <2>1, <2>2, <2>3, <3>1, StepAddUp
  <2>5. ClosesOnce(s)'
    <3>1. ~mConnected'[s] BY <1>5, <1>11
    <3> QED BY <1>1, <1>7, <1>9, <1>11, <3>1 DEF ClosesOnce
  <2>6. \A u \in Session \ {s} :
           /\ mConnected'[u] = mConnected[u] /\ pending'[u] = pending[u]
           /\ issued'[u] = issued[u] /\ mRefCount'[u] = mRefCount[u]
    BY <1>1, <1>5, <1>11, <2>2
  <2> QED BY <1>0, <1>3, <1>8, <1>11, <2>4, <2>5, <2>6, RefsFrom DEF RefsAt
<1> QED BY <1>4, <1>10, <1>11

(* StartTest keeps Refs.                                                   *)
LEMMA StartTestRefs ==
  ASSUME Base, Base', Refs, NEW w \in Worker, StartTest(w), UNCHANGED main
  PROVE  Refs'
<1>0. PICK s \in Session : s = who[w]
  BY DEF StartTest, Stands, Base
<1>1. pc[w] = "login" /\ UNCHANGED <<timers, issued, pending>> BY DEF StartTest
<1>2. InKernel(s)' = InKernel(s) /\ InKernel(s) \in Nat BY <1>1, KernelNat DEF InKernel
<1>3. CASE UNCHANGED out /\ Leave(w, s, hand[w], FALSE, 0, timers[w])
  <2>1. 0 \in Int OBVIOUS
  <2>2. Left(w, s, hand[w], 0, timers[w]) BY <1>3, <2>1, LeaveLeft DEF Base
  <2>3. InKernel(s)' = InKernel(s) + 0 - One(who[w] # s)
    <3>1. One(who[w] # s) = 0 BY <1>0, OneBusy
    <3> QED BY <1>2, <3>1
  <2> QED BY <1>0, <1>1, <1>3, <2>1, <2>2, <2>3, QuietRefs
<1>4. CASE UNCHANGED <<mConnected, mRefCount, who, hand, lag>> /\ pc' = [pc EXCEPT ![w] = "post"]
  <2>1. pc'[w] = "post" /\ \A v \in Worker \ {w} : pc'[v] = pc[v]
    BY <1>4 DEF Base, ThreadTypes
  <2>2. ASSUME NEW u \in Session PROVE RefsAt(u)'
    <3>1. \A v \in Worker : Closes(v, u)' <=> Closes(v, u)
      BY <1>1, <1>4, <2>1 DEF Closes
    <3>2. ClosesOnce(u)'
      BY <1>1, <1>4, <3>1 DEF Refs, ClosesOnce, MainCloses, Current
    <3>3. AddUp(u)' BY <1>1, <1>4 DEF Refs, AddUp, Workers, InKernel
    <3> QED BY <3>2, <3>3 DEF RefsAt
  <2> QED BY <2>2 DEF Refs, RefsAt
<1> QED BY <1>0, <1>3, <1>4 DEF StartTest

(* PlayTest keeps Refs.                                                    *)
LEMMA PlayTestRefs ==
  ASSUME Base, Base', Refs, NEW w \in Worker, PlayTest(w), UNCHANGED main
  PROVE  Refs'
<1>1. /\ pc[w] = "loop" /\ who[w] = NoOne /\ ~IsEmpty(timers[w]) /\ timers[w] \in Queue
  BY DEF PlayTest, Base, Stands, Due, ThreadTypes
<1>2. timers[w].top \in JobOf BY <1>1 DEF Queue, IsEmpty
<1>3. PICK s \in Session : s = timers[w].top.owner BY <1>2 DEF JobOf
<1>4. /\ mRefCount' = [mRefCount EXCEPT ![s] = mRefCount[s] + 1]
      /\ who' = [who EXCEPT ![w] = s]
      /\ UNCHANGED <<mConnected, hand, timers, lag, issued, pending>>
  BY <1>3 DEF PlayTest, clockVars
<1>5. /\ who'[w] = s /\ pc'[w] \in {"post", "after"}
      /\ \A v \in Worker \ {w} : SameThread(v)
  BY <1>4 DEF PlayTest, SameThread, Base, ThreadTypes
<1>6. mRefCount'[s] = mRefCount[s] + 1 /\ \A u \in Session \ {s} : mRefCount'[u] = mRefCount[u]
  BY <1>4 DEF Base, SessionTypes
<1>7. AddUp(s)'
  <2>1. InKernel(s)' = InKernel(s) + 0
    <3>1. InKernel(s)' = InKernel(s) /\ InKernel(s) \in Nat BY <1>4, KernelNat DEF InKernel
    <3> QED BY <3>1
  <2>2. One(HasJob(timers', s)) = One(HasJob(timers, s)) + 0 BY <1>4 DEF One
  <2>3. 1 = 0 + 0 + One(who'[w] = s) - One(who[w] = s)
    <3>1. who[w] # s BY <1>1, SessionPair
    <3>2. One(who'[w] = s) = 1 /\ One(who[w] = s) = 0 BY <1>5, <3>1 DEF One
    <3> QED BY <3>2
  <2>4. \A v \in Worker \ {w} : who'[v] = who[v] BY <1>5 DEF SameThread
  <2>5. issued'[s] = issued[s] /\ AddUp(s) /\ 0 \in Int /\ 1 \in Int BY <1>4 DEF Refs
  <2> QED BY <1>6, <2>1, <2>2, <2>3, <2>4, <2>5, StepAddUp
<1>8. ClosesOnce(s)'
  <2>1. \A v \in Worker : Closes(v, s)' <=> Closes(v, s)
    BY <1>1, <1>5 DEF Closes, SameThread
  <2> QED BY <1>4, <2>1 DEF ClosesOnce, Refs, MainCloses, Current
<1>9. JobsOf(s, timers[w], timers'[w]) BY <1>4 DEF JobsOf
<1> QED BY <1>1, <1>4, <1>5, <1>6, <1>7, <1>8, <1>9, RefsFrom DEF RefsAt

(* PlayTestDone keeps Refs.                                                *)
LEMMA PlayTestDoneRefs ==
  ASSUME Base, Base', Chain, Refs, NEW w \in Worker, PlayTestDone(w), UNCHANGED main
  PROVE  Refs'
<1>0. PICK s \in Session : s = who[w]
  BY DEF PlayTestDone, Stands, Base
<1> DEFINE again == mPlayTestCount[s] # PLAYER_ACTION_REQUEST
           top == timers[w].top
           e == TimerJob(w, s)
<1>1. /\ pc[w] = "after"
      /\ top \in Elements(timers[w]) /\ top.owner = s
      /\ e \in JobOf /\ e.owner = s
      /\ Elements(timers'[w]) =
           (Elements(timers[w]) \ {top}) \cup (IF again THEN {e} ELSE {})
      /\ \A v \in Worker \ {w} : timers'[v] = timers[v]
  BY <1>0, PlayTestDoneEffect
<1>2. /\ mRefCount' = [mRefCount EXCEPT ![s] = mRefCount[s] + One(again) - 2]
      /\ UNCHANGED <<mConnected, hand, lag, issued, pending, out>>
      /\ \A v \in Worker \ {w} : who'[v] = who[v] /\ pc'[v] = pc[v]
      /\ who'[w] = NoOne /\ pc'[w] \in {"loop", "idle"}
  BY <1>0 DEF PlayTestDone, LoopOn, Base, ThreadTypes
<1> HIDE DEF e, top, again
<1>3. \A v \in Worker \ {w} : SameThread(v) BY <1>1, <1>2 DEF SameThread
<1>4. JobsOf(s, timers[w], timers'[w]) BY <1>1 DEF JobsOf
<1>5. HasJob(timers, s) BY <1>1 DEF HasJob
<1>6. HasJob(timers', s) <=> again
  <2>1. \A v \in Worker : \A f \in Elements(timers[v]) : f.owner = s => v = w /\ f = top
    BY <1>1 DEF Chain, ChainAt, Plays, OneJob
  <2> QED BY <1>1, <2>1 DEF HasJob
<1>7. mRefCount[s] \in Int /\ One(again) \in Int BY DEF Base, SessionTypes, One
<1>8. /\ mRefCount'[s] = mRefCount[s] + (One(again) - 2)
      /\ \A u \in Session \ {s} : mRefCount'[u] = mRefCount[u]
  <2>1. mRefCount \in [Session -> Int] BY DEF Base, SessionTypes
  <2>2. mRefCount[s] + One(again) - 2 = mRefCount[s] + (One(again) - 2) BY <1>7
  <2> QED BY <1>2, <2>1, <2>2
<1>9. AddUp(s)'
  <2>1. InKernel(s)' = InKernel(s) + 0
    <3>1. InKernel(s)' = InKernel(s) /\ InKernel(s) \in Nat BY <1>2, KernelNat DEF InKernel
    <3> QED BY <3>1
  <2>2. One(HasJob(timers', s)) = One(again) /\ One(HasJob(timers, s)) = 1
    BY <1>5, <1>6 DEF One
  <2>3. One(HasJob(timers', s)) = One(HasJob(timers, s)) + (One(again) - 1) BY <1>7, <2>2
  <2>4. One(who'[w] = s) = 0 /\ One(who[w] = s) = 1
    <3>1. who'[w] # s BY <1>2, SessionPair
    <3> QED BY <1>0, <3>1 DEF One
  <2>5. One(again) - 2 = 0 + (One(again) - 1) + One(who'[w] = s) - One(who[w] = s)
    BY <1>7, <2>4
  <2>6. /\ issued'[s] = issued[s] /\ AddUp(s) /\ 0 \in Int /\ One(again) - 1 \in Int
        /\ One(again) - 2 \in Int
    BY <1>2, <1>7 DEF Refs
  <2>7. \A v \in Worker \ {w} : who'[v] = who[v] BY <1>2
  <2> QED BY <1>8, <2>1, <2>3, <2>5, <2>6, <2>7, StepAddUp
<1>10. ClosesOnce(s)'
  <2>1. \A v \in Worker : Closes(v, s)' <=> Closes(v, s)
    BY <1>1, <1>2, <1>3 DEF Closes, SameThread
  <2> QED BY <1>2, <2>1 DEF ClosesOnce, Refs, MainCloses, Current
<1> QED BY <1>0, <1>2, <1>3, <1>4, <1>8, <1>9, <1>10, RefsFrom DEF RefsAt

(* A step that concerns no session keeps Refs.                             *)
LEMMA AllSameRefs ==
  ASSUME Refs, \A u \in Session : SameRefs(u)
  PROVE  Refs'
BY SameRefsKept DEF Refs, RefsAt

(* A thread that waits in vain, or stops, keeps Refs.                      *)
LEMMA WaitingRefs ==
  ASSUME Base, Refs, NEW w \in Worker, StopNow(w) \/ WaitTimeout(w), UNCHANGED main
  PROVE  Refs'
<1>1. /\ who[w] = NoOne /\ \A v \in Worker \ {w} : pc'[v] = pc[v]
      /\ UNCHANGED <<mConnected, mRefCount, who, timers, issued, pending>>
  BY DEF StopNow, WaitTimeout, clockVars, Base, Stands, ThreadTypes
<1>2. \A u \in Session : SameRefs(u)
  BY <1>1, SessionPair DEF SameRefs, MainCloses, Current
<1> QED BY <1>2, AllSameRefs

(* The network and the clock keep Refs.                                    *)
LEMMA WorldRefs ==
  ASSUME Base, Refs, Environment, UNCHANGED main
  PROVE  Refs'
<1>1. UNCHANGED <<mConnected, mRefCount, pc, who, issued, pending>>
  BY DEF Environment, Tick, ServerReads, Cut, handlerVars
<1>2. \A u \in Session : HasJob(timers', u) <=> HasJob(timers, u)
  <2>1. CASE Tick
    <3>1. timers' = [w \in Worker |->
                      IF Running(w) THEN TickPassed(timers[w]) ELSE timers[w]]
      BY <2>1 DEF Tick
    <3>2. \A w \in Worker : GoodQueue(timers[w])
      BY DEF Base, GoodQueue, ThreadTypes, Due
    <3>3. \A w \in Worker :
            \/ Elements(timers'[w]) = Elements(timers[w])
            \/ Elements(timers'[w]) = {Sooner(e) : e \in Elements(timers[w])}
      BY <3>1, <3>2, TickElements
    <3>4. \A w \in Worker : Elements(timers[w]) \subseteq JobOf BY <3>2, ElementsType
    <3>5. \A e \in JobOf : Sooner(e).owner = e.owner BY DEF Sooner, JobOf
    <3> QED BY <3>3, <3>4, <3>5 DEF HasJob
  <2>2. CASE \E s \in Session : ServerReads(s) \/ Cut(s)
    BY <2>2 DEF ServerReads, Cut, clockVars
  <2> QED BY <2>1, <2>2 DEF Environment
<1>3. \A u \in Session : SameRefs(u)
  BY <1>1, <1>2 DEF SameRefs, MainCloses, Current
<1> QED BY <1>3, AllSameRefs

(* A step of the main thread for session s.                                *)
LEMMA MainRefs ==
  ASSUME Base, Base', Refs, NEW s \in Session, UNCHANGED <<pc, who, timers>>, NEW n \in Int,
         NEW d \in Int, NEW a \in IO, Takes(s, a, n) \/ (n = 0 /\ UNCHANGED pending),
         mRefCount' = [mRefCount EXCEPT ![s] = mRefCount[s] + d],
         d = n + One(issued'[s]) - One(issued[s]), ClosesOnce(s)',
         \A u \in Session \ {s} : /\ mConnected'[u] = mConnected[u]
                                  /\ issued'[u] = issued[u]
                                  /\ MainCloses(u)' <=> MainCloses(u)
  PROVE  Refs'
<1>1. mRefCount'[s] = mRefCount[s] + d /\ mRefCount[s] \in Int
      /\ \A u \in Session \ {s} : mRefCount'[u] = mRefCount[u]
  BY DEF Base, SessionTypes
<1>2. \A u \in Session \ {s} : RefsAt(u)'
  <2>1. \A u \in Session \ {s} : SameRefs(u) BY <1>1 DEF SameRefs, Takes
  <2> QED BY <2>1, SameRefsKept DEF Refs, RefsAt
<1>3. AddUp(s)'
  <2> DEFINE x == One(issued[s])
             y == One(issued'[s])
             f == One(HasJob(timers, s))
             k == InKernel(s)
             c == Cardinality(Workers(s))
             m == mRefCount[s]
  <2>1. m = x + k + c + f BY DEF AddUp, Refs
  <2>2. x \in Int /\ y \in Int /\ f \in Int /\ k \in Int /\ c \in Int
    BY KernelNat, WorkersFinite DEF One
  <2>3. InKernel(s)' = k + n
    <3>1. CASE Takes(s, a, n) BY <3>1, KernelTakes
    <3>2. CASE n = 0 /\ UNCHANGED pending
      <4>1. InKernel(s)' = InKernel(s) BY <3>2 DEF InKernel
      <4> QED BY <2>2, <3>2, <4>1
    <3> QED BY <3>1, <3>2
  <2>4. Workers(s)' = Workers(s) BY DEF Workers
  <2>5. AddUp(s)' <=> mRefCount'[s] = y + InKernel(s)' + c + f
    BY <2>4 DEF AddUp
  <2>6. d = n + y - x OBVIOUS
  <2>7. mRefCount'[s] = m + d BY <1>1
  <2> HIDE DEF x, y, f, k, c, m
  <2>8. m + d = y + (k + n) + c + f BY <2>1, <2>2, <2>6
  <2> QED BY <2>3, <2>5, <2>7, <2>8
<1> QED BY <1>2, <1>3 DEF Refs, RefsAt

(* ConnectRequest keeps Refs.                                              *)
LEMMA ConnectRequestRefs ==
  ASSUME Base, Base', Chain, Refs, ConnectRequest
  PROVE  Refs'
<1>0. PICK s \in Session : s = Current
  BY CurrentType DEF ConnectRequest, Base
<1>1. PICK n \in {0, 1} : Takes(s, "connect", n)
                          /\ mRefCount' = [mRefCount EXCEPT ![s] = @ + 1 + n]
  BY <1>0, ConnectRequestEffect
<1>2. /\ issued' = [issued EXCEPT ![s] = TRUE]
      /\ main.pc = "connect" /\ main'.pc = "store"
      /\ UNCHANGED <<mConnected, pc, who, timers>>
  BY <1>0, ConnectRequestEffect DEF clockVars
<1>3. Ahead(s)
  <2>1. s[1] = main.g /\ s[2] = main.i /\ main.i \in Nat
    BY <1>0, ClientsAssumption DEF Current, Base, MainTypes
  <2>2. main.i >= main.i BY <2>1
  <2> QED BY <1>2, <2>1, <2>2 DEF Ahead, Later
<1>4. Untouched(s) /\ ~issued[s] BY <1>3 DEF Chain, ChainAt, ConnectsOnce
<1>5. issued'[s] /\ \A u \in Session \ {s} : issued'[u] = issued[u]
  BY <1>2 DEF Base, SessionTypes, DataTypes
<1>6. n \in Int /\ 1 + n \in Int /\ "connect" \in IO /\ "disconnect" \in IO \ {"connect"}
  BY DEF IO
<1>7. ClosesOnce(s)'
  <2>1. pending'[s]["disconnect"] = 0 BY <1>1, <1>4, <1>6 DEF Takes, Untouched
  <2>2. \A v \in Worker : ~Closes(v, s)' BY <1>2, <1>4 DEF Closes, Untouched
  <2>3. ~MainCloses(s)' BY <1>2 DEF MainCloses
  <2> QED BY <1>5, <2>1, <2>2, <2>3 DEF ClosesOnce
<1>8. 1 + n = n + One(issued'[s]) - One(issued[s])
  <2>1. One(issued'[s]) = 1 /\ One(issued[s]) = 0 BY <1>4, <1>5 DEF One
  <2> QED BY <1>6, <2>1
<1>9. mRefCount' = [mRefCount EXCEPT ![s] = mRefCount[s] + (1 + n)]
  <2>1. mRefCount[s] \in Int BY DEF Base, SessionTypes
  <2>2. mRefCount[s] + 1 + n = mRefCount[s] + (1 + n) BY <1>6, <2>1
  <2> QED BY <1>1, <2>2
<1>10. \A u \in Session \ {s} : /\ mConnected'[u] = mConnected[u]
                                /\ issued'[u] = issued[u]
                                /\ MainCloses(u)' <=> MainCloses(u)
  BY <1>2, <1>5 DEF MainCloses
<1> QED BY <1>1, <1>2, <1>6, <1>7, <1>8, <1>9, <1>10, MainRefs

(* Terminate keeps Refs.                                                   *)
LEMMA TerminateRefs ==
  ASSUME Base, Base', Refs, TerminateGameSessions
  PROVE  Refs'
<1>0. PICK s \in Session : s = Current
  BY CurrentType DEF TerminateGameSessions, Base, MainTypes
<1>1. /\ main.pc \in {"wait", "terminate"}
      /\ UNCHANGED <<mRefCount, pc, who, timers, issued, pending>>
  BY <1>0, TerminateEffect DEF clockVars
<1>2. CASE UNCHANGED mConnected /\ main'.pc \in {"stop", "terminate"}
  <2>1. \A u \in Session : SameRefs(u) BY <1>1, <1>2 DEF SameRefs, MainCloses
  <2> QED BY <2>1, AllSameRefs
<1>3. CASE /\ mConnected[s] /\ mConnected' = [mConnected EXCEPT ![s] = FALSE]
           /\ main'.pc = "close" /\ Current' = s
  <2>1. ~mConnected'[s] /\ \A u \in Session \ {s} : mConnected'[u] = mConnected[u]
    BY <1>3 DEF Base, SessionTypes
  <2>2. ClosesOnce(s)'
    <3>1. \A v \in Worker : Closes(v, s)' <=> Closes(v, s) BY <1>1 DEF Closes
    <3> QED BY <1>1, <1>3, <2>1, <3>1 DEF ClosesOnce, Refs
  <2>3. AddUp(s)' BY <1>1 DEF AddUp, Refs, Workers, InKernel
  <2>4. \A u \in Session \ {s} : SameRefs(u)
    BY <1>1, <1>3, <2>1 DEF SameRefs, MainCloses
  <2> QED BY <2>2, <2>3, <2>4, SameRefsKept DEF Refs, RefsAt
<1> QED BY <1>0, <1>2, <1>3, TerminateEffect

(* Close keeps Refs.                                                       *)
LEMMA CloseRefs ==
  ASSUME Base, Base', Refs, CloseSession
  PROVE  Refs'
<1>0. PICK s \in Session : s = Current
  BY CurrentType DEF CloseSession, Base, MainTypes
<1>1. PICK n \in {0, 1} : Takes(s, "disconnect", n)
                          /\ mRefCount' = [mRefCount EXCEPT ![s] = mRefCount[s] + n]
  BY <1>0, CloseEffect
<1>2. /\ main.pc = "close" /\ main'.pc = "terminate"
      /\ UNCHANGED <<mConnected, pc, who, timers, issued>>
  BY <1>0, CloseEffect DEF clockVars
<1>3. MainCloses(s) /\ ClosesOnce(s) BY <1>0, <1>2 DEF MainCloses, Refs
<1>4. /\ pending[s]["disconnect"] = 0 /\ issued[s] /\ ~mConnected[s]
      /\ \A v \in Worker : ~Closes(v, s)
  BY <1>3 DEF ClosesOnce
<1>5. n \in Int /\ "disconnect" \in IO BY DEF IO
<1>6. ClosesOnce(s)'
  <2>1. pending'[s]["disconnect"] = n BY <1>1, <1>4, <1>5 DEF Takes
  <2>2. \A v \in Worker : ~Closes(v, s)' BY <1>2, <1>4 DEF Closes
  <2>3. ~MainCloses(s)' BY <1>2 DEF MainCloses
  <2> QED BY <1>2, <1>4, <2>1, <2>2, <2>3 DEF ClosesOnce
<1>7. n = n + One(issued'[s]) - One(issued[s])
  <2>1. One(issued'[s]) = One(issued[s]) /\ One(issued[s]) \in Int BY <1>2 DEF One
  <2> QED BY <1>5, <2>1
<1>8. \A u \in Session \ {s} : /\ mConnected'[u] = mConnected[u]
                               /\ issued'[u] = issued[u]
                               /\ MainCloses(u)' <=> MainCloses(u)
  BY <1>0, <1>2 DEF MainCloses
<1> QED BY <1>1, <1>2, <1>5, <1>6, <1>7, <1>8, MainRefs

(* A step of the main thread that concerns no reference.                   *)
LEMMA MainOnlyRefs ==
  ASSUME Refs, UNCHANGED sessionVars \/ StopIoThreads \/ StorePlayerSessionId
         \/ StorePlayerIdx,
         \A u \in Session : MainCloses(u)' <=> MainCloses(u)
  PROVE  Refs'
<1>1. UNCHANGED <<mConnected, mRefCount, pc, who, timers, issued, pending>>
  BY DEF sessionVars, handlerVars, clockVars, StopIoThreads, StorePlayerSessionId,
         StorePlayerIdx
<1>2. \A u \in Session : SameRefs(u) BY <1>1 DEF SameRefs
<1> QED BY <1>2, AllSameRefs

(* Launch keeps Refs.                                                      *)
LEMMA LaunchRefs ==
  ASSUME Base, Base', Chain, Refs, Launch
  PROVE  Refs'
<1>1. CASE \/ PrepareGameSessions \/ CreateGameSession \/ DescribeGameSessions
           \/ StartGameSessionPlacement \/ CheckGameSessionPlacement
           \/ CreatePlayerSessions \/ ConnectEnds
  <2>1. \A u \in Session : MainCloses(u)' <=> MainCloses(u)
    BY <1>1, LaunchAhead DEF Base, SameMain
  <2>2. UNCHANGED sessionVars
    BY <1>1 DEF PrepareGameSessions, CreateGameSession, DescribeGameSessions,
                StartGameSessionPlacement, CheckGameSessionPlacement,
                CreatePlayerSessions, ConnectEnds
  <2> QED BY <2>1, <2>2, MainOnlyRefs
<1>2. CASE StorePlayerSessionId
  <2>1. main.pc = "store" /\ main'.pc = "storeIdx"
    BY <1>2 DEF StorePlayerSessionId, Go, Base, MainTypes
  <2> QED BY <1>2, <2>1, MainOnlyRefs DEF MainCloses
<1>3. CASE StorePlayerIdx
  <2>1. main.pc = "storeIdx" /\ main'.pc = "connect"
    BY <1>3 DEF StorePlayerIdx, Base, MainTypes
  <2> QED BY <1>3, <2>1, MainOnlyRefs DEF MainCloses
<1> QED BY <1>1, <1>2, <1>3, ConnectRequestRefs DEF Launch

(* Shutdown keeps Refs.                                                    *)
LEMMA ShutdownRefs ==
  ASSUME Base, Base', Refs, Shutdown
  PROVE  Refs'
<1>1. CASE StopIoThreads
  <2>1. main.pc = "stop" /\ main'.pc = "join" BY <1>1 DEF StopIoThreads, Go, Base, MainTypes
  <2> QED BY <1>1, <2>1, MainOnlyRefs DEF MainCloses
<1>2. CASE Finalize
  <2>1. main.pc = "join" /\ main'.pc = "done" BY <1>2 DEF Finalize, Go, Base, MainTypes
  <2>2. UNCHANGED sessionVars BY <1>2 DEF Finalize
  <2> QED BY <2>1, <2>2, MainOnlyRefs DEF MainCloses
<1> QED BY <1>1, <1>2, TerminateRefs, CloseRefs DEF Shutdown

(* Every step of an I/O thread keeps Refs.                                 *)
LEMMA ThreadsRefs ==
  ASSUME Base, Base', Chain, Refs, Threads
  PROVE  Refs'
<1>1. PICK w \in Worker : Awaited(w) \/ Run(w) BY DEF Threads
<1>2. UNCHANGED main BY DEF Threads
<1>3. CASE Run(w)
  BY <1>2, <1>3, ConnectPreRecvRefs, StartTestRefs, PostSendRefs, DisconnectExRefs,
     PlayTestRefs, PlayTestDoneRefs DEF Run
<1>4. CASE WaitTimeout(w) \/ StopNow(w) BY <1>2, <1>4, WaitingRefs
<1>5. ASSUME NEW s \in Session, Dequeue(w, s) PROVE Refs'
  BY <1>2, <1>5, ConnectDoneRefs, PreRecvDoneRefs, RecvDoneRefs, SendDoneRefs,
     DisconnectDoneRefs, CompletionErrorRefs DEF Dequeue
<1> QED BY <1>1, <1>3, <1>4, <1>5 DEF Awaited

(* Refs is inductive relative to Base and Chain.                           *)
LEMMA RefsStep == Base /\ Chain /\ Refs /\ [Next]_vars => Refs'
<1> SUFFICES ASSUME Base, Chain, Refs, [Next]_vars PROVE Refs'
  OBVIOUS
<1>0. Base' BY BaseStep
<1>1. CASE Launch BY <1>0, <1>1, LaunchRefs
<1>2. CASE Shutdown BY <1>0, <1>2, ShutdownRefs
<1>3. CASE ServiceDecides \/ UNCHANGED vars
  <2>1. UNCHANGED <<main, sessionVars>> BY <1>3 DEF ServiceDecides, vars
  <2> QED BY <2>1, MainOnlyRefs DEF MainCloses, Current
<1>4. CASE Threads BY <1>0, <1>4, ThreadsRefs
<1>5. CASE World BY <1>5, WorldRefs DEF World
<1> QED BY <1>1, <1>2, <1>3, <1>4, <1>5 DEF Next, Ended

(* Refs holds when the program starts.                                     *)
LEMMA InitRefs == Init => Refs
<1> SUFFICES ASSUME Init, NEW s \in Session PROVE ClosesOnce(s) /\ AddUp(s)
  BY DEF Refs
<1> USE DEF Init, SessionInit
<1>1. s # NoOne BY SessionPair
<1>2. \A io \in IO : pending[s][io] = 0 OBVIOUS
<1>3. InKernel(s) = 0 BY <1>2 DEF IO, InKernel
<1>4. Workers(s) = {} BY <1>1 DEF Workers
<1>5. Cardinality(Workers(s)) = 0 BY <1>4, FS_EmptySet
<1>6. ~HasJob(timers, s) BY DEF HasJob, Elements, EmptyQueue, IsEmpty
<1>7. ClosesOnce(s)
  <2>1. main.pc = "prepare" BY DEF MainAt
  <2>2. pending[s]["disconnect"] = 0 BY <1>2 DEF IO
  <2> QED BY <2>1, <2>2 DEF ClosesOnce, Closes, MainCloses
<1>8. AddUp(s)
  <2>1. One(issued[s]) = 0 /\ One(HasJob(timers, s)) = 0 /\ mRefCount[s] = 0
    BY <1>6 DEF One
  <2> HIDE DEF Init, SessionInit
  <2>2. 0 = 0 + 0 + 0 + 0 OBVIOUS
  <2> QED BY <1>3, <1>5, <2>1, <2>2 DEF AddUp
<1> QED BY <1>7, <1>8

-----------------------------------------------------------------------------
(* Stores is an invariant.                                                 *)

(* The steps of the launch keep it.                                        *)
LEMMA LaunchStores ==
  ASSUME Base, \A u \in Session : Stores(u), Launch, NEW s \in Session
  PROVE  Stores(s)'
<1>1. CASE \/ PrepareGameSessions \/ CreateGameSession \/ DescribeGameSessions
           \/ StartGameSessionPlacement \/ CheckGameSessionPlacement
           \/ CreatePlayerSessions \/ ConnectEnds
  <2>1. GoesPast(s) BY <1>1, LaunchAhead DEF Base
  <2>2. UNCHANGED <<mPlayerSessionId, mPlayerIdx>>
    BY <1>1 DEF PrepareGameSessions, CreateGameSession, DescribeGameSessions,
                StartGameSessionPlacement, CheckGameSessionPlacement,
                CreatePlayerSessions, ConnectEnds, sessionVars, testVars
  <2> QED BY <2>1, <2>2 DEF Stores, GoesPast
<1>2. CASE ConnectRequest
  <2>0. PICK c \in Session : c = Current
    BY <1>2, CurrentType DEF ConnectRequest, Base
  <2>1. /\ main.pc = "connect" /\ main'.pc = "store" /\ main'.g = main.g /\ main'.i = main.i
        /\ UNCHANGED <<mPlayerSessionId, mPlayerIdx>>
    BY <1>2, <2>0, ConnectRequestEffect DEF testVars
  <2>2. Later(s)' => Later(s) BY <1>2, ConnectRequestLater
  <2>3. Current = s => Later(s)
    <3>1. ASSUME Current = s PROVE s[1] = main.g /\ s[2] = main.i /\ main.i \in Nat
      BY <3>1, ClientsAssumption DEF Current, Base, MainTypes
    <3>2. main.i \in Nat => main.i >= main.i OBVIOUS
    <3> QED BY <2>1, <3>1, <3>2 DEF Later
  <2>4. Current' = Current BY <2>1 DEF Current
  <2> QED BY <2>1, <2>2, <2>3, <2>4 DEF Stores
<1>3. CASE StorePlayerSessionId
  <2>0. PICK c \in Session : c = Current
    BY <1>3, CurrentType DEF StorePlayerSessionId, Base, MainTypes
  <2>1. /\ main.pc = "store" /\ main'.pc = "storeIdx"
        /\ main'.g = main.g /\ main'.i = main.i /\ UNCHANGED mPlayerIdx
    BY <1>3 DEF StorePlayerSessionId, Go, Base, MainTypes
  <2>2. mPlayerSessionId'[c] /\ (s # c => mPlayerSessionId'[s] = mPlayerSessionId[s])
    BY <1>3, <2>0 DEF StorePlayerSessionId, Base, SessionTypes, DataTypes
  <2>3. Later(s)' <=> Later(s) BY <2>1 DEF Later
  <2>4. ~Later(c)
    <3>1. c[1] = main.g /\ c[2] = main.i /\ main.i \in Nat /\ main.g \in Nat
      BY <2>0, ClientsAssumption DEF Current, Base, MainTypes
    <3>2. ~(c[1] > main.g) /\ ~(c[2] > main.i) BY <3>1
    <3> QED BY <2>1, <3>2 DEF Later
  <2>5. Current' = c BY <2>0, <2>1 DEF Current
  <2> QED BY <2>0, <2>1, <2>2, <2>3, <2>4, <2>5 DEF Stores
<1>4. CASE StorePlayerIdx
  <2>0. PICK c \in Session : c = Current
    BY <1>4, CurrentType DEF StorePlayerIdx, Base, MainTypes
  <2>1. /\ main.pc = "storeIdx" /\ main'.pc = "connect" /\ UNCHANGED mPlayerSessionId
        /\ mPlayerIdx' = [mPlayerIdx EXCEPT ![c] = TRUE]
        /\ Later(s)' => Later(s)
    BY <1>4, <2>0, StoreIdxEffect
  <2>2. s # c => mPlayerIdx'[s] = mPlayerIdx[s] BY <2>1
  <2>3. mPlayerSessionId[c] BY <2>0, <2>1 DEF Stores
  <2> QED BY <2>1, <2>2, <2>3 DEF Stores
<1> QED BY <1>1, <1>2, <1>3, <1>4 DEF Launch

(* And so does everything else.                                            *)
LEMMA StoresStep ==
  Base /\ (\A s \in Session : Stores(s)) /\ [Next]_vars => \A s \in Session : Stores(s)'
<1> SUFFICES ASSUME Base, \A s \in Session : Stores(s), [Next]_vars, NEW s \in Session
             PROVE  Stores(s)'
  OBVIOUS
<1>1. CASE Launch BY <1>1, LaunchStores
<1>2. CASE Shutdown
  <2>1. UNCHANGED <<mPlayerSessionId, mPlayerIdx>>
    BY <1>2 DEF Shutdown, TerminateGameSessions, CloseSession, StopIoThreads, Finalize,
       sessionVars, testVars
  <2>2. main'.pc \in {"close", "terminate", "stop", "join", "done"}
    BY <1>2 DEF Shutdown, TerminateGameSessions, CloseSession, StopIoThreads, Finalize,
       MainAt, Go, Base, MainTypes
  <2> QED BY <2>1, <2>2 DEF Stores, Later
<1>3. CASE UNCHANGED <<main, mPlayerSessionId, mPlayerIdx>>
  BY <1>3 DEF Stores, Later, Current
<1>4. CASE ServiceDecides \/ UNCHANGED vars
  BY <1>3, <1>4 DEF ServiceDecides, vars, sessionVars, testVars
<1>5. CASE Threads \/ World
  BY <1>3, <1>5, ThreadsKeepIds DEF Threads, World
<1> QED BY <1>1, <1>2, <1>4, <1>5 DEF Next, Ended

(* Nothing is stored when the program starts.                              *)
LEMMA InitStores == Init => \A s \in Session : Stores(s)
BY DEF Init, SessionInit, MainAt, Stores

IInv == Base /\ Chain /\ Refs /\ \A s \in Session : Stores(s)

(* The inductive invariant of the dummy clients: the layers described      *)
(* above hold in every state of every behaviour.                           *)
THEOREM Invariance == Spec => []IInv
<1>1. Init => IInv BY InitBase, InitChain, InitRefs, InitStores DEF IInv
<1>2. IInv /\ [Next]_vars => IInv' BY BaseStep, ChainStep, RefsStep, StoresStep DEF IInv
<1> QED BY <1>1, <1>2, PTL DEF Spec

-----------------------------------------------------------------------------
(* What it says of the program.                                            *)

(* The timer job of a session is counted once.                             *)
LEMMA ArmedCard ==
  ASSUME NEW s \in Session, OneJob(timers, s)
  PROVE  Cardinality(Armed(s)) = One(HasJob(timers, s))
<1>1. CASE HasJob(timers, s)
  <2>0. PICK w \in Worker : \E e \in Elements(timers[w]) : e.owner = s BY <1>1 DEF HasJob
  <2>1. PICK e \in Elements(timers[w]) : e.owner = s BY <2>0
  <2>2. Armed(s) = {<<w, e>>}
    <3>1. <<w, e>> \in Armed(s) BY <2>1 DEF Armed
    <3>2. ASSUME NEW x \in Armed(s) PROVE x = <<w, e>>
      <4>1. PICK v \in Worker : x \in {<<v, f>> : f \in {f \in Elements(timers[v]) : f.owner = s}}
        BY <3>2 DEF Armed
      <4>2. PICK f \in Elements(timers[v]) : f.owner = s /\ x = <<v, f>> BY <4>1
      <4>3. v = w /\ f = e BY <2>1, <4>2 DEF OneJob
      <4> QED BY <4>2, <4>3
    <3> QED BY <3>1, <3>2
  <2>3. Cardinality({<<w, e>>}) = 1 BY FS_Singleton
  <2> QED BY <1>1, <2>2, <2>3 DEF One
<1>2. CASE ~HasJob(timers, s)
  <2>1. Armed(s) = {} BY <1>2 DEF HasJob, Armed
  <2> QED BY <1>2, <2>1, FS_EmptySet DEF One
<1> QED BY <1>1, <1>2

(* AddRef and ReleaseRef balance: the reference count of every session is  *)
(* what its outstanding I/O, the threads at work for it, its timer job and *)
(* ConnectPlayerSessions hold.                                             *)
THEOREM RefsAccountedAlways == Spec => []RefsAccounted
<1>1. ASSUME IInv PROVE RefsAccounted
  <2>1. SUFFICES ASSUME NEW s \in Session
        PROVE  mRefCount[s] =
                 One(issued[s])
                 + pending[s]["connect"] + pending[s]["zero"] + pending[s]["recv"]
                 + pending[s]["send"] + pending[s]["disconnect"]
                 + Cardinality({w \in Worker : who[w] = s})
                 + Cardinality(Armed(s))
    BY DEF RefsAccounted
  <2>2. Base /\ Plays(s) /\ AddUp(s) BY <1>1 DEF IInv, Chain, ChainAt, Refs
  <2>3. Cardinality(Armed(s)) = One(HasJob(timers, s)) BY <2>2, ArmedCard DEF Plays
  <2>4. \A io \in IO : pending[s][io] \in Nat
    BY <2>2 DEF Base, SessionTypes, DataTypes
  <2>5. One(issued[s]) \in Int /\ One(HasJob(timers, s)) \in Int BY DEF One
  <2>6. Cardinality(Workers(s)) \in Int BY WorkersFinite
  <2>7. \A x, a, b, c, d, e, k, t \in Int :
          x + (a + b + c + d + e) + k + t = x + a + b + c + d + e + k + t
    OBVIOUS
  <2>8. /\ pending[s]["connect"] \in Int /\ pending[s]["zero"] \in Int
        /\ pending[s]["recv"] \in Int /\ pending[s]["send"] \in Int
        /\ pending[s]["disconnect"] \in Int
    BY <2>4 DEF IO
  <2>9. Workers(s) = {w \in Worker : who[w] = s} BY DEF Workers
  <2> QED BY <2>2, <2>3, <2>5, <2>6, <2>7, <2>8, <2>9 DEF AddUp, InKernel
<1> QED BY <1>1, Invariance, PTL

(* The asserts of SendCompletion, ConnectRequest and ConnectCompletion     *)
(* hold whenever they may run.                                             *)
THEOREM AssertsAlwaysHold == Spec => []AssertsHold
<1>1. ASSUME IInv PROVE AssertsHold
  <2>1. ASSUME NEW s \in Session
        PROVE  /\ pending[s]["send"] > 0 => mSendRequestedCount[s] > 0
               /\ pending[s]["connect"] > 0 => ~mConnected[s]
    <3>1. SendOK(s) /\ ConnectsOnce(s) BY <1>1 DEF IInv, Base, Chain, ChainAt
    <3>2. pending[s]["send"] \in Nat /\ mSendRequestedCount[s] \in Int
      BY <1>1 DEF IInv, Base, SessionTypes, DataTypes, IO
    <3>3. pending[s]["send"] > 0 => mSendRequestedCount[s] > 0
      BY <3>1, <3>2 DEF SendOK
    <3> QED BY <3>1, <3>3 DEF ConnectsOnce, Untouched
  <2>2. ASSUME main.pc = "connect", main.i <= PerGame
        PROVE  ~mConnected[Current]
    <3>1. MainTypes BY <1>1 DEF IInv, Base
    <3>2. PICK s \in Session : s = Current BY <2>2, <3>1, CurrentType
    <3>3. s[1] = main.g /\ s[2] = main.i /\ main.i \in Nat
      BY <3>1, <3>2, ClientsAssumption DEF Current, MainTypes
    <3>4. main.i >= main.i BY <3>3
    <3>5. Ahead(s) BY <2>2, <3>3, <3>4 DEF Ahead, Later
    <3> QED BY <1>1, <3>2, <3>5 DEF IInv, Chain, ChainAt, ConnectsOnce, Untouched
  <2> QED BY <2>1, <2>2 DEF AssertsHold
<1> QED BY <1>1, Invariance, PTL

(* A session never has two timer jobs, on whatever threads, and its test   *)
(* never counts past PLAYER_ACTION_REQUEST.                                *)
THEOREM OneChainAlways == Spec => []OneChain
<1>1. ASSUME IInv PROVE OneChain
  <2>1. SUFFICES ASSUME NEW s \in Session
        PROVE  /\ Cardinality(Armed(s)) <= 1
               /\ mPlayTestCount[s] <= PLAYER_ACTION_REQUEST
    BY DEF OneChain
  <2>2. Plays(s) BY <1>1 DEF IInv, Chain, ChainAt
  <2>3. Cardinality(Armed(s)) \in {0, 1} BY <2>2, ArmedCard DEF Plays, One
  <2>4. Cardinality(Armed(s)) <= 1 BY <2>3
  <2> QED BY <2>2, <2>4 DEF Plays
<1> QED BY <1>1, Invariance, PTL

(* Only the steps of the threads move a thread.                            *)
LEMMA OnlyThreadsMove ==
  ASSUME [Next]_vars, pc' # pc
  PROVE  Threads
<1>1. CASE Launch
  BY <1>1 DEF Launch, PrepareGameSessions, CreateGameSession, DescribeGameSessions,
     StartGameSessionPlacement, CheckGameSessionPlacement, CreatePlayerSessions,
     ConnectRequest, StorePlayerSessionId, StorePlayerIdx, ConnectEnds, sessionVars, handlerVars
<1>2. CASE Shutdown
  BY <1>2 DEF Shutdown, TerminateGameSessions, CloseSession, StopIoThreads, Finalize,
     sessionVars, handlerVars
<1>3. CASE ServiceDecides \/ UNCHANGED vars
  BY <1>3 DEF ServiceDecides, vars, sessionVars, handlerVars
<1>4. CASE World
  BY <1>4 DEF World, Environment, Tick, ServerReads, Cut, handlerVars
<1> QED BY <1>1, <1>2, <1>3, <1>4 DEF Next, Ended

(* While a thread is between PlayTest and the pop, no other step moves it. *)
LEMMA OnlyPops ==
  ASSUME Base, [Next]_vars, NEW w \in Worker, pc[w] = "after", pc'[w] # "after"
  PROVE  PlayTestDone(w)
<1>0. pc \in [Worker -> Labels] BY DEF Base, ThreadTypes
<1>1. pc' # pc OBVIOUS
<1>2. Threads BY <1>1, OnlyThreadsMove
<1>3. PICK v \in Worker : Awaited(v) \/ Run(v) BY <1>2 DEF Threads
<1>4. pc[v] # "after" => \E x : pc' = [pc EXCEPT ![v] = x]
  <2>1. ASSUME Awaited(v) PROVE \E x : pc' = [pc EXCEPT ![v] = x]
    <3>1. CASE WaitTimeout(v) \/ StopNow(v) BY <3>1 DEF WaitTimeout, StopNow
    <3>2. ASSUME NEW s \in Session, Dequeue(v, s) PROVE \E x : pc' = [pc EXCEPT ![v] = x]
      <4>1. CASE ConnectDone(v, s) BY <4>1 DEF ConnectDone, Leave
      <4>2. CASE PreRecvDone(v, s) BY <4>2 DEF PreRecvDone, Leave
      <4>3. CASE RecvDone(v, s) BY <4>3 DEF RecvDone, Leave
      <4>4. CASE SendDone(v, s) BY <4>4 DEF SendDone, Leave
      <4>5. CASE DisconnectDone(v, s) BY <4>5 DEF DisconnectDone, Leave
      <4>6. CASE CompletionError(v, s, "recv") \/ CompletionError(v, s, "send")
        BY <4>6 DEF CompletionError, Leave
      <4> QED BY <3>2, <4>1, <4>2, <4>3, <4>4, <4>5, <4>6 DEF Dequeue
    <3> QED BY <2>1, <3>1, <3>2 DEF Awaited
  <2>2. ASSUME pc[v] # "after", Run(v) PROVE \E x : pc' = [pc EXCEPT ![v] = x]
    BY <2>2 DEF Run, ConnectPreRecv, StartTest, PostSend, DisconnectEx, PlayTest, PlayTestDone,
       Leave
  <2> QED BY <1>3, <2>1, <2>2
<1>5. CASE pc[v] = "after"
  <2>1. PlayTestDone(v)
    BY <1>3, <1>5 DEF Awaited, WaitTimeout, StopNow, Dequeue, ConnectDone, PreRecvDone,
       RecvDone, SendDone, DisconnectDone, CompletionError, Dequeued, Run, ConnectPreRecv,
       StartTest, PostSend, DisconnectEx, PlayTest
  <2>2. \A u \in Worker \ {v} : pc'[u] = pc[u] BY <1>0, <2>1 DEF PlayTestDone
  <2> QED BY <2>1, <2>2
<1>6. CASE pc[v] # "after"
  <2>1. \A u \in Worker \ {v} : pc'[u] = pc[u] BY <1>0, <1>4, <1>6
  <2> QED BY <1>6, <2>1
<1> QED BY <1>5, <1>6

(* A thread starts to post a packet in StartTest or in PlayTest only.      *)
LEMMA OnlyMakes ==
  ASSUME Base, [Next]_vars, NEW w \in Worker, pc[w] # "post", pc'[w] = "post"
  PROVE  (StartTest(w) \/ PlayTest(w)) /\ UNCHANGED main
<1>0. pc \in [Worker -> Labels] BY DEF Base, ThreadTypes
<1>1. pc' # pc OBVIOUS
<1>2. Threads BY <1>1, OnlyThreadsMove
<1>3. PICK v \in Worker : Awaited(v) \/ Run(v) BY <1>2 DEF Threads
<1>4. CASE StartTest(v) \/ PlayTest(v)
  <2>1. \A u \in Worker \ {v} : pc'[u] = pc[u]
    BY <1>0, <1>4 DEF StartTest, PlayTest, Leave
  <2> QED BY <1>2, <1>4, <2>1 DEF Threads
<1>5. ASSUME NEW x \in Labels \ {"post"}, pc' = [pc EXCEPT ![v] = x] PROVE FALSE
  BY <1>0, <1>5
<1>6. ASSUME NEW s, NEW io, NEW lost, NEW d, NEW q, Leave(v, s, io, lost, d, q) PROVE FALSE
  <2>1. \E x \in {"disc", "after", "loop", "idle"} : pc' = [pc EXCEPT ![v] = x]
    BY <1>6 DEF Leave, LoopOn
  <2> QED BY <1>5, <2>1 DEF Labels
<1>7. CASE Awaited(v)
  <2>1. CASE WaitTimeout(v) \/ StopNow(v)
    BY <1>5, <2>1 DEF WaitTimeout, StopNow, LoopOn, Labels
  <2>2. ASSUME NEW s \in Session, Dequeue(v, s) PROVE FALSE
    <3>1. CASE ConnectDone(v, s)
      BY <1>5, <1>6, <3>1 DEF ConnectDone, Labels
    <3>2. CASE PreRecvDone(v, s) BY <1>6, <3>2 DEF PreRecvDone
    <3>3. CASE RecvDone(v, s) BY <1>6, <3>3 DEF RecvDone
    <3>4. CASE SendDone(v, s) BY <1>6, <3>4 DEF SendDone
    <3>5. CASE DisconnectDone(v, s) BY <1>6, <3>5 DEF DisconnectDone
    <3>6. CASE CompletionError(v, s, "recv") \/ CompletionError(v, s, "send")
      BY <1>6, <3>6 DEF CompletionError
    <3> QED BY <2>2, <3>1, <3>2, <3>3, <3>4, <3>5, <3>6 DEF Dequeue
  <2> QED BY <1>7, <2>1, <2>2 DEF Awaited
<1>8. CASE ConnectPreRecv(v) \/ PostSend(v) \/ DisconnectEx(v) \/ PlayTestDone(v)
  <2>1. CASE ConnectPreRecv(v) BY <1>5, <2>1 DEF ConnectPreRecv, LoopOn, Labels
  <2>2. CASE PostSend(v) BY <1>6, <2>2 DEF PostSend
  <2>3. CASE DisconnectEx(v) BY <1>6, <2>3 DEF DisconnectEx
  <2>4. CASE PlayTestDone(v) BY <1>5, <2>4 DEF PlayTestDone, LoopOn, Labels
  <2> QED BY <1>8, <2>1, <2>2, <2>3, <2>4
<1> QED BY <1>3, <1>4, <1>7, <1>8 DEF Run

(* A session that is being connected or played, and lacks its id or its    *)
(* index, is the one whose the main thread is storing.                     *)
LEMMA StillStoring ==
  ASSUME Base, NEW s \in Session, ChainAt(s), Stores(s), ~Untouched(s)
  PROVE  /\ ~mPlayerSessionId[s] => main.pc = "store" /\ Current = s
         /\ mPlayerSessionId[s] /\ ~mPlayerIdx[s] => main.pc = "storeIdx" /\ Current = s
<1>1. ~Ahead(s) BY Engaged DEF ChainAt
<1>2. mPlayerIdx[s] \/ (main.pc \in {"store", "storeIdx"} /\ Current = s)
  BY <1>1 DEF Ahead, Current
<1> QED BY <1>2 DEF Stores

(* A login without the session's id, and a move without its index, are     *)
(* made only while the main thread, in ConnectRequest for that session,    *)
(* still stands before the store; a chat and an exit always have the id.   *)
THEOREM NamelessOnlyInLaunchAlways == Spec => NamelessOnlyInLaunch
<1>1. ASSUME IInv, [Next]_vars, NEW w \in Worker, pc[w] # "post", pc'[w] = "post",
             ~out'[w].id
      PROVE  /\ Current = who'[w]
             /\ \/ main.pc = "store" /\ out'[w].type = "login"
                \/ main.pc = "storeIdx" /\ out'[w].type = "move"
  <2>0. Base /\ Chain /\ \A s \in Session : Stores(s) BY <1>1 DEF IInv
  <2>1. StartTest(w) \/ PlayTest(w) BY <1>1, <2>0, OnlyMakes
  <2>2. CASE StartTest(w)
    <3>1. PICK s \in Session : s = who[w] BY <2>0, <2>2 DEF StartTest, Base, Stands
    <3>2. /\ out' = [out EXCEPT ![w] = [type |-> "login", id |-> mPlayerSessionId[s]]]
          /\ UNCHANGED who
      <4>1. pc[w] = "login" /\ pc'[w] # "disc" BY <1>1, <2>2 DEF StartTest
      <4>2. ~Leave(w, s, hand[w], FALSE, 0, timers[w])
        BY <1>1, <2>0 DEF Leave, LoopOn, Base, ThreadTypes
      <4> QED BY <2>2, <3>1, <4>2 DEF StartTest
    <3>3. out'[w].type = "login" /\ ~mPlayerSessionId[s] /\ who'[w] = s
      BY <1>1, <2>0, <3>1, <3>2 DEF Base, ThreadTypes
    <3>4. ~Untouched(s) BY <3>1 DEF Untouched
    <3> QED BY <2>0, <3>3, <3>4, StillStoring DEF Chain
  <2>3. CASE PlayTest(w)
    <3>1. pc[w] = "loop" /\ ~IsEmpty(timers[w]) /\ timers[w] \in Queue
      BY <2>0, <2>3 DEF PlayTest, Base, Due, ThreadTypes
    <3>2. timers[w].top \in JobOf /\ timers[w].top \in Elements(timers[w])
      BY <3>1 DEF Queue, IsEmpty, Elements
    <3>3. PICK s \in Session : s = timers[w].top.owner BY <3>2 DEF JobOf
    <3>4. HasJob(timers, s) BY <3>2, <3>3 DEF HasJob
    <3>5. mPlayerSessionId[s] /\ ~Untouched(s)
      BY <2>0, <3>4 DEF Chain, ChainAt, KnowsItself, Untouched, Silent, Started
    <3>6. PICK ty \in {"chat", "move", "exit"}, x \in BOOLEAN :
            /\ out' = [out EXCEPT ![w] = [type |-> ty, id |-> x]]
            /\ x = IF ty = "move" THEN mPlayerIdx[s] ELSE mPlayerSessionId[s]
      <4>1. pc' # [pc EXCEPT ![w] = "after"] BY <1>1, <2>0 DEF Base, ThreadTypes
      <4> QED BY <2>0, <2>3, <3>3, <4>1, PlayTestMakes
    <3>7. out'[w].type = ty /\ out'[w].id = x BY <2>0, <3>6 DEF Base, ThreadTypes
    <3>8. ty = "move" /\ ~mPlayerIdx[s] BY <1>1, <3>5, <3>6, <3>7
    <3>9. who'[w] = s BY <2>0, <2>3, <3>3 DEF PlayTest, Base, ThreadTypes
    <3> QED BY <2>0, <3>5, <3>7, <3>8, <3>9, StillStoring DEF Chain
  <2> QED BY <2>1, <2>2, <2>3
<1>2. IInv /\ [Next]_vars =>
        [\A w \in Worker :
           pc[w] # "post" /\ pc'[w] = "post" /\ ~out'[w].id
             => /\ Current = who'[w]
                /\ \/ main.pc = "store" /\ out'[w].type = "login"
                   \/ main.pc = "storeIdx" /\ out'[w].type = "move"]_vars
  BY <1>1
<1> QED BY <1>2, Invariance, PTL DEF Spec, NamelessOnlyInLaunch

(* What DoTimerJob pops is the job it ran, although PlayTest has pushed    *)
(* its successor in between.                                               *)
THEOREM PopsWhatRanAlways == Spec => PopsWhatRan
<1>1. ASSUME IInv, [Next]_vars, NEW w \in Worker, pc[w] = "after", pc'[w] # "after"
      PROVE  timers[w].top \notin Elements(timers'[w])
  <2>1. PlayTestDone(w) /\ Base /\ Chain BY <1>1, OnlyPops DEF IInv
  <2>2. PICK s \in Session : s = who[w] BY <2>1 DEF PlayTestDone, Stands, Base
  <2> DEFINE top == timers[w].top
             e == TimerJob(w, s)
  <2>3. /\ top.owner = s
        /\ Elements(timers'[w]) =
             (Elements(timers[w]) \ {top})
             \cup (IF mPlayTestCount[s] # PLAYER_ACTION_REQUEST THEN {e} ELSE {})
    BY <2>1, <2>2, PlayTestDoneEffect
  <2>4. top.due <= -lag[w] /\ top.due \in Int /\ lag[w] \in Int
    BY <2>1, <1>1 DEF Base, Due, Stands, Testing, ThreadTypes, Queue, JobOf, IsEmpty
  <2>5. e.due = PLAYER_ACTION_INTERVAL - lag[w] BY DEF TimerJob
  <2>6. e # top BY <2>4, <2>5, ClientsAssumption
  <2> QED BY <2>3, <2>6
<1>2. IInv /\ [Next]_vars =>
        [\A w \in Worker :
           pc[w] = "after" /\ pc'[w] # "after"
             => timers[w].top \notin Elements(timers'[w])]_vars
  BY <1>1
<1> QED BY <1>2, Invariance, PTL DEF Spec, PopsWhatRan
=============================================================================
