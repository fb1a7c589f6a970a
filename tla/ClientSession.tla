--------------------------- MODULE ClientSession ---------------------------
(***************************************************************************)
(* A dummy client's connection (Session.cpp, PlayerSession.cpp) and the    *)
(* I/O threads that serve all of them (WorkerThread.cpp).  A connection is *)
(* driven by completions: every asynchronous operation is an I/O context   *)
(* that holds a reference on the session, is handed to the kernel and      *)
(* comes back, in any order and on any I/O thread, through the completion  *)
(* port.  After each completion a thread runs its own timer, whose jobs    *)
(* play the test: a request every PLAYER_ACTION_INTERVAL, an exit request  *)
(* in the end.                                                             *)
(*                                                                         *)
(* A step of a thread does its local work and one access to what threads   *)
(* share: the IsConnected test and the locked part of PostSend, and the    *)
(* two halves of DisconnectRequest, are separate steps.  Bytes are packets;*)
(* the buffers' bytes are CircularBuffer's and Session's subject.          *)
(***************************************************************************)
EXTENDS Timer, Sequences, FiniteSets, SequencesExt

CONSTANTS
  Session,                 \* the player sessions
  Worker,                  \* the I/O threads
  NoOne,                   \* no session
  PLAYER_ACTION_REQUEST,   \* PlayTests of a session, the last one exits
  PLAYER_ACTION_INTERVAL,  \* ticks between them
  SendCap,                 \* packets that fit in a send buffer
  MaxLag                   \* bound: ticks a thread may take between timers

VARIABLES
  mConnected, mRefCount, mSendBuffer, mSendRequestedCount, mPlayTestCount,
  mPlayerSessionId,  \* whether it is stored, as a whole
  mPlayerIdx,        \* whether it is stored
  issued,    \* the reference of ConnectPlayerSessions is still held
  pending,   \* contexts in the kernel, per kind of operation
  inflight,  \* packets of the pending send: its mWsaBuf.len
  link,      \* the TCP connection: "none", "up" or "down"
  wire,      \* packets the game server may still read
  inbox,     \* packets from the game server not yet received
  pc,        \* where an I/O thread stands
  who,       \* the session it works for
  hand,      \* the context it handles, "none" inside a timer job
  out,       \* the packet it is about to post
  timers,    \* its LTimer
  lag,       \* ticks since it last set LTickCount
  stops      \* CK_STOP_NOW packets in the port

bufferVars == <<mSendBuffer, mSendRequestedCount, inflight>>
sendVars == <<bufferVars, wire>>
netVars == <<link, inbox>>
testVars == <<mPlayerSessionId, mPlayerIdx, mPlayTestCount>>
clockVars == <<timers, lag>>
handlerVars == <<mConnected, mRefCount, pc, who, hand>>
sessionVars == <<handlerVars, sendVars, netVars, testVars, clockVars,
                 issued, pending, out, stops>>

IO == {"connect", "zero", "recv", "send", "disconnect"}
NoPacket == [type |-> "none", id |-> FALSE]

SessionInit ==
  /\ mConnected = [s \in Session |-> FALSE]
  /\ mRefCount = [s \in Session |-> 0]
  /\ mPlayerSessionId = [s \in Session |-> FALSE]
  /\ mPlayerIdx = [s \in Session |-> FALSE]
  /\ mSendBuffer = [s \in Session |-> <<>>]
  /\ mSendRequestedCount = [s \in Session |-> 0]
  /\ mPlayTestCount = [s \in Session |-> 0]
  /\ issued = [s \in Session |-> FALSE]
  /\ pending = [s \in Session |-> [io \in IO |-> 0]]
  /\ inflight = [s \in Session |-> 0]
  /\ link = [s \in Session |-> "none"]
  /\ wire = [s \in Session |-> <<>>]
  /\ inbox = [s \in Session |-> <<>>]
  /\ pc = [w \in Worker |-> "idle"]
  /\ who = [w \in Worker |-> NoOne]
  /\ hand = [w \in Worker |-> "none"]
  /\ out = [w \in Worker |-> NoPacket]
  /\ timers = [w \in Worker |-> EmptyQueue]
  /\ lag = [w \in Worker |-> 0]
  /\ stops = 0

One(b) == IF b THEN 1 ELSE 0

-----------------------------------------------------------------------------
(* DoTimerJob, which a thread calls after every completion or timeout,     *)
(* sets LTickCount and loops until the top of the queue is due later.      *)

LoopOn(q, tick) == IF ~IsEmpty(q) /\ q.top.due <= tick THEN "loop" ELSE "idle"

-----------------------------------------------------------------------------
(* The connection's operations.                                            *)

(* An operation on a socket starts, or fails at once on a broken one.      *)
Starts(s, ok) == IF ok THEN link[s] # "none" ELSE link[s] = "down"

(* The connection is gone, and what the game server has not read with it.  *)
Break(s) ==
  /\ link' = [link EXCEPT ![s] = "down"]
  /\ wire' = [wire EXCEPT ![s] = <<>>]

(* How a handler, or PlayTest, ends.  io is the context it was given,      *)
(* "none" in PlayTest; d is what it added to mRefCount and q the thread's  *)
(* timer queue by now.  When the connection is lost, DisconnectRequest's   *)
(* exchange decides who closes it: the thread that finds mConnected set    *)
(* goes on to "disc".  Otherwise a handler ends with DeleteIoContext and   *)
(* the thread gets to its timer.                                           *)
Leave(w, s, io, lost, d, q) ==
  LET closing == lost /\ mConnected[s]
      inTest == io = "none"
      handled == ~closing /\ ~inTest
  IN
  /\ mConnected' = [mConnected EXCEPT ![s] = @ /\ ~lost]
  /\ pc' = [pc EXCEPT ![w] = CASE closing -> "disc"
                               [] ~closing /\ inTest -> "after"
                               [] handled -> LoopOn(q, 0)]
  /\ who' = [who EXCEPT ![w] = IF handled THEN NoOne ELSE s]
  /\ hand' = [hand EXCEPT ![w] = IF closing THEN io ELSE "none"]
  /\ mRefCount' = [mRefCount EXCEPT ![s] = @ + d - One(handled)]
  /\ lag' = [lag EXCEPT ![w] = IF handled THEN 0 ELSE @]

(* Mutant: the context of a DisconnectEx that fails is not deleted.        *)
DisconnectExKeeps(w) ==
  LET s == who[w] IN
  /\ pc[w] = "disc"
  /\ \E ok \in BOOLEAN :
       /\ Starts(s, ok)
       /\ pending' = [pending EXCEPT ![s]["disconnect"] = @ + One(ok)]
       /\ Break(s)
       /\ Leave(w, s, hand[w], FALSE, 1, timers[w])
  /\ UNCHANGED <<bufferVars, inbox, testVars, timers, issued, out, stops>>

(* The second half of DisconnectRequest: the context and DisconnectEx.     *)
DisconnectEx(w) ==
  LET s == who[w] IN
  /\ pc[w] = "disc"
  /\ \E ok \in BOOLEAN :
       /\ Starts(s, ok)
       /\ pending' = [pending EXCEPT ![s]["disconnect"] = @ + One(ok)]
       /\ Break(s)
       /\ Leave(w, s, hand[w], FALSE, One(ok), timers[w])
  /\ UNCHANGED <<bufferVars, inbox, testVars, timers, issued, out, stops>>

(* Mutant: mSendRequestedCount is not incremented.                         *)
FlushSendUncounted(s, buf, ok, before) ==
  /\ Starts(s, ok)
  /\ mSendBuffer' = [mSendBuffer EXCEPT ![s] = buf]
  /\ mSendRequestedCount' =
       [mSendRequestedCount EXCEPT ![s] = before.count]
  /\ pending' = [pending EXCEPT ![s]["send"] = before.kernel + One(ok)]
  /\ inflight' = [inflight EXCEPT ![s] = IF ok THEN Len(buf) ELSE 0]
  /\ wire' = [wire EXCEPT ![s] = IF ok /\ link[s] = "up"
                                 THEN before.wire \o buf
                                 ELSE before.wire]

(* FlushSend of the packets in buf: before holds the request count, the    *)
(* send contexts and the packets on the wire that it starts from.          *)
FlushSend(s, buf, ok, before) ==
  /\ Starts(s, ok)
  /\ mSendBuffer' = [mSendBuffer EXCEPT ![s] = buf]
  /\ mSendRequestedCount' =
       [mSendRequestedCount EXCEPT ![s] = before.count + One(ok)]
  /\ pending' = [pending EXCEPT ![s]["send"] = before.kernel + One(ok)]
  /\ inflight' = [inflight EXCEPT ![s] = IF ok THEN Len(buf) ELSE 0]
  /\ wire' = [wire EXCEPT ![s] = IF ok /\ link[s] = "up"
                                 THEN before.wire \o buf
                                 ELSE before.wire]

(* A packet in a buffer or on its way.  Chats and moves are all the same   *)
(* there: the game server broadcasts them, whatever they are identified by.*)
AsSent(p) == IF p.type \in {"chat", "move"} THEN [type |-> "play", id |-> TRUE] ELSE p

(* PostSend behind its IsConnected test: the part under mSendBufferLock.   *)
PostSend(w) ==
  LET s == who[w]
      buf == Append(mSendBuffer[s], AsSent(out[w]))
  IN
  /\ pc[w] = "post"
  /\ \/ /\ Len(buf) > SendCap
        /\ UNCHANGED <<sendVars, pending>>
        /\ Leave(w, s, hand[w], FALSE, 0, timers[w])
     \/ /\ Len(buf) <= SendCap
        /\ mSendRequestedCount[s] > 0
        /\ mSendBuffer' = [mSendBuffer EXCEPT ![s] = buf]
        /\ UNCHANGED <<mSendRequestedCount, inflight, wire, pending>>
        /\ Leave(w, s, hand[w], FALSE, 0, timers[w])
     \/ /\ Len(buf) <= SendCap
        /\ mSendRequestedCount[s] = 0
        /\ \E ok \in BOOLEAN :
             /\ FlushSend(s, buf, ok, [count |-> 0, wire |-> wire[s],
                                       kernel |-> pending[s]["send"]])
             /\ Leave(w, s, hand[w], ~ok, One(ok), timers[w])
  /\ out' = [out EXCEPT ![w] = NoPacket]
  /\ UNCHANGED <<netVars, testVars, timers, issued, stops>>

(* Mutant: the due tick is counted as if LTickCount were zero.             *)
TimerJobForgetsTick(w, s) == [owner |-> s, due |-> -2]

(* PushTimerJob: the due tick counts from the thread's LTickCount.         *)
TimerJob(w, s) == [owner |-> s, due |-> PLAYER_ACTION_INTERVAL - lag[w]]

(* PreRecv and PostRecv: whether the receive was posted.  PostRecv finds   *)
(* room: what OnRead leaves in the receive buffer is less than a packet.   *)
PreRecv(s, ok) == mConnected[s] /\ ok
PostRecv(s, ok) == mConnected[s] /\ ok

-----------------------------------------------------------------------------
(* DoIocpJob: a thread takes a completion out of the port and handles it.  *)
(* The kernel has finished the operation by then; what is left to choose   *)
(* is how.                                                                 *)

Dequeued(w, s, io) == pc[w] = "idle" /\ pending[s][io] > 0

(* ConnectCompletion: a refused connection only gives its context back.    *)
ConnectDone(w, s) ==
  /\ Dequeued(w, s, "connect")
  /\ pending' = [pending EXCEPT ![s]["connect"] = @ - 1]
  /\ \/ /\ link' = [link EXCEPT ![s] = "up"]
        /\ mConnected' = [mConnected EXCEPT ![s] = TRUE]
        /\ pc' = [pc EXCEPT ![w] = "prerecv"]
        /\ who' = [who EXCEPT ![w] = s]
        /\ hand' = [hand EXCEPT ![w] = "connect"]
        /\ UNCHANGED <<mRefCount, lag>>
     \/ /\ UNCHANGED link
        /\ Leave(w, s, "connect", FALSE, 0, timers[w])
  /\ UNCHANGED <<sendVars, inbox, testVars, timers, issued, out, stops>>

(* its PreRecv; when that fails the connection is given up without a       *)
(* DisconnectRequest,                                                      *)
ConnectPreRecv(w) ==
  LET s == who[w] IN
  /\ pc[w] = "prerecv"
  /\ \E ok \in BOOLEAN :
       /\ Starts(s, ok)
       /\ \/ /\ PreRecv(s, ok)
             /\ pending' = [pending EXCEPT ![s]["zero"] = @ + 1]
             /\ mRefCount' = [mRefCount EXCEPT ![s] = @ + 1]
             /\ pc' = [pc EXCEPT ![w] = "login"]
             /\ UNCHANGED <<mConnected, who, hand, lag>>
          \/ /\ ~PreRecv(s, ok)
             /\ mConnected' = [mConnected EXCEPT ![s] = FALSE]
             /\ mRefCount' = [mRefCount EXCEPT ![s] = @ - 1]
             /\ pc' = [pc EXCEPT ![w] = LoopOn(timers[w], 0)]
             /\ who' = [who EXCEPT ![w] = NoOne]
             /\ hand' = [hand EXCEPT ![w] = "none"]
             /\ lag' = [lag EXCEPT ![w] = 0]
             /\ UNCHANGED pending
  /\ UNCHANGED <<sendVars, netVars, testVars, timers, issued, out, stops>>

(* Mutant: the test is armed with the login, not with its result.         *)
StartTestArms(w) ==
  LET s == who[w] IN
  /\ pc[w] = "login"
  /\ \/ /\ mConnected[s]
        /\ out' = [out EXCEPT ![w] =
                     [type |-> "login", id |-> mPlayerSessionId[s]]]
        /\ pc' = [pc EXCEPT ![w] = "post"]
        /\ timers' = [timers EXCEPT ![w] = Push(@, TimerJob(w, s))]
        /\ mRefCount' = [mRefCount EXCEPT ![s] = @ + 1]
        /\ UNCHANGED <<mConnected, who, hand, lag>>
     \/ /\ ~mConnected[s]
        /\ UNCHANGED <<out, timers>>
        /\ Leave(w, s, hand[w], FALSE, 0, timers[w])
  /\ UNCHANGED <<sendVars, netVars, testVars, issued, pending, stops>>

(* and StartTest, which logs in with the id the session has by now: the    *)
(* main thread may be storing it, and half an id is none.                  *)
StartTest(w) ==
  LET s == who[w] IN
  /\ pc[w] = "login"
  /\ \/ /\ mConnected[s]
        /\ out' = [out EXCEPT ![w] =
                     [type |-> "login", id |-> mPlayerSessionId[s]]]
        /\ pc' = [pc EXCEPT ![w] = "post"]
        /\ UNCHANGED <<mConnected, mRefCount, who, hand, lag>>
     \/ /\ ~mConnected[s]
        /\ UNCHANGED out
        /\ Leave(w, s, hand[w], FALSE, 0, timers[w])
  /\ UNCHANGED <<sendVars, netVars, testVars, timers, issued, pending, stops>>

(* Mutant: a PostRecv that fails only ends the receiving.                  *)
PreRecvDoneQuiet(w, s) ==
  /\ Dequeued(w, s, "zero")
  /\ inbox[s] # <<>> \/ link[s] = "down"
  /\ \E ok \in BOOLEAN :
       LET posted == PostRecv(s, ok) IN
       /\ Starts(s, ok)
       /\ pending' = [pending EXCEPT ![s]["zero"] = @ - 1,
                                     ![s]["recv"] = @ + One(posted)]
       /\ Leave(w, s, "zero", FALSE, One(posted), timers[w])
  /\ UNCHANGED <<sendVars, netVars, testVars, timers, issued, out, stops>>

(* IO_RECV_ZERO: data has arrived or the connection has ended; PostRecv.   *)
PreRecvDone(w, s) ==
  /\ Dequeued(w, s, "zero")
  /\ inbox[s] # <<>> \/ link[s] = "down"
  /\ \E ok \in BOOLEAN :
       LET posted == PostRecv(s, ok) IN
       /\ Starts(s, ok)
       /\ pending' = [pending EXCEPT ![s]["zero"] = @ - 1,
                                     ![s]["recv"] = @ + One(posted)]
       /\ Leave(w, s, "zero", ~posted, One(posted), timers[w])
  /\ UNCHANGED <<sendVars, netVars, testVars, timers, issued, out, stops>>

(* RecvCompletion and OnRead: the handler of the login's result arms the   *)
(* first PlayTest, the others do nothing.                                  *)
HasLogin(packets) == \E i \in 1 .. Len(packets) : packets[i] = "login"
OnRead(w, s, packets) ==
  IF HasLogin(packets) THEN Push(timers[w], TimerJob(w, s)) ELSE timers[w]

(* IO_RECV: the packets are handled, then the next receive is posted.      *)
RecvDone(w, s) ==
  /\ Dequeued(w, s, "recv")
  /\ \E k \in 1 .. Len(inbox[s]), ok \in BOOLEAN :
       LET packets == SubSeq(inbox[s], 1, k)
           posted == PreRecv(s, ok)
           q == OnRead(w, s, packets)
       IN
       /\ Starts(s, ok)
       /\ inbox' = [inbox EXCEPT ![s] = SubSeq(@, k + 1, Len(@))]
       /\ timers' = [timers EXCEPT ![w] = q]
       /\ pending' = [pending EXCEPT ![s]["recv"] = @ - 1,
                                     ![s]["zero"] = @ + One(posted)]
       /\ Leave(w, s, "recv", ~posted, One(posted) + One(HasLogin(packets)), q)
  /\ UNCHANGED <<sendVars, link, testVars, issued, out, stops>>

(* IO_SEND: SendCompletion removes what was sent and flushes the rest; a   *)
(* partial send, whose last packet stays in the buffer, disconnects after  *)
(* that.                                                                   *)
SendDone(w, s) ==
  /\ Dequeued(w, s, "send")
  /\ \E sent \in {inflight[s], inflight[s] - 1} :
       LET rest == SubSeq(mSendBuffer[s], sent + 1, Len(mSendBuffer[s]))
           partial == sent < inflight[s]
           before == [count |-> mSendRequestedCount[s] - 1,
                      kernel |-> pending[s]["send"] - 1,
                      wire |-> IF partial THEN Front(wire[s]) ELSE wire[s]]
       IN
       /\ partial => wire[s] # <<>>
       /\ \/ /\ rest = <<>>
             /\ mSendBuffer' = [mSendBuffer EXCEPT ![s] = rest]
             /\ mSendRequestedCount' =
                  [mSendRequestedCount EXCEPT ![s] = before.count]
             /\ inflight' = [inflight EXCEPT ![s] = 0]
             /\ pending' = [pending EXCEPT ![s]["send"] = before.kernel]
             /\ UNCHANGED wire
             /\ Leave(w, s, "send", FALSE, 0, timers[w])
          \/ /\ rest # <<>>
             /\ \E ok \in BOOLEAN :
                  /\ FlushSend(s, rest, ok, before)
                  /\ Leave(w, s, "send", ~ok \/ partial, One(ok), timers[w])
  /\ UNCHANGED <<netVars, testVars, timers, issued, out, stops>>

(* A receive or a send that fails, or transfers nothing, only disconnects: *)
(* a failed send stays counted in mSendRequestedCount.                     *)
CompletionError(w, s, io) ==
  /\ Dequeued(w, s, io)
  /\ link[s] = "down"
  /\ pending' = [pending EXCEPT ![s][io] = @ - 1]
  /\ Leave(w, s, io, TRUE, 0, timers[w])
  /\ UNCHANGED <<sendVars, netVars, testVars, timers, issued, out, stops>>

(* IO_DISCONNECT: DisconnectCompletion returns the reference the session   *)
(* was issued with.                                                        *)
DisconnectDone(w, s) ==
  /\ Dequeued(w, s, "disconnect")
  /\ pending' = [pending EXCEPT ![s]["disconnect"] = @ - 1]
  /\ issued' = [issued EXCEPT ![s] = FALSE]
  /\ Leave(w, s, "disconnect", FALSE, -1, timers[w])
  /\ UNCHANGED <<sendVars, netVars, testVars, timers, out, stops>>

(* CK_STOP_NOW ends the thread; GQCS_TIMEOUT, when the port stays empty,   *)
(* only the wait.                                                          *)
StopNow(w) ==
  /\ pc[w] = "idle"
  /\ stops > 0
  /\ stops' = stops - 1
  /\ pc' = [pc EXCEPT ![w] = "stopped"]
  /\ UNCHANGED <<mConnected, mRefCount, who, hand, sendVars, netVars, testVars,
                 clockVars, issued, pending, out>>

WaitTimeout(w) ==
  /\ pc[w] = "idle"
  /\ stops = 0
  /\ lag' = [lag EXCEPT ![w] = 0]
  /\ pc' = [pc EXCEPT ![w] = LoopOn(timers[w], 0)]
  /\ UNCHANGED <<mConnected, mRefCount, who, hand, sendVars, netVars, testVars,
                 timers, issued, pending, out, stops>>

Dequeue(w, s) ==
  \/ ConnectDone(w, s) \/ PreRecvDone(w, s) \/ RecvDone(w, s)
  \/ SendDone(w, s) \/ DisconnectDone(w, s)
  \/ CompletionError(w, s, "recv") \/ CompletionError(w, s, "send")

-----------------------------------------------------------------------------
(* The timer jobs.                                                         *)

(* DoTask finds the session's dispatcher free (OneChain) and runs PlayTest *)
(* on the spot, holding a reference meanwhile.  The last request is to     *)
(* exit; before, the player chats or moves.  A move is identified by       *)
(* mPlayerIdx, the others by mPlayerSessionId.  All ask IsConnected before *)
(* they send; none minds the answer.                                       *)
PlayTest(w) ==
  LET s == timers[w].top.owner
      last == mPlayTestCount[s] + 1 = PLAYER_ACTION_REQUEST
      requests ==
        IF last THEN {[type |-> "exit", id |-> mPlayerSessionId[s]]}
        ELSE {[type |-> "chat", id |-> mPlayerSessionId[s]],
              [type |-> "move", id |-> mPlayerIdx[s]]}
  IN
  /\ pc[w] = "loop"
  /\ mRefCount' = [mRefCount EXCEPT ![s] = @ + 1]
  /\ mPlayTestCount' = [mPlayTestCount EXCEPT ![s] = @ + 1]
  /\ who' = [who EXCEPT ![w] = s]
  /\ IF mConnected[s]
     THEN /\ \E p \in requests : out' = [out EXCEPT ![w] = p]
          /\ pc' = [pc EXCEPT ![w] = "post"]
     ELSE /\ pc' = [pc EXCEPT ![w] = "after"]
          /\ UNCHANGED out
  /\ UNCHANGED <<mConnected, hand, sendVars, netVars, mPlayerSessionId,
                 mPlayerIdx, clockVars, issued, pending, stops>>

(* Mutant: no return behind EndTest.                                       *)
PlayTestDoneAgain(w) ==
  LET s == who[w]
      again == TRUE
      q == IF again THEN Push(timers[w], TimerJob(w, s)) ELSE timers[w]
  IN
  /\ pc[w] = "after"
  /\ \E r \in Pop(q) :
       /\ timers' = [timers EXCEPT ![w] = r]
       /\ pc' = [pc EXCEPT ![w] = LoopOn(r, -lag[w])]
  /\ mRefCount' = [mRefCount EXCEPT ![s] = @ + One(again) - 2]
  /\ who' = [who EXCEPT ![w] = NoOne]
  /\ UNCHANGED <<mConnected, hand, sendVars, netVars, testVars, lag, issued, pending,
                 out, stops>>

(* Mutant: a session that is not connected is not armed again.             *)
PlayTestDoneGivesUp(w) ==
  LET s == who[w]
      again == mPlayTestCount[s] # PLAYER_ACTION_REQUEST /\ mConnected[s]
      q == IF again THEN Push(timers[w], TimerJob(w, s)) ELSE timers[w]
  IN
  /\ pc[w] = "after"
  /\ \E r \in Pop(q) :
       /\ timers' = [timers EXCEPT ![w] = r]
       /\ pc' = [pc EXCEPT ![w] = LoopOn(r, -lag[w])]
  /\ mRefCount' = [mRefCount EXCEPT ![s] = @ + One(again) - 2]
  /\ who' = [who EXCEPT ![w] = NoOne]
  /\ UNCHANGED <<mConnected, hand, sendVars, netVars, testVars, lag, issued, pending,
                 out, stops>>

(* Then the next PlayTest is armed, unless that was the last; the          *)
(* dispatcher's and the timer's reference are returned and the queue is    *)
(* popped.                                                                 *)
PlayTestDone(w) ==
  LET s == who[w]
      again == mPlayTestCount[s] # PLAYER_ACTION_REQUEST
      q == IF again THEN Push(timers[w], TimerJob(w, s)) ELSE timers[w]
  IN
  /\ pc[w] = "after"
  /\ \E r \in Pop(q) :
       /\ timers' = [timers EXCEPT ![w] = r]
       /\ pc' = [pc EXCEPT ![w] = LoopOn(r, -lag[w])]
  /\ mRefCount' = [mRefCount EXCEPT ![s] = @ + One(again) - 2]
  /\ who' = [who EXCEPT ![w] = NoOne]
  /\ UNCHANGED <<mConnected, hand, sendVars, netVars, testVars, lag, issued, pending,
                 out, stops>>

(* Run, behind a dequeued completion.                                      *)
Run(w) ==
  \/ ConnectPreRecv(w) \/ StartTest(w) \/ PostSend(w) \/ DisconnectEx(w)
  \/ PlayTest(w) \/ PlayTestDone(w)

-----------------------------------------------------------------------------
(* The environment: time, the network and the game server.                 *)

Running(w) == pc[w] # "stopped"

(* Time does not wait, but a thread gets back to its timer before MaxLag   *)
(* ticks are over.  Nobody looks at a stopped thread's clock.              *)
Tick ==
  /\ \E w \in Worker : Running(w)
  /\ \A w \in Worker : Running(w) => lag[w] < MaxLag
  /\ lag' = [w \in Worker |-> IF Running(w) THEN lag[w] + 1 ELSE lag[w]]
  /\ timers' = [w \in Worker |->
                  IF Running(w) THEN TickPassed(timers[w]) ELSE timers[w]]
  /\ UNCHANGED <<handlerVars, sendVars, netVars, testVars, issued, pending, out,
                 stops>>

(* The game server answers a login that carries a player session id and    *)
(* disconnects one that does not, broadcasts what is played and disconnects*)
(* who exits.                                                              *)
ServerReads(s) ==
  /\ link[s] = "up"
  /\ wire[s] # <<>>
  /\ LET p == Head(wire[s])
         refused == p.type = "exit" \/ (p.type = "login" /\ ~p.id)
     IN
     \/ /\ ~refused
        /\ inbox' = [inbox EXCEPT ![s] = Append(@, p.type)]
        /\ wire' = [wire EXCEPT ![s] = Tail(@)]
        /\ UNCHANGED link
     \/ /\ refused
        /\ Break(s)
        /\ UNCHANGED inbox
  /\ UNCHANGED <<handlerVars, bufferVars, testVars, clockVars, issued, pending, out,
                 stops>>

(* The connection breaks, or the game server ends it.                      *)
Cut(s) ==
  /\ link[s] = "up"
  /\ Break(s)
  /\ UNCHANGED <<handlerVars, bufferVars, inbox, testVars, clockVars, issued, pending,
                 out, stops>>

Environment == Tick \/ \E s \in Session : ServerReads(s) \/ Cut(s)
=============================================================================
