------------------------------ MODULE Session -------------------------------
(***************************************************************************)
(* One Session of the Windows game server (Session.cpp) with the I/O       *)
(* threads that serve the completion port (IOThread::DoIocpJob), the main  *)
(* thread that accepted the connection, and the kernel's side of the       *)
(* overlapped operations.                                                  *)
(*                                                                         *)
(* Sends: PostSend copies a packet into mSendBuffer under mSendBufferLock  *)
(* and starts an overlapped WSASend of the first contiguous bytes, in      *)
(* place, unless one is pending; the kernel reads those bytes later, while *)
(* other threads keep writing packets.  Receives: a zero-byte receive, a   *)
(* real one, packet handling, and the next zero-byte receive form a chain  *)
(* that uses mRecvBuffer without a lock.  Any thread may Disconnect at any *)
(* time; the call that gets to do it enters the GameLiftManager's mLock    *)
(* when the player has logged in, and mLock is what a broadcast holds      *)
(* while it posts.  Neither lock may be entered again by its holder.       *)
(*                                                                         *)
(* What the game session does under mLock is in GameServer; the bytes of   *)
(* mRecvBuffer are in BufferUse.  A thread waits for a lock where it       *)
(* stands, at the step that takes it.                                      *)
(*                                                                         *)
(* A thread is a stack of frames, the running call first: at is where it   *)
(* stands.  ret is the value that its last call returned, if a broadcast   *)
(* is there to look at it, and TRUE otherwise.                             *)
(***************************************************************************)
EXTENDS CircularBuffer, FiniteSets

CONSTANTS Worker,    \* the I/O threads
          Main,      \* the thread that accepted the connection
          Payload,   \* the packets that are sent
          MaxSends   \* bound: how many packets are sent in all

Nobody == "nobody"

Thread == Worker \cup {Main}

ASSUME SessionAssumption ==
  /\ Main \notin Worker /\ Nobody \notin Thread
  /\ Payload \subseteq Seq(Byte)
  /\ MaxSends \in Nat

VARIABLES
  mConnected, mSendBuffer, mSendBufferLock, mSendPendingCount,
  socketOpen,   \* closesocket has not been called
  ops,          \* overlapped operations the kernel is working on
  port,         \* the completion port: finished operations, oldest first
  stack, ret,
  mLock,        \* the GameLiftManager's lock: its holder, or Nobody
  owed,         \* bytes Write accepted and the kernel has not transmitted
  sendsLeft

session == <<mConnected, mSendBuffer, mSendBufferLock, mSendPendingCount,
             socketOpen>>
kernel  == <<ops, port>>
vars    == <<session, kernel, stack, ret, owed, sendsLeft, mLock>>

-----------------------------------------------------------------------------
(* Calls and returns.                                                      *)

At(label)         == [at |-> label]
PostSendOf(data)  == [at |-> "PostSend", data |-> data]
Completion(at, c) == [at |-> at, op |-> c]

Idle(t)       == stack[t] = <<>>
Stands(t, at) == stack[t] # <<>> /\ stack[t][1].at = at

Start(t, frames) == stack' = [stack EXCEPT ![t] = frames]
Goto(t, f)       == stack' = [stack EXCEPT ![t] = <<f>> \o Tail(@)]
Call(t, f)       == stack' = [stack EXCEPT ![t] = <<f>> \o @]
CallThen(t, f, g) == stack' = [stack EXCEPT ![t] = <<f, g>> \o Tail(@)]
Return(t)        == stack' = [stack EXCEPT ![t] = Tail(@)]
ReturnValue(t, v) ==
  LET seen == Len(stack[t]) > 1 /\ stack[t][2].at = "BroadcastResult"
  IN  Return(t) /\ ret' = [ret EXCEPT ![t] = seen => v]

(* An overlapped operation: the part of mSendBuffer it was given and how   *)
(* much of it the kernel has transmitted, unused for receives.             *)
Op(type, start, len) ==
  [type |-> type, start |-> start, len |-> len, sent |-> 0]

Receive(type) == Op(type, NULL, 0)

Submit(op) == ops' = ops \cup {op} /\ UNCHANGED port

-----------------------------------------------------------------------------
(* The main thread: accept made the session, OnConnect starts the receives.*)

Init ==
  /\ mConnected = FALSE /\ socketOpen = TRUE
  /\ \E b \in Byte : mSendBuffer = New([k \in 0 .. Capacity - 1 |-> b])
  /\ mSendBufferLock = Nobody /\ mSendPendingCount = 0
  /\ ops = {} /\ port = <<>>
  /\ stack = [t \in Thread |->
                IF t = Main THEN <<At("OnConnect")>> ELSE <<>>]
  /\ ret = [t \in Thread |-> TRUE]
  /\ mLock = Nobody
  /\ owed = <<>> /\ sendsLeft = MaxSends

(* Socket options and the port may fail; then Disconnect is called before  *)
(* mConnected is set.                                                      *)
OnConnect(t) ==
  /\ Stands(t, "OnConnect")
  /\ \/ mConnected' = TRUE /\ Goto(t, At("PreRecv"))
     \/ UNCHANGED mConnected /\ Goto(t, At("Disconnect"))
  /\ UNCHANGED <<mSendBuffer, mSendBufferLock, mSendPendingCount, socketOpen,
                 kernel, ret, owed, sendsLeft, mLock>>

-----------------------------------------------------------------------------
(* Disconnect: only the call that turns mConnected off goes on.  Whether   *)
(* the player is logged in by then (IsValid) is left open; the main thread *)
(* gives a session up before anything was received on it.                  *)

GoesOn(t) ==
  \/ Goto(t, At("closesocket"))
  \/ t # Main /\ Goto(t, At("OnDisconnect"))

(* Mutant: mConnected is tested, not exchanged.                            *)
DisconnectTestThenClear(t) ==
  /\ Stands(t, "Disconnect")
  /\ IF mConnected THEN GoesOn(t) ELSE Return(t)
  /\ UNCHANGED <<session, kernel, ret, owed, sendsLeft, mLock>>

Disconnect(t) ==
  /\ Stands(t, "Disconnect")
  /\ mConnected' = FALSE
  /\ IF mConnected THEN GoesOn(t) ELSE Return(t)
  /\ UNCHANGED <<mSendBuffer, mSendBufferLock, mSendPendingCount, socketOpen,
                 kernel, ret, owed, sendsLeft, mLock>>

(* OnDisconnect of a player who is logged in: RemovePlayerSession enters   *)
(* and leaves mLock, whatever locks this thread has.                       *)
OnDisconnect(t) ==
  /\ Stands(t, "OnDisconnect") /\ mLock = Nobody
  /\ Goto(t, At("closesocket"))
  /\ UNCHANGED <<session, kernel, ret, owed, sendsLeft, mLock>>

CloseSocket(t) ==
  /\ Stands(t, "closesocket")
  /\ socketOpen' = FALSE
  /\ Return(t)
  /\ UNCHANGED <<mConnected, mSendBuffer, mSendBufferLock, mSendPendingCount,
                 kernel, ret, owed, sendsLeft, mLock>>

-----------------------------------------------------------------------------
(* Sending.                                                                *)

(* A broadcast reaches this session: under mLock, a post and what follows  *)
(* from its result.                                                        *)
Broadcast(data) ==
  <<PostSendOf(data), At("BroadcastResult"), At("BroadcastEnd")>>

(* Worker t runs it for a packet of another session.                       *)
BroadcastMessage(t, data) ==
  /\ Idle(t) /\ t \in Worker
  /\ Idle(Main)
  /\ mLock = Nobody /\ mLock' = t
  /\ sendsLeft > 0 /\ sendsLeft' = sendsLeft - 1
  /\ Start(t, Broadcast(data))
  /\ UNCHANGED <<session, kernel, ret, owed>>

BroadcastResult(t) ==
  /\ Stands(t, "BroadcastResult")
  /\ IF ret[t] THEN Return(t) ELSE Goto(t, At("Disconnect"))
  /\ ret' = [ret EXCEPT ![t] = TRUE]
  /\ UNCHANGED <<session, kernel, owed, sendsLeft, mLock>>

BroadcastEnd(t) ==
  /\ Stands(t, "BroadcastEnd")
  /\ mLock' = Nobody
  /\ Return(t)
  /\ UNCHANGED <<session, kernel, ret, owed, sendsLeft>>

(* The test of mConnected comes before the lock is taken.                  *)
PostSend(t) ==
  /\ Stands(t, "PostSend")
  /\ IF mConnected
     THEN Goto(t, [at |-> "PostSendLock", data |-> stack[t][1].data])
          /\ UNCHANGED ret
     ELSE ReturnValue(t, FALSE)
  /\ UNCHANGED <<session, kernel, owed, sendsLeft, mLock>>

(* Mutant: every packet is flushed, also when a send is pending.           *)
PostSendLockAlwaysFlush(t) ==
  /\ Stands(t, "PostSendLock") /\ mSendBufferLock = Nobody
  /\ LET data == stack[t][1].data
         ok == WriteOk(mSendBuffer, Len(data))
     IN  /\ mSendBuffer' = Write(mSendBuffer, data)
         /\ owed' = IF ok THEN owed \o data ELSE owed
         /\ IF ok
            THEN Goto(t, At("FlushSend")) /\ mSendBufferLock' = t
                 /\ UNCHANGED ret
            ELSE ReturnValue(t, ok) /\ UNCHANGED mSendBufferLock
  /\ UNCHANGED <<mConnected, mSendPendingCount, socketOpen, kernel,
                 sendsLeft, mLock>>

(* Under the lock: write, and flush unless a send is pending.  The lock is *)
(* held through FlushSend and released when PostSend returns.              *)
PostSendLock(t) ==
  /\ Stands(t, "PostSendLock") /\ mSendBufferLock = Nobody
  /\ LET data == stack[t][1].data
         ok == WriteOk(mSendBuffer, Len(data))
     IN  /\ mSendBuffer' = Write(mSendBuffer, data)
         /\ owed' = IF ok THEN owed \o data ELSE owed
         /\ IF ok /\ mSendPendingCount = 0
            THEN Goto(t, At("FlushSend")) /\ mSendBufferLock' = t
                 /\ UNCHANGED ret
            ELSE ReturnValue(t, ok) /\ UNCHANGED mSendBufferLock
  /\ UNCHANGED <<mConnected, mSendPendingCount, socketOpen, kernel,
                 sendsLeft, mLock>>

(* Mutant: the bytes are removed when the send starts, not when it is done.*)
FlushSendRemovesEarly(t) ==
  /\ Stands(t, "FlushSend")
  /\ \/ /\ socketOpen
        /\ Submit(Op("send", GetBufferStart(mSendBuffer),
                     GetContiguiousBytes(mSendBuffer)))
        /\ mSendBuffer' =
             Remove(mSendBuffer, GetContiguiousBytes(mSendBuffer))
        /\ Goto(t, At("FlushCount"))
     \/ /\ CallThen(t, At("Disconnect"), At("FlushFailed"))
        /\ UNCHANGED <<kernel, mSendBuffer>>
  /\ UNCHANGED <<mConnected, mSendBufferLock, mSendPendingCount, socketOpen,
                 ret, owed, sendsLeft, mLock>>

(* WSASend of the first contiguous bytes, in place; it fails at once when  *)
(* the socket is closed or the connection is broken.                       *)
FlushSend(t) ==
  /\ Stands(t, "FlushSend")
  /\ \/ /\ socketOpen
        /\ Submit(Op("send", GetBufferStart(mSendBuffer),
                     GetContiguiousBytes(mSendBuffer)))
        /\ Goto(t, At("FlushCount"))
     \/ /\ CallThen(t, At("Disconnect"), At("FlushFailed"))
        /\ UNCHANGED kernel
  /\ UNCHANGED <<session, ret, owed, sendsLeft, mLock>>

FlushCount(t) ==
  /\ Stands(t, "FlushCount")
  /\ mSendPendingCount' = mSendPendingCount + 1
  /\ mSendBufferLock' = Nobody
  /\ ReturnValue(t, TRUE)
  /\ UNCHANGED <<mConnected, mSendBuffer, socketOpen, kernel, owed, sendsLeft,
                 mLock>>

(* Mutant: the error path returns without releasing the lock.              *)
FlushFailedKeepsLock(t) ==
  /\ Stands(t, "FlushFailed")
  /\ ReturnValue(t, FALSE)
  /\ UNCHANGED <<session, kernel, owed, sendsLeft, mLock>>

FlushFailed(t) ==
  /\ Stands(t, "FlushFailed")
  /\ mSendBufferLock' = Nobody
  /\ ReturnValue(t, FALSE)
  /\ UNCHANGED <<mConnected, mSendBuffer, mSendPendingCount, socketOpen,
                 kernel, owed, sendsLeft, mLock>>

(* Mutant: what is left in the buffer waits for the next PostSend.         *)
SendCompletionWithoutFlush(t) ==
  /\ Stands(t, "SendCompletion") /\ mSendBufferLock = Nobody
  /\ mSendBuffer' = Remove(mSendBuffer, stack[t][1].op.sent)
  /\ mSendPendingCount' = mSendPendingCount - 1
  /\ Goto(t, Completion("SendResult", stack[t][1].op))
  /\ UNCHANGED <<mConnected, mSendBufferLock, socketOpen, kernel, ret, owed,
                 sendsLeft, mLock>>

(* Under the lock: drop what was transmitted and flush what remains.       *)
SendCompletion(t) ==
  /\ Stands(t, "SendCompletion") /\ mSendBufferLock = Nobody
  /\ LET op == stack[t][1].op
         rest == Remove(mSendBuffer, op.sent)
     IN  /\ mSendBuffer' = rest
         /\ mSendPendingCount' = mSendPendingCount - 1
         /\ IF GetContiguiousBytes(rest) > 0
            THEN CallThen(t, At("FlushSend"), Completion("SendResult", op))
                 /\ mSendBufferLock' = t
            ELSE Goto(t, Completion("SendResult", op))
                 /\ UNCHANGED mSendBufferLock
  /\ UNCHANGED <<mConnected, socketOpen, kernel, ret, owed, sendsLeft, mLock>>

(* A partial send ends the connection.                                     *)
SendResult(t) ==
  /\ Stands(t, "SendResult")
  /\ LET op == stack[t][1].op
     IN IF op.sent = op.len THEN Return(t) ELSE Goto(t, At("Disconnect"))
  /\ UNCHANGED <<session, kernel, ret, owed, sendsLeft, mLock>>

-----------------------------------------------------------------------------
(* Receiving.                                                              *)

(* WSARecv for the next link of the chain; a failure to start it, or a     *)
(* session that is no longer connected, leads to Disconnect.               *)
NextReceive(t, type) ==
  /\ \/ mConnected /\ socketOpen /\ Submit(Receive(type)) /\ Return(t)
     \/ Goto(t, At("Disconnect")) /\ UNCHANGED kernel
  /\ UNCHANGED <<session, ret, owed, sendsLeft, mLock>>

PreRecv(t) == Stands(t, "PreRecv") /\ NextReceive(t, "zero")

PostRecv(t) == Stands(t, "PostRecv") /\ NextReceive(t, "recv")

(* RecvCompletion: OnRead handles the packets that are complete.  Handlers *)
(* answer a login, accepted under mLock, with PostSend, whose result they  *)
(* ignore; disconnect; or broadcast what the player says, to himself too.  *)
OnRead(t) ==
  /\ Stands(t, "RecvCompletion")
  /\ \/ Return(t) /\ UNCHANGED <<sendsLeft, mLock>>
     \/ /\ Call(t, At("Disconnect")) /\ mConnected
        /\ UNCHANGED <<sendsLeft, mLock>>
     \/ /\ sendsLeft > 0 /\ sendsLeft' = sendsLeft - 1
        /\ mLock = Nobody
        /\ \E data \in Payload :
             \/ Call(t, PostSendOf(data)) /\ UNCHANGED mLock
             \/ /\ mLock' = t
                /\ stack' = [stack EXCEPT ![t] = Broadcast(data) \o @]
  /\ UNCHANGED <<session, kernel, ret, owed>>

-----------------------------------------------------------------------------
(* DoIocpJob: an I/O thread takes the oldest completion.                   *)

(* Mutant: the next zero-byte receive is posted before the packets of this *)
(* one are handled.                                                        *)
HandlerFramesRecvFirst(c) ==
  CASE c.type = "send" ->
         IF c.ok THEN <<Completion("SendCompletion", c)>>
         ELSE <<At("Disconnect")>>
    [] c.type = "zero" -> <<At("PostRecv")>>
    [] c.type = "recv" ->
         IF c.ok THEN <<At("PreRecv"), At("RecvCompletion")>>
         ELSE <<At("Disconnect")>>

(* What is run for a completion: a failed or empty send or receive means   *)
(* Disconnect; a zero-byte receive is followed up even when it failed.     *)
HandlerFrames(c) ==
  CASE c.type = "send" ->
         IF c.ok THEN <<Completion("SendCompletion", c)>>
         ELSE <<At("Disconnect")>>
    [] c.type = "zero" -> <<At("PostRecv")>>
    [] c.type = "recv" ->
         IF c.ok THEN <<At("RecvCompletion"), At("PreRecv")>>
         ELSE <<At("Disconnect")>>

DoIocpJob(t) ==
  /\ Idle(t) /\ t \in Worker
  /\ port # <<>>
  /\ Start(t, HandlerFrames(Head(port)))
  /\ port' = Tail(port)
  /\ UNCHANGED <<session, ops, ret, owed, sendsLeft, mLock>>

-----------------------------------------------------------------------------
(* The kernel (external): it transmits the bytes of a send one after the   *)
(* other, from the memory it was given, and finishes operations.           *)

KernelTransmit(op) ==
  /\ op.type = "send" /\ op.sent < op.len /\ socketOpen
  /\ ops' = (ops \ {op}) \cup {[op EXCEPT !.sent = @ + 1]}
  /\ owed' = Tail(owed)
  /\ UNCHANGED <<session, port, stack, ret, sendsLeft, mLock>>

(* With ok = FALSE the operation failed, was cancelled by closesocket, or  *)
(* moved no byte.                                                          *)
Finish(op, ok) ==
  /\ ops' = ops \ {op}
  /\ port' = Append(port, [type |-> op.type, ok |-> ok,
                           len |-> op.len, sent |-> op.sent])
  /\ UNCHANGED <<session, stack, ret, owed, sendsLeft, mLock>>

KernelFinish(op) ==
  /\ socketOpen
  /\ op.type = "send" => op.sent > 0
  /\ Finish(op, TRUE)

KernelFail(op) == Finish(op, FALSE)

-----------------------------------------------------------------------------
ThreadStep(t) ==
  \/ OnConnect(t) \/ Disconnect(t) \/ OnDisconnect(t) \/ CloseSocket(t)
  \/ BroadcastResult(t) \/ BroadcastEnd(t) \/ PostSend(t) \/ PostSendLock(t)
  \/ FlushSend(t) \/ FlushCount(t) \/ FlushFailed(t)
  \/ SendCompletion(t) \/ SendResult(t)
  \/ PreRecv(t) \/ PostRecv(t) \/ OnRead(t)
  \/ DoIocpJob(t)

KernelStep ==
  \E op \in ops : KernelTransmit(op) \/ KernelFinish(op) \/ KernelFail(op)

Next ==
  \/ \E t \in Thread : ThreadStep(t)
  \/ \E t \in Worker, data \in Payload : BroadcastMessage(t, data)
  \/ KernelStep

(* The operating system schedules every thread and finishes every kind of  *)
(* operation it was given; it need not transmit, and it may fail.          *)
Fairness ==
  /\ \A t \in Thread : WF_vars(ThreadStep(t))
  /\ \A type \in {"send", "zero", "recv"} :
       WF_vars(\E op \in ops :
                 op.type = type /\ (KernelFinish(op) \/ KernelFail(op)))

Spec == Init /\ [][Next]_vars /\ Fairness

-----------------------------------------------------------------------------
(* Properties.                                                             *)

SendOps == {op \in ops : op.type = "send"}

(* While the kernel works on a WSASend, no Write or Remove moves or        *)
(* overwrites the bytes it was given, and they are the oldest bytes        *)
(* PostSend accepted: the peer receives every packet whole and in the      *)
(* order in which PostSend took the lock.                                  *)
InFlightIntact ==
  \A op \in SendOps : \A i \in 1 .. op.len - op.sent :
     /\ i <= Len(owed)
     /\ mSendBuffer.mBuffer[op.start + op.sent + i - 1] = owed[i]

(* The CRASH_ASSERTs on mSendPendingCount in FlushSend and SendCompletion  *)
(* never fire, also when a completion is dequeued by another thread before *)
(* FlushSend has counted the send.                                         *)
AssertsHold ==
  \A t \in Thread :
     /\ Stands(t, "FlushCount") => mSendPendingCount = 0
     /\ Stands(t, "SendCompletion") /\ mSendBufferLock = Nobody
          => mSendPendingCount = 1

(* Frames of the receive chain.                                            *)
InReceive(t) ==
  \E i \in 1 .. Len(stack[t]) :
     stack[t][i].at \in {"OnConnect", "PreRecv", "PostRecv", "RecvCompletion"}

(* mRecvBuffer, which no lock protects, is used by one thread or by one    *)
(* kernel operation at a time.                                             *)
OneReceiver ==
  LET receives == {op \in ops : op.type # "send"}
      finished == {i \in 1 .. Len(port) : port[i].type # "send"}
  IN  Cardinality(receives) + Cardinality(finished)
        + Cardinality({t \in Thread : InReceive(t)}) <= 1

(* Threads that Disconnect let through and that have not closed the socket.*)
ToClose(t) == Stands(t, "OnDisconnect") \/ Stands(t, "closesocket")

(* OnDisconnect runs, and the socket handle is closed, at most once, by    *)
(* the one caller of Disconnect that found the session connected.          *)
ClosedOnce ==
  \A t \in Thread : ToClose(t) =>
    /\ socketOpen /\ ~ mConnected
    /\ \A u \in Thread \ {t} : ~ ToClose(u)

(* Every accepted byte is transmitted unless the connection ends.          *)
Drained == <>[](owed = <<>> \/ ~ mConnected)

(* A thread waits for mLock in OnDisconnect, and whoever has mLock waits   *)
(* for that thread: it is itself, in a broadcast, or a broadcast waits for *)
(* the send lock that it holds since its FlushSend failed.                 *)
Deadlocked ==
  \E t \in Thread :
    /\ Stands(t, "OnDisconnect")
    /\ \/ mLock = t
       \/ \E u \in Thread : /\ mLock = u /\ Stands(u, "PostSendLock")
                           /\ mSendBufferLock = t

(* A disconnected session is let go: no thread stays in one of its calls   *)
(* and no operation keeps a reference to it.  Nothing but the two waits of *)
(* Deadlocked, which the code does not exclude, can keep it.               *)
Released ==
  (~ mConnected /\ Idle(Main)) ~>
    \/ ops = {} /\ port = <<>> /\ \A t \in Thread : Idle(t)
    \/ Deadlocked
=============================================================================
