----------------------------- MODULE GameServer -----------------------------
(***************************************************************************)
(* The Windows game server: I/O threads running packet handlers, the       *)
(* PlayerSessions, the GameSession with its players, the GameLiftManager   *)
(* under its lock mLock, the callback thread of the GameLift server SDK,   *)
(* and the clients (as DummyClients plays them).                           *)
(*                                                                         *)
(* This is where the locks meet: mLock is held while a broadcast posts to  *)
(* every player, each session's mSendBufferLock while a send is started,   *)
(* and Disconnect, which may be called under either or both, takes mLock   *)
(* to remove the player.  The locks are not reentrant.                     *)
(*                                                                         *)
(* Abstractions: one connection per player, so a session is named by its   *)
(* player; the send buffer is a queue of at most SendCap packets (its      *)
(* bytes are in Session and CircularBuffer); the zero-byte and the real    *)
(* receive are one operation.  A thread is a stack of frames, the running  *)
(* call first.                                                             *)
(***************************************************************************)
EXTENDS Integers, Sequences, FiniteSets

CONSTANTS
  Player,               \* the players, and their sessions
  Worker,               \* the I/O threads
  Sdk,                  \* the SDK's callback thread
  MAX_PLAYER_PER_GAME,
  SendCap,              \* bound: packets a send buffer holds
  MaxChats,             \* bound: chat and move requests of all clients
  SendMayFail,          \* a WSASend may fail on a session that is connected
  ServiceMayTerminate   \* the service may call OnProcessTerminate

Nobody == "nobody"
NoId   == "no id"
NoGame == {"no game session"}   \* the null pointer: not a set of players

Thread == Worker \cup {Sdk}

ASSUME GameServerAssumption ==
  /\ Sdk \notin Worker /\ Nobody \notin Thread
  /\ NoId \notin Player /\ NoGame \cap Player = {}
  /\ MAX_PLAYER_PER_GAME \in Nat \ {0} /\ SendCap \in Nat \ {0}
  /\ MaxChats \in Nat
  /\ SendMayFail \in BOOLEAN /\ ServiceMayTerminate \in BOOLEAN

VARIABLES
  \* GameLiftManager
  mLock, mActivated, mAcceptedCount, mRemovedCount, mGameSession,
  exitCode,          \* "running", or why the process ended
  \* the sessions
  mConnected, mPlayerSessionId, mSendBufferLock,
  outbox,            \* packets in mSendBuffer, oldest first
  send,              \* the pending WSASend: "none", "flying", "done", "failed",
                     \* or "handled" by a thread (still counted as pending)
  sending,           \* how many packets of outbox it carries
  recv,              \* the receive chain: "off", "posted" or "busy"
  socketOpen,
  \* threads
  stack, ret,
  \* the service and the clients
  gameStatus,        \* the service's view of the game session
  service,           \* player -> "none", "reserved", "active", "completed"
  client,            \* player -> "out", "connected", "asked", "hung up", "left"
  chats, inbox,      \* requests sent so far, requests not yet handled
  got                \* packets the client has received

manager  == <<mLock, mActivated, mAcceptedCount, mRemovedCount, mGameSession,
              exitCode>>
sessions == <<mConnected, mPlayerSessionId, mSendBufferLock, outbox, send,
              sending, recv, socketOpen>>
threads  == <<stack, ret>>
world    == <<gameStatus, service, client, chats, inbox, got>>
vars     == <<manager, sessions, threads, world>>

Running == exitCode = "running"

-----------------------------------------------------------------------------
(* Calls and returns.                                                      *)

On(label, s)      == [at |-> label, s |-> s]
Packet(at, s, m)  == [at |-> at, s |-> s, m |-> m]
Message(kind, s, n) == [kind |-> kind, from |-> s, n |-> n]
Loop(m, todo)     == [at |-> "BroadcastLoop", m |-> m, todo |-> todo]

Idle(t)       == stack[t] = <<>>
Stands(t, at) == Running /\ stack[t] # <<>> /\ stack[t][1].at = at
Self(t)       == stack[t][1].s

Start(t, frames)  == stack' = [stack EXCEPT ![t] = frames]
Become(t, frames) == stack' = [stack EXCEPT ![t] = frames \o Tail(@)]
Return(t)         == Become(t, <<>>)
ReturnValue(t, v) == Return(t) /\ ret' = [ret EXCEPT ![t] = v]

Set(f, s, v) == [f EXCEPT ![s] = v]

-----------------------------------------------------------------------------
Init ==
  /\ mLock = Nobody /\ mActivated = FALSE
  /\ mAcceptedCount = 0 /\ mRemovedCount = 0
  /\ mGameSession = NoGame /\ exitCode = "running"
  /\ mConnected = [s \in Player |-> FALSE]
  /\ mPlayerSessionId = [s \in Player |-> NoId]
  /\ mSendBufferLock = [s \in Player |-> Nobody]
  /\ outbox = [s \in Player |-> <<>>]
  /\ send = [s \in Player |-> "none"]
  /\ sending = [s \in Player |-> 0]
  /\ recv = [s \in Player |-> "off"]
  /\ socketOpen = [s \in Player |-> FALSE]
  /\ stack = [t \in Thread |-> <<>>] /\ ret = [t \in Thread |-> TRUE]
  /\ gameStatus = "none"
  /\ service = [s \in Player |-> "none"]
  /\ client = [s \in Player |-> "out"]
  /\ chats = 0 /\ inbox = [s \in Player |-> <<>>]
  /\ got = [s \in Player |-> <<>>]

(* The end of InitializeGameLift: ProcessReady has succeeded, so callbacks *)
(* may already be running.                                                 *)
InitializeGameLift ==
  /\ Running /\ ~ mActivated
  /\ mActivated' = TRUE /\ mAcceptedCount' = 0 /\ mRemovedCount' = 0
  /\ UNCHANGED <<mLock, mGameSession, exitCode, sessions, threads, world>>

(* The accept loop, which starts after InitializeGameLift, makes a session *)
(* for a connecting client; OnConnect posts its first receive.             *)
OnConnect(s) ==
  /\ Running /\ mActivated
  /\ client[s] = "out" /\ service[s] = "reserved"
  /\ client' = Set(client, s, "connected")
  /\ mConnected' = Set(mConnected, s, TRUE)
  /\ socketOpen' = Set(socketOpen, s, TRUE)
  /\ recv' = Set(recv, s, "posted")
  /\ UNCHANGED <<manager, mPlayerSessionId, mSendBufferLock, outbox, send,
                 sending, threads, gameStatus, service, chats, inbox, got>>

-----------------------------------------------------------------------------
(* The SDK callbacks.                                                      *)

CallOnStartGameSession ==
  /\ Running /\ Idle(Sdk) /\ gameStatus = "none"
  /\ Start(Sdk, <<[at |-> "OnStartGameSession"]>>)
  /\ UNCHANGED <<manager, sessions, ret, world>>

(* Mutant: the lock is not taken.                                          *)
OnStartGameSessionUnlocked ==
  /\ Stands(Sdk, "OnStartGameSession")
  /\ gameStatus' = "active"
  /\ Become(Sdk, <<[at |-> "CreateGameSession"]>>)
  /\ UNCHANGED <<manager, sessions, ret, service, client, chats, inbox, got>>

(* Under mLock: the service is told that the game session is active, and   *)
(* players may come, before mGameSession is created.                       *)
OnStartGameSession ==
  /\ Stands(Sdk, "OnStartGameSession") /\ mLock = Nobody
  /\ mLock' = Sdk
  /\ gameStatus' = "active"
  /\ Become(Sdk, <<[at |-> "CreateGameSession"]>>)
  /\ UNCHANGED <<mActivated, mAcceptedCount, mRemovedCount, mGameSession,
                 exitCode, sessions, ret, service, client, chats, inbox, got>>

CreateGameSession ==
  /\ Stands(Sdk, "CreateGameSession")
  /\ mGameSession' = {}
  /\ mLock' = Nobody
  /\ Return(Sdk)
  /\ UNCHANGED <<mActivated, mAcceptedCount, mRemovedCount, exitCode,
                 sessions, ret, world>>

CallOnProcessTerminate ==
  /\ Running /\ ServiceMayTerminate
  /\ Idle(Sdk)
  /\ Start(Sdk, <<[at |-> "OnProcessTerminate"]>>)
  /\ UNCHANGED <<manager, sessions, ret, world>>

(* TerminateGameSession: the game session is dropped and the process ends. *)
TerminateGameSession(code) ==
  /\ mGameSession' = NoGame /\ mActivated' = FALSE /\ exitCode' = code

OnProcessTerminate ==
  /\ Stands(Sdk, "OnProcessTerminate") /\ mLock = Nobody
  /\ IF mActivated
     THEN TerminateGameSession("ordered")
     ELSE UNCHANGED <<mGameSession, mActivated, exitCode>>
  /\ Return(Sdk)
  /\ UNCHANGED <<mLock, mAcceptedCount, mRemovedCount, sessions, ret, world>>

-----------------------------------------------------------------------------
(* Players entering and leaving.                                           *)

(* AcceptPlayerSession under mLock: the service knows the reservation, the *)
(* player enters the game session; otherwise the session is disconnected.  *)
PlayerLogin(t) ==
  /\ Stands(t, "PlayerLogin") /\ mLock = Nobody
  /\ LET s == Self(t)
     IN IF service[s] = "reserved"
        THEN /\ service' = Set(service, s, "active")
             /\ mAcceptedCount' = mAcceptedCount + 1
             /\ mGameSession' = mGameSession \cup {s}
             /\ Become(t, <<On("SetPlayerId", s)>>)
        ELSE /\ Become(t, <<On("Disconnect", s)>>)
             /\ UNCHANGED <<service, mAcceptedCount, mGameSession>>
  /\ UNCHANGED <<mLock, mActivated, mRemovedCount, exitCode, sessions, ret,
                 gameStatus, client, chats, inbox, got>>

(* The id is stored only now, outside mLock; then LoginResult is posted.   *)
SetPlayerId(t) ==
  /\ Stands(t, "SetPlayerId")
  /\ mPlayerSessionId' = Set(mPlayerSessionId, Self(t), Self(t))
  /\ Become(t, <<Packet("PostSend", Self(t), Message("LoginResult", Self(t), 0))>>)
  /\ UNCHANGED <<manager, mConnected, mSendBufferLock, outbox, send, sending,
                 recv, socketOpen, ret, world>>

(* Mutant: the termination test counts the acceptances only.               *)
CheckTerminateOnAccepted(accepted, removed) ==
  accepted >= MAX_PLAYER_PER_GAME /\ mActivated

(* Mutant: one removal too many is waited for.                             *)
CheckTerminateTooLate(accepted, removed) ==
  /\ accepted >= MAX_PLAYER_PER_GAME
  /\ removed > MAX_PLAYER_PER_GAME
  /\ mActivated

(* CheckTerminateGameSession: accepted full, but no ones here.             *)
CheckTerminateGameSession(accepted, removed) ==
  /\ accepted >= MAX_PLAYER_PER_GAME
  /\ removed >= MAX_PLAYER_PER_GAME
  /\ mActivated

(* RemovePlayerSession under mLock; the service refuses a player it does   *)
(* not have (any more).                                                    *)
RemovePlayerSession(t) ==
  /\ Stands(t, "RemovePlayerSession") /\ mLock = Nobody
  /\ LET s == Self(t)
         known == service[s] = "active"
         removed == IF known THEN mRemovedCount + 1 ELSE mRemovedCount
     IN /\ mRemovedCount' = removed
        /\ service' = IF known THEN Set(service, s, "completed") ELSE service
        /\ IF CheckTerminateGameSession(mAcceptedCount, removed)
           THEN TerminateGameSession("full")
           ELSE /\ mGameSession' = IF known THEN mGameSession \ {s}
                                   ELSE mGameSession
                /\ UNCHANGED <<mActivated, exitCode>>
  /\ Return(t)
  /\ UNCHANGED <<mLock, mAcceptedCount, sessions, ret, gameStatus, client,
                 chats, inbox, got>>

ClearPlayerId(t) ==
  /\ Stands(t, "ClearPlayerId")
  /\ mPlayerSessionId' = Set(mPlayerSessionId, Self(t), NoId)
  /\ Return(t)
  /\ UNCHANGED <<manager, mConnected, mSendBufferLock, outbox, send, sending,
                 recv, socketOpen, ret, world>>

PlayerLogout(s) ==
  <<On("RemovePlayerSession", s), On("ClearPlayerId", s),
    On("Disconnect", s)>>

-----------------------------------------------------------------------------
(* Disconnect, with PlayerSession::OnDisconnect.                           *)

Disconnect(t) ==
  /\ Stands(t, "Disconnect")
  /\ LET s == Self(t)
     IN /\ mConnected' = Set(mConnected, s, FALSE)
        /\ IF mConnected[s]
           THEN Become(t, <<On("OnDisconnect", s), On("closesocket", s)>>)
           ELSE Return(t)
  /\ UNCHANGED <<manager, mPlayerSessionId, mSendBufferLock, outbox, send,
                 sending, recv, socketOpen, ret, world>>

(* Mutant: OnDisconnect leaves the player in the game session.             *)
OnDisconnectForgetsPlayer(t) ==
  /\ Stands(t, "OnDisconnect")
  /\ IF mPlayerSessionId[Self(t)] # NoId
     THEN Become(t, <<On("ClearPlayerId", Self(t))>>)
     ELSE Return(t)
  /\ UNCHANGED <<manager, sessions, ret, world>>

OnDisconnect(t) ==
  /\ Stands(t, "OnDisconnect")
  /\ IF mPlayerSessionId[Self(t)] # NoId
     THEN Become(t, <<On("RemovePlayerSession", Self(t)),
                      On("ClearPlayerId", Self(t))>>)
     ELSE Return(t)
  /\ UNCHANGED <<manager, sessions, ret, world>>

(* closesocket makes the kernel give up the operations on the socket.      *)
CloseSocket(t) ==
  /\ Stands(t, "closesocket")
  /\ socketOpen' = Set(socketOpen, Self(t), FALSE)
  /\ Return(t)
  /\ UNCHANGED <<manager, mConnected, mPlayerSessionId, mSendBufferLock,
                 outbox, send, sending, recv, ret, world>>

-----------------------------------------------------------------------------
(* Sending and broadcasting.                                               *)

(* FlushSend of session s on thread t, whose remaining frames are rest:    *)
(* WSASend carries every packet in box, or fails and the session is        *)
(* disconnected while its mSendBufferLock, and whatever else the thread    *)
(* holds, stays locked.                                                    *)
FlushSend(t, s, box, rest, ok) ==
  \/ /\ socketOpen[s]
     /\ send' = Set(send, s, "flying") /\ sending' = Set(sending, s, Len(box))
     /\ stack' = Set(stack, t, rest) /\ ret' = Set(ret, t, ok)
     /\ UNCHANGED mSendBufferLock
  \/ /\ ~ socketOpen[s] \/ SendMayFail
     /\ mSendBufferLock' = Set(mSendBufferLock, s, t)
     /\ send' = Set(send, s, "none") /\ sending' = Set(sending, s, 0)
     /\ stack' = Set(stack, t, <<On("Disconnect", s), On("FlushFailed", s)>>
                               \o rest)
     /\ UNCHANGED ret

FlushFailed(t) ==
  /\ Stands(t, "FlushFailed")
  /\ mSendBufferLock' = Set(mSendBufferLock, Self(t), Nobody)
  /\ ReturnValue(t, FALSE)
  /\ UNCHANGED <<manager, mConnected, mPlayerSessionId, outbox, send, sending,
                 recv, socketOpen, world>>

PostSend(t) ==
  /\ Stands(t, "PostSend")
  /\ IF mConnected[Self(t)]
     THEN Become(t, <<Packet("PostSendLock", Self(t), stack[t][1].m)>>)
          /\ UNCHANGED ret
     ELSE ReturnValue(t, FALSE)
  /\ UNCHANGED <<manager, sessions, world>>

(* Under mSendBufferLock: refuse the packet when the buffer is full, queue *)
(* it behind a pending send, or flush.                                     *)
PostSendLock(t) ==
  /\ Stands(t, "PostSendLock") /\ mSendBufferLock[Self(t)] = Nobody
  /\ LET s == Self(t)
         box == Append(outbox[s], stack[t][1].m)
     IN \/ /\ Len(box) > SendCap
           /\ ReturnValue(t, FALSE)
           /\ UNCHANGED <<outbox, send, sending, mSendBufferLock>>
        \/ /\ Len(box) <= SendCap /\ send[s] # "none"
           /\ outbox' = Set(outbox, s, box)
           /\ ReturnValue(t, TRUE)
           /\ UNCHANGED <<send, sending, mSendBufferLock>>
        \/ /\ Len(box) <= SendCap /\ send[s] = "none"
           /\ outbox' = Set(outbox, s, box)
           /\ FlushSend(t, s, box, Tail(stack[t]), TRUE)
  /\ UNCHANGED <<manager, mConnected, mPlayerSessionId, recv, socketOpen,
                 world>>

(* Mutant: the lock is released once the players are known.                *)
BroadcastMessageUnlocked(t) ==
  /\ Stands(t, "BroadcastMessage") /\ mLock = Nobody
  /\ Become(t, <<Loop(stack[t][1].m, mGameSession)>>)
  /\ UNCHANGED <<manager, sessions, ret, world>>

(* mLock is held until every player of the game session has been posted    *)
(* to.                                                                     *)
BroadcastMessage(t) ==
  /\ Stands(t, "BroadcastMessage") /\ mLock = Nobody
  /\ mLock' = t
  /\ Become(t, <<Loop(stack[t][1].m, mGameSession)>>)
  /\ UNCHANGED <<mActivated, mAcceptedCount, mRemovedCount, mGameSession,
                 exitCode, sessions, ret, world>>

(* Mutant: the lock is kept when the broadcast is over.                    *)
BroadcastLoopKeepsLock(t) ==
  /\ Stands(t, "BroadcastLoop")
  /\ LET f == stack[t][1]
     IN \/ f.todo = {} /\ Return(t)
        \/ \E s \in f.todo :
             Become(t, <<Packet("PostSend", s, f.m), On("BroadcastResult", s),
                         Loop(f.m, f.todo \ {s})>>)
  /\ UNCHANGED <<manager, sessions, ret, world>>

BroadcastLoop(t) ==
  /\ Stands(t, "BroadcastLoop")
  /\ LET f == stack[t][1]
     IN \/ /\ f.todo = {}
           /\ mLock' = Nobody
           /\ Return(t)
        \/ \E s \in f.todo :
             /\ Become(t, <<Packet("PostSend", s, f.m), On("BroadcastResult", s),
                            Loop(f.m, f.todo \ {s})>>)
             /\ UNCHANGED mLock
  /\ UNCHANGED <<mActivated, mAcceptedCount, mRemovedCount, mGameSession,
                 exitCode, sessions, ret, world>>

BroadcastResult(t) ==
  /\ Stands(t, "BroadcastResult")
  /\ IF ret[t] THEN Return(t) ELSE Become(t, <<On("Disconnect", Self(t))>>)
  /\ UNCHANGED <<manager, sessions, ret, world>>

-----------------------------------------------------------------------------
(* DoIocpJob: completions taken by an idle I/O thread.                     *)

(* A send that is done is handed to SendCompletion; a failed one           *)
(* disconnects the session and leaves its pending count as it is.          *)
SendDone(t, s) ==
  /\ Running /\ Idle(t) /\ t \in Worker
  /\ \/ send[s] = "done" /\ Start(t, <<On("SendCompletion", s)>>)
     \/ send[s] = "failed" /\ Start(t, <<On("Disconnect", s)>>)
  /\ send' = Set(send, s, "handled")
  /\ UNCHANGED <<manager, mConnected, mPlayerSessionId, mSendBufferLock,
                 outbox, sending, recv, socketOpen, ret, world>>

SendCompletion(t) ==
  /\ Stands(t, "SendCompletion") /\ mSendBufferLock[Self(t)] = Nobody
  /\ LET s == Self(t)
         rest == SubSeq(outbox[s], sending[s] + 1, Len(outbox[s]))
     IN /\ outbox' = Set(outbox, s, rest)
        /\ IF rest # <<>>
           THEN FlushSend(t, s, rest, <<>>, ret[t])
           ELSE /\ send' = Set(send, s, "none")
                /\ sending' = Set(sending, s, 0)
                /\ Return(t)
                /\ UNCHANGED <<mSendBufferLock, ret>>
  /\ UNCHANGED <<manager, mConnected, mPlayerSessionId, recv, socketOpen,
                 world>>

(* The handler of a request.                                               *)
Handler(s, request) ==
  CASE request.kind = "login" -> <<On("PlayerLogin", s)>>
    [] request.kind = "exit"  -> PlayerLogout(s)
    [] request.kind = "chat"  -> <<Packet("BroadcastMessage", s, request)>>

(* Handling the next packet of the receive buffer.                         *)
HandleNext(s) == Handler(s, Head(inbox[s]))

(* Requests have arrived and OnRead handles the first, or the receive      *)
(* failed or found the end of the stream.                                  *)
RecvCompletion(t, s) ==
  /\ Running /\ Idle(t) /\ t \in Worker
  /\ recv[s] = "posted"
  /\ \/ /\ socketOpen[s] /\ inbox[s] # <<>>
        /\ recv' = Set(recv, s, "busy")
        /\ inbox' = Set(inbox, s, Tail(inbox[s]))
        /\ Start(t, HandleNext(s) \o <<On("OnRead", s), On("PreRecv", s)>>)
     \/ /\ ~ socketOpen[s] \/ (client[s] = "hung up" /\ inbox[s] = <<>>)
        /\ recv' = Set(recv, s, "off")
        /\ Start(t, <<On("Disconnect", s)>>)
        /\ UNCHANGED inbox
  /\ UNCHANGED <<manager, mConnected, mPlayerSessionId, mSendBufferLock,
                 outbox, send, sending, socketOpen, ret, gameStatus, service,
                 client, chats, got>>

(* The loop of OnRead: further packets of the same receive are handled,    *)
(* also when the session was disconnected in the meantime; packets that    *)
(* arrive later wait for the next receive.                                 *)
OnRead(t) ==
  /\ Stands(t, "OnRead")
  /\ LET s == Self(t)
     IN \/ /\ inbox[s] # <<>>
           /\ inbox' = Set(inbox, s, Tail(inbox[s]))
           /\ Become(t, HandleNext(s) \o <<On("OnRead", s)>>)
        \/ Return(t) /\ UNCHANGED inbox
  /\ UNCHANGED <<manager, sessions, ret, gameStatus, service, client, chats,
                 got>>

PreRecv(t) ==
  /\ Stands(t, "PreRecv")
  /\ LET s == Self(t)
     IN IF mConnected[s] /\ socketOpen[s]
        THEN recv' = Set(recv, s, "posted") /\ Return(t)
        ELSE recv' = Set(recv, s, "off")
             /\ Become(t, <<On("Disconnect", s)>>)
  /\ UNCHANGED <<manager, mConnected, mPlayerSessionId, mSendBufferLock,
                 outbox, send, sending, socketOpen, ret, world>>

-----------------------------------------------------------------------------
(* The kernel (external).                                                  *)

KernelSend(s) ==
  /\ Running /\ send[s] = "flying"
  /\ \/ /\ socketOpen[s]
        /\ got' = Set(got, s, got[s] \o SubSeq(outbox[s], 1, sending[s]))
        /\ send' = Set(send, s, "done")
     \/ /\ ~ socketOpen[s] \/ SendMayFail
        /\ send' = Set(send, s, "failed")
        /\ UNCHANGED got
  /\ UNCHANGED <<manager, mConnected, mPlayerSessionId, mSendBufferLock,
                 outbox, sending, recv, socketOpen, threads, gameStatus,
                 service, client, chats, inbox>>

-----------------------------------------------------------------------------
(* The clients: a player session is reserved while the game session has    *)
(* room, then the client connects, logs in, waits for the answer, sends    *)
(* chat or move requests and leaves, with an ExitRequest or without one.   *)

Reserve(s) ==
  /\ Running /\ gameStatus = "active" /\ service[s] = "none"
  /\ Cardinality({u \in Player : service[u] \in {"reserved", "active"}})
       < MAX_PLAYER_PER_GAME
  /\ service' = Set(service, s, "reserved")
  /\ UNCHANGED <<manager, sessions, threads, gameStatus, client, chats, inbox,
                 got>>

Request(s, m) == inbox' = Set(inbox, s, Append(inbox[s], m))

LoggedIn(s) ==
  /\ client[s] = "asked"
  /\ \E i \in 1 .. Len(got[s]) : got[s][i].kind = "LoginResult"

StartTest(s) ==
  /\ Running /\ client[s] = "connected"
  /\ client' = Set(client, s, "asked")
  /\ Request(s, Message("login", s, 0))
  /\ UNCHANGED <<manager, sessions, threads, gameStatus, service, chats, got>>

PlayTest(s) ==
  /\ Running /\ LoggedIn(s) /\ chats < MaxChats
  /\ chats' = chats + 1
  /\ Request(s, Message("chat", s, chats'))
  /\ UNCHANGED <<manager, sessions, threads, gameStatus, service, client, got>>

EndTest(s) ==
  /\ Running /\ LoggedIn(s)
  /\ client' = Set(client, s, "left")
  /\ Request(s, Message("exit", s, 0))
  /\ UNCHANGED <<manager, sessions, threads, gameStatus, service, chats, got>>

HangUp(s) ==
  /\ Running /\ client[s] = "asked"
  /\ client' = Set(client, s, "hung up")
  /\ UNCHANGED <<manager, sessions, threads, gameStatus, service, chats,
                 inbox, got>>

-----------------------------------------------------------------------------
ThreadStep(t) ==
  \/ PlayerLogin(t) \/ SetPlayerId(t) \/ RemovePlayerSession(t)
  \/ ClearPlayerId(t)
  \/ Disconnect(t) \/ OnDisconnect(t) \/ CloseSocket(t)
  \/ PostSend(t) \/ PostSendLock(t) \/ FlushFailed(t) \/ SendCompletion(t)
  \/ BroadcastMessage(t) \/ BroadcastLoop(t) \/ BroadcastResult(t)
  \/ OnRead(t) \/ PreRecv(t)
  \/ \E s \in Player : SendDone(t, s) \/ RecvCompletion(t, s)

SdkStep == OnStartGameSession \/ CreateGameSession \/ OnProcessTerminate

ClientStep(s) ==
  Reserve(s) \/ StartTest(s) \/ PlayTest(s) \/ EndTest(s) \/ HangUp(s)

(* The process is gone.                                                    *)
Ended == ~ Running /\ UNCHANGED vars

Next ==
  \/ InitializeGameLift \/ CallOnStartGameSession \/ CallOnProcessTerminate
  \/ SdkStep
  \/ \E s \in Player : OnConnect(s) \/ KernelSend(s) \/ ClientStep(s)
  \/ \E t \in Worker : ThreadStep(t)
  \/ Ended

(* Every thread is scheduled; the service starts a game session; the       *)
(* kernel finishes every send; the clients' timers make them play to the   *)
(* end.  Nothing makes the service terminate the process.                  *)
Fairness ==
  /\ WF_vars(InitializeGameLift) /\ WF_vars(CallOnStartGameSession)
  /\ WF_vars(SdkStep)
  /\ \A t \in Worker : WF_vars(ThreadStep(t))
  /\ \A s \in Player : /\ WF_vars(OnConnect(s)) /\ WF_vars(KernelSend(s))
                       /\ WF_vars(ClientStep(s))

Spec == Init /\ [][Next]_vars /\ Fairness

-----------------------------------------------------------------------------
(* Properties.                                                             *)

(* A login or a broadcast that gets mLock finds mGameSession created,      *)
(* although players may come as soon as ActivateGameSession was called.    *)
GameSessionThere ==
  \A t \in Worker :
    (Stands(t, "PlayerLogin") \/ Stands(t, "BroadcastMessage"))
      /\ mLock = Nobody => mGameSession # NoGame

(* Frames that concern session s.                                          *)
Involved(t, s) ==
  \E i \in 1 .. Len(stack[t]) :
     "s" \in DOMAIN stack[t][i] /\ stack[t][i].s = s

(* No ghosts: a player stays in the game session only while its connection *)
(* lives or some thread is still working on that session.                  *)
NoGhost ==
  mGameSession # NoGame =>
    \A s \in mGameSession : mConnected[s] \/ \E t \in Thread : Involved(t, s)

(* Any two clients see the broadcasts that both of them receive in the     *)
(* same order.                                                             *)
SameOrder ==
  \A s, u \in Player :
    \A i, j \in 1 .. Len(got[s]) : \A k, l \in 1 .. Len(got[u]) :
      i < j /\ got[s][i] = got[u][k] /\ got[s][j] = got[u][l] => k < l

(* The manager implements the game session's life cycle: each player       *)
(* enters and leaves once, and the session ends by itself exactly when it  *)
(* has been full and the last player leaves.                               *)
Life == INSTANCE GameSessionLife WITH
          Full <- MAX_PLAYER_PER_GAME,
          phase <- IF ~ Running THEN "ended"
                   ELSE IF mGameSession = NoGame THEN "none" ELSE "active",
          here <- {s \in Player : service[s] = "active"},
          gone <- {s \in Player : service[s] = "completed"}
LivesAsPromised == Life!Spec

(* The game session of players that all leave comes to an end, and the     *)
(* process with it.                                                        *)
Terminates == <> ~ Running

(* OnProcessTerminate, called on an activated process, shuts it down.      *)
ShutdownCompletes ==
  (Stands(Sdk, "OnProcessTerminate") /\ mActivated) ~> ~ Running

(* CheckTerminateGameSession's "accepted full, but no ones here": once     *)
(* enough players were accepted, every session is closed and no thread has *)
(* anything left to do, the process has ended.                             *)
EndsWhenEmpty ==
  mAcceptedCount >= MAX_PLAYER_PER_GAME
    /\ (\A s \in Player : service[s] \in {"active", "completed"})
    /\ (\A s \in Player : ~ mConnected[s])
    /\ (\A t \in Thread : Idle(t))
  => ~ Running
=============================================================================
