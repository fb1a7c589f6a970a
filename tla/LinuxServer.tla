---------------------------- MODULE LinuxServer -----------------------------
(***************************************************************************)
(* The Linux game server: one thread runs ClientManager::EventLoop (wait   *)
(* for a batch of epoll events, handle each, flush every client's send     *)
(* buffer), the SDK's thread runs the GameLift callbacks without a lock.   *)
(*                                                                         *)
(* Sockets are edge-triggered: an event that is not read to the end is     *)
(* lost.  Events are a batch taken before they are handled, so a handler   *)
(* may remove a session whose event is still to come.  A session is owned  *)
(* by mClientList, by mPlayerSessions and by the handler that runs; the    *)
(* last owner to let go closes its descriptor, which may be given out      *)
(* again at once.                                                          *)
(*                                                                         *)
(* Abstractions: a session is named by its player; packets arrive whole;   *)
(* the send buffer is a count of packets, at most SendCap; the setsockopt  *)
(* of Disconnect, which cannot fail on an open socket, succeeds.  DoTasks  *)
(* has nothing to do (nobody starts OnTick) and ECHO_MODE is not defined.  *)
(***************************************************************************)
EXTENDS Integers, Sequences, FiniteSets

CONSTANTS
  Player,               \* the players, and their sessions
  Fd,                   \* the descriptors accept may give out
  MAX_PLAYER_PER_GAME,
  SendCap,              \* bound: packets a send buffer holds
  Window,               \* bound: packets written and not read by the client
  MaxChats,             \* bound: chat and move requests of all clients
  Departure,            \* how clients go: an "exit" packet, an "other" of
                        \* unknown type, connection "reset" or closed ("fin")
  ServiceMayTerminate   \* the service may call OnProcessTerminate

NoFd      == 0
NoSession == "no session"
NoId      == "no id"
Listen    == 0             \* mListenSocket, as a member of a batch

ASSUME LinuxServerAssumption ==
  /\ NoSession \notin Player /\ NoId \notin Player
  /\ Fd \subseteq Nat \ {0} /\ IsFiniteSet(Fd)
  /\ MAX_PLAYER_PER_GAME \in Nat \ {0}
  /\ SendCap \in Nat \ {0} /\ Window \in Nat \ {0} /\ MaxChats \in Nat
  /\ Departure \subseteq {"exit", "other", "reset", "fin"}
  /\ ServiceMayTerminate \in BOOLEAN

VARIABLES
  \* GameLiftManager
  mActivated, mAcceptedCount, mRemovedCount, mPlayerSessions,
  \* ClientManager and the kernel's epoll instance
  mClientList,       \* descriptor -> session or NoSession
  watched,           \* the descriptors registered with epoll
  ready,             \* those with an unreported edge
  \* the sessions
  mConnected, mPlayerSessionId, mSocket,
  outbox,            \* how many packets mSendBuffer holds
  \* the event loop: where it stands, the events left of the batch, the
  \* session in OnReceive, the sessions left of a loop over sessions
  at, batch, cur, todo,
  \* the SDK's thread, and the service
  sdk, gameStatus,
  service,           \* player -> "none", "reserved", "active", "completed"
  \* the clients
  backlog,           \* connections waiting to be accepted
  peer,              \* "out", "open", "fin", "reset", or "closed" by us
  said,              \* "nothing", "login" or "leaving"
  inbox,             \* requests the server has not read
  inflight, heard,   \* packets on their way, was LoginResult received
  chats              \* chat requests so far

manager  == <<mActivated, mAcceptedCount, mRemovedCount, mPlayerSessions>>
clients  == <<mClientList, watched, ready>>
sessions == <<mConnected, mPlayerSessionId, mSocket, outbox>>
loop     == <<at, batch, cur, todo>>
lift     == <<sdk, gameStatus, service>>
outside  == <<backlog, peer, said, inbox, inflight, heard, chats>>
vars     == <<manager, clients, sessions, loop, lift, outside>>

Set(f, s, v) == [f EXCEPT ![s] = v]
Least(S)     == CHOOSE n \in S : \A k \in S : n <= k
Used         == {mSocket[s] : s \in Player} \ {NoFd}

Init ==
  /\ mActivated = FALSE /\ mAcceptedCount = 0 /\ mRemovedCount = 0
  /\ mPlayerSessions = {}
  /\ mClientList = [f \in Fd |-> NoSession] /\ watched = {} /\ ready = {}
  /\ mConnected = [s \in Player |-> FALSE]
  /\ mPlayerSessionId = [s \in Player |-> NoId]
  /\ mSocket = [s \in Player |-> NoFd] /\ outbox = [s \in Player |-> 0]
  /\ at = "init" /\ batch = {} /\ cur = NoSession /\ todo = {}
  /\ sdk = "idle" /\ gameStatus = "none"
  /\ service = [s \in Player |-> "none"]
  /\ backlog = {} /\ peer = [s \in Player |-> "out"]
  /\ said = [s \in Player |-> "nothing"] /\ inbox = [s \in Player |-> <<>>]
  /\ inflight = [s \in Player |-> 0] /\ heard = [s \in Player |-> FALSE]
  /\ chats = 0

-----------------------------------------------------------------------------
(* The start, and the SDK's thread.                                        *)

(* The end of InitializeGameLift: ProcessReady has succeeded, callbacks    *)
(* may come before the flag is set.                                        *)
InitializeGameLift ==
  /\ at = "init" /\ at' = "wait"
  /\ mActivated' = TRUE /\ mAcceptedCount' = 0 /\ mRemovedCount' = 0
  /\ UNCHANGED <<mPlayerSessions, clients, sessions, batch, cur, todo, lift,
                 outside>>

OnStartGameSession ==
  /\ sdk = "idle" /\ gameStatus = "none"
  /\ gameStatus' = "active"
  /\ UNCHANGED <<manager, clients, sessions, loop, sdk, service, outside>>

(* OnProcessTerminate: TerminateGameSession and ProcessEnding ...          *)
OnProcessTerminate ==
  /\ ServiceMayTerminate /\ sdk = "idle"
  /\ sdk' = "OnProcessTerminate" /\ gameStatus' = "ended"
  /\ UNCHANGED <<manager, clients, sessions, loop, service, outside>>

(* ... and the flag, which the event loop may be writing too.              *)
Deactivate ==
  /\ sdk = "OnProcessTerminate" /\ sdk' = "returned"
  /\ mActivated' = FALSE
  /\ UNCHANGED <<mAcceptedCount, mRemovedCount, mPlayerSessions, clients,
                 sessions, loop, gameStatus, service, outside>>

-----------------------------------------------------------------------------
(* Players and sessions leaving.                                           *)

(* Mutant: the termination test counts the acceptances only.               *)
CheckTerminateOnAccepted(removed) == mAcceptedCount >= MAX_PLAYER_PER_GAME

(* CheckTerminateGameSession: accepted full, but no ones here.             *)
CheckTerminateGameSession(removed) ==
  mAcceptedCount >= MAX_PLAYER_PER_GAME /\ removed >= MAX_PLAYER_PER_GAME

(* RemovePlayerSession; the service refuses a player that is not in an     *)
(* active game session.  The test for the end follows in either case.      *)
RemovePlayerSession(s) ==
  LET known   == service[s] = "active" /\ gameStatus = "active"
      removed == IF known THEN mRemovedCount + 1 ELSE mRemovedCount
      over    == CheckTerminateGameSession(removed)
  IN /\ mRemovedCount' = removed
     /\ mPlayerSessions' = IF known THEN mPlayerSessions \ {s}
                           ELSE mPlayerSessions
     /\ service' = IF known THEN Set(service, s, "completed") ELSE service
     /\ gameStatus' = IF over THEN "ended" ELSE gameStatus
     /\ mActivated' = IF over THEN FALSE ELSE mActivated

(* Mutant: a player that is logged in is not removed.                      *)
OnDisconnectForgetsPlayer(s) ==
  /\ mPlayerSessionId' = Set(mPlayerSessionId, s, NoId)
  /\ UNCHANGED <<manager, service, gameStatus>>

OnDisconnect(s) ==
  IF mPlayerSessionId[s] # NoId
  THEN RemovePlayerSession(s)
       /\ mPlayerSessionId' = Set(mPlayerSessionId, s, NoId)
       /\ UNCHANGED mAcceptedCount
  ELSE UNCHANGED <<manager, service, gameStatus, mPlayerSessionId>>

(* Mutant: the entry of the list is kept.                                  *)
DeleteClientKeepsEntry(s) ==
  /\ watched' = watched \ {mSocket[s]}
  /\ ready' = ready \ {mSocket[s]}
  /\ UNCHANGED mClientList

DeleteClient(s) ==
  /\ watched' = watched \ {mSocket[s]}
  /\ ready' = ready \ {mSocket[s]}
  /\ mClientList' = Set(mClientList, mSocket[s], NoSession)

Disconnect(s) ==
  IF mConnected[s]
  THEN /\ mConnected' = Set(mConnected, s, FALSE)
       /\ OnDisconnect(s)
       /\ DeleteClient(s)
  ELSE UNCHANGED <<mConnected, mPlayerSessionId, manager, service,
                   gameStatus, clients>>

(* ~ClientSession: what no shared_ptr owns after the step is destroyed and *)
(* its socket closed, which resets the connection (no linger).             *)
Owned(s) == cur = s \/ s \in mPlayerSessions
              \/ \E f \in Fd : mClientList[f] = s

CloseUnowned ==
  /\ mSocket' = [s \in Player |-> IF Owned(s)' THEN mSocket[s] ELSE NoFd]
  /\ peer' = [s \in Player |-> IF mSocket[s] # NoFd /\ ~ Owned(s)'
                               THEN "closed" ELSE peer[s]]

-----------------------------------------------------------------------------
(* The event loop.                                                         *)

Pending == ready \cup (IF backlog # {} THEN {Listen} ELSE {})

(* Mutant: when epoll_wait times out nothing is flushed.                   *)
EpollWaitSkipsFlush ==
  /\ at = "wait" /\ Pending # {}
  /\ at' = "events" /\ batch' = Pending /\ ready' = {}
  /\ UNCHANGED <<manager, mClientList, watched, sessions, cur, todo, lift,
                 outside>>

(* epoll_wait: all that is ready, or nothing after POLL_INTERVAL.          *)
EpollWait ==
  /\ at = "wait"
  /\ at' = "events" /\ batch' = Pending /\ ready' = {}
  /\ UNCHANGED <<manager, mClientList, watched, sessions, cur, todo, lift,
                 outside>>

(* An event of the listening socket: accept, CreateClient, OnConnect,      *)
(* EPOLL_CTL_ADD, which reports data that is already there; or accept      *)
(* fails for want of a descriptor.                                         *)
AcceptClient ==
  /\ at = "events" /\ Listen \in batch
  /\ batch' = batch \ {Listen}
  /\ IF backlog = {} \/ Fd \subseteq Used
     THEN UNCHANGED <<backlog, mSocket, mClientList, mConnected, watched,
                      ready>>
     ELSE LET f == Least(Fd \ Used)
          IN \E s \in backlog :
               /\ backlog' = backlog \ {s}
               /\ mSocket' = Set(mSocket, s, f)
               /\ mClientList' = IF mClientList[f] = NoSession
                                 THEN Set(mClientList, f, s) ELSE mClientList
               /\ mConnected' = Set(mConnected, s, TRUE)
               /\ watched' = watched \cup {f}
               /\ ready' = IF inbox[s] # <<>> \/ peer[s] # "open"
                           THEN ready \cup {f} ELSE ready
  /\ UNCHANGED <<manager, mPlayerSessionId, outbox, at, cur, todo, lift,
                 peer, said, inbox, inflight, heard, chats>>

(* An event of a client: mClientList[fd]->OnReceive().  Without an entry   *)
(* the null pointer is called.                                             *)
ClientEvent ==
  /\ at = "events"
  /\ \E f \in batch \ {Listen} :
       /\ batch' = batch \ {f}
       /\ cur' = mClientList[f]
       /\ at' = IF mClientList[f] = NoSession THEN "crashed" ELSE "receive"
  /\ UNCHANGED <<manager, clients, sessions, todo, lift, outside>>

(* Mutant: the buffers are flushed while events are left.                  *)
FlushBetweenEvents ==
  /\ at = "events"
  /\ at' = "flush"
  /\ todo' = {mClientList[f] : f \in Fd} \ {NoSession}
  /\ UNCHANGED <<manager, clients, sessions, batch, cur, lift, outside>>

(* The batch is done: FlushClientSend starts over mClientList.             *)
EventsDone ==
  /\ at = "events" /\ batch = {}
  /\ at' = "flush"
  /\ todo' = {mClientList[f] : f \in Fd} \ {NoSession}
  /\ UNCHANGED <<manager, clients, sessions, batch, cur, lift, outside>>

-----------------------------------------------------------------------------
(* OnReceive and the packet handlers, for session cur.                     *)

(* OnReceive returns.                                                      *)
Received == at' = "events" /\ cur' = NoSession

PlayerLogin(s) ==
  LET ok   == service[s] = "reserved" /\ gameStatus = "active"
      sent == mConnected[s] /\ outbox[s] < SendCap
  IN /\ service' = IF ok THEN Set(service, s, "active") ELSE service
     /\ mAcceptedCount' = IF ok THEN mAcceptedCount + 1 ELSE mAcceptedCount
     /\ mPlayerSessions' = IF ok THEN mPlayerSessions \cup {s}
                           ELSE mPlayerSessions
     /\ mPlayerSessionId' = IF ok THEN Set(mPlayerSessionId, s, s)
                            ELSE mPlayerSessionId
     /\ outbox' = IF ok /\ sent THEN Set(outbox, s, outbox[s] + 1) ELSE outbox
     /\ at' = IF ok /\ sent THEN "receive" ELSE "disconnect"
     /\ UNCHANGED <<mActivated, mRemovedCount, gameStatus, todo>>

(* PlayerLogout up to its Disconnect.                                      *)
PlayerLogout(s) ==
  /\ RemovePlayerSession(s)
  /\ mPlayerSessionId' = Set(mPlayerSessionId, s, NoId)
  /\ at' = "disconnect"
  /\ UNCHANGED <<mAcceptedCount, outbox, todo>>

(* DispatchPacket refuses a packet type out of range.                      *)
RefusePacket ==
  /\ at' = "disconnect"
  /\ UNCHANGED <<manager, service, gameStatus, mPlayerSessionId, outbox, todo>>

Broadcast ==
  /\ at' = "broadcast" /\ todo' = mPlayerSessions
  /\ UNCHANGED <<manager, service, gameStatus, mPlayerSessionId, outbox>>

Handler(s, request) ==
  \/ request = "login" /\ PlayerLogin(s)
  \/ request = "exit"  /\ PlayerLogout(s)
  \/ request = "chat"  /\ Broadcast
  \/ request = "other" /\ RefusePacket

(* read returns data and DispatchPacket handles it, whether or not the     *)
(* session is still connected.  A packet that is refused stays in front of *)
(* all that follows it, which is never handled.                            *)
OnReceive ==
  /\ at = "receive" /\ inbox[cur] # <<>>
  /\ inbox' = Set(inbox, cur, IF Head(inbox[cur]) = "other" THEN <<>>
                              ELSE Tail(inbox[cur]))
  /\ Handler(cur, Head(inbox[cur]))
  /\ UNCHANGED <<clients, mConnected, mSocket, batch, cur, sdk, backlog, peer,
                 said, inflight, heard, chats>>

(* The end of a handler that disconnects its session; OnReceive reads on.  *)
HandlerDisconnect ==
  /\ at = "disconnect" /\ at' = "receive"
  /\ Disconnect(cur)
  /\ UNCHANGED <<mSocket, outbox, batch, cur, todo, sdk, outside>>

(* Mutant: OnReceive returns after one read.                               *)
ReadOnce ==
  /\ at = "receive" /\ peer[cur] = "open"
  /\ Received
  /\ UNCHANGED <<manager, clients, mConnected, mPlayerSessionId, outbox,
                 batch, todo, lift, backlog, said, inbox, inflight, heard,
                 chats>>
  /\ CloseUnowned

(* EAGAIN: no more data.                                                   *)
ReadAgain ==
  /\ at = "receive" /\ inbox[cur] = <<>> /\ peer[cur] = "open"
  /\ Received
  /\ UNCHANGED <<manager, clients, mConnected, mPlayerSessionId, outbox,
                 batch, todo, lift, backlog, said, inbox, inflight, heard,
                 chats>>
  /\ CloseUnowned

(* The connection was reset: Disconnect.                                   *)
ReadError ==
  /\ at = "receive" /\ inbox[cur] = <<>> /\ peer[cur] = "reset"
  /\ Disconnect(cur)
  /\ Received
  /\ UNCHANGED <<outbox, batch, todo, sdk, backlog, said, inbox, inflight,
                 heard, chats>>
  /\ CloseUnowned

(* End of file: read returns 0, which is neither an error nor EAGAIN, and  *)
(* is read again.                                                          *)
ReadZero ==
  /\ at = "receive" /\ inbox[cur] = <<>> /\ peer[cur] = "fin"
  /\ UNCHANGED vars

-----------------------------------------------------------------------------
(* BroadcastMessage over mPlayerSessions, in the order of the pointers.    *)

(* SendRequest finds insufficient capacity in mSendBuffer.                 *)
NoRoom(s) == mConnected[s] /\ outbox[s] = SendCap

Sent(S) == [s \in Player |-> IF s \in S /\ mConnected[s]
                             THEN outbox[s] + 1 ELSE outbox[s]]

BroadcastMessage ==
  /\ at = "broadcast" /\ \A s \in todo : ~ NoRoom(s)
  /\ outbox' = Sent(todo)
  /\ at' = "receive" /\ todo' = {}
  /\ UNCHANGED <<manager, clients, mConnected, mPlayerSessionId, mSocket,
                 batch, cur, lift, outside>>

(* A full buffer: SendRequest disconnects the session, which erases it     *)
(* from the set the loop runs over.  The loop's iterator and its reference *)
(* dangle: the process crashes, or goes on with some of the others.        *)
BroadcastDisconnect ==
  /\ at = "broadcast"
  /\ \E s \in todo : \E before \in SUBSET (todo \ {s}) :
       /\ NoRoom(s) /\ \A r \in before : ~ NoRoom(r)
       /\ outbox' = Sent(before)
       /\ Disconnect(s)
       /\ \/ at' = "crashed" /\ todo' = {}
          \/ at' = at /\ todo' \in SUBSET (todo \ (before \cup {s}))
  /\ UNCHANGED <<batch, cur, sdk, backlog, said, inbox, inflight, heard,
                 chats>>
  /\ CloseUnowned

-----------------------------------------------------------------------------
(* FlushClientSend, in the order of the descriptors.                       *)

Smallest(a, b) == IF a < b THEN a ELSE b
NextToFlush    == mClientList[Least({f \in Fd : mClientList[f] \in todo})]

(* SendFlush writes until the buffer is empty or the socket is full.       *)
FlushClientSend ==
  /\ at = "flush" /\ todo # {}
  /\ LET s == NextToFlush
         n == Smallest(outbox[s], Window - inflight[s])
     IN /\ outbox[s] = 0 \/ peer[s] # "reset"
        /\ outbox' = Set(outbox, s, outbox[s] - n)
        /\ inflight' = Set(inflight, s, inflight[s] + n)
        /\ todo' = todo \ {s}
  /\ UNCHANGED <<manager, clients, mConnected, mPlayerSessionId, mSocket, at,
                 batch, cur, lift, backlog, peer, said, inbox, heard, chats>>

(* write fails: Disconnect erases the entry the loop stands on.  The       *)
(* process crashes, or goes on with some of the others.                    *)
FlushFailed ==
  /\ at = "flush" /\ todo # {}
  /\ LET s == NextToFlush
     IN /\ outbox[s] > 0 /\ peer[s] = "reset"
        /\ Disconnect(s)
        /\ \/ at' = "crashed" /\ todo' = {}
           \/ at' = at /\ todo' \in SUBSET (todo \ {s})
  /\ UNCHANGED cur
  /\ UNCHANGED <<outbox, batch, sdk, backlog, said, inbox, inflight, heard,
                 chats>>
  /\ CloseUnowned

(* The next turn of the loop.                                              *)
FlushDone ==
  /\ at = "flush" /\ todo = {} /\ at' = "wait"
  /\ UNCHANGED <<manager, clients, sessions, batch, cur, todo, lift, outside>>

MainStep ==
  \/ InitializeGameLift \/ EpollWait \/ AcceptClient \/ ClientEvent
  \/ EventsDone \/ OnReceive \/ HandlerDisconnect \/ ReadAgain \/ ReadError
  \/ ReadZero \/ BroadcastMessage \/ BroadcastDisconnect
  \/ FlushClientSend \/ FlushFailed \/ FlushDone

-----------------------------------------------------------------------------
(* The clients.                                                            *)

(* Something arrives at the server's end of the connection of s.           *)
Arrives(s) ==
  ready' = IF mSocket[s] \in watched THEN ready \cup {mSocket[s]} ELSE ready

Request(s, request) ==
  /\ inbox' = Set(inbox, s, Append(inbox[s], request))
  /\ Arrives(s)
  /\ UNCHANGED <<manager, mClientList, watched, sessions, loop, sdk,
                 gameStatus, service, backlog, peer, inflight, heard>>

(* The service reserves a place and the client connects.                   *)
Connect(s) ==
  /\ at \notin {"init", "crashed"} /\ gameStatus = "active"
  /\ peer[s] = "out" /\ peer' = Set(peer, s, "open")
  /\ service' = Set(service, s, "reserved")
  /\ backlog' = backlog \cup {s}
  /\ UNCHANGED <<manager, clients, sessions, loop, sdk, gameStatus, said,
                 inbox, inflight, heard, chats>>

StartTest(s) ==
  /\ peer[s] = "open" /\ said[s] = "nothing"
  /\ said' = Set(said, s, "login")
  /\ Request(s, "login")
  /\ UNCHANGED chats

PlayTest(s) ==
  /\ peer[s] = "open" /\ said[s] = "login" /\ heard[s] /\ chats < MaxChats
  /\ chats' = chats + 1
  /\ Request(s, "chat")
  /\ UNCHANGED said

EndTest(s) ==
  /\ peer[s] = "open" /\ said[s] = "login" /\ heard[s]
  /\ said' = Set(said, s, "leaving")
  /\ \E request \in Departure \cap {"exit", "other"} : Request(s, request)
  /\ UNCHANGED chats

(* The client's host closes the connection (fin), or breaks it (reset)     *)
(* with or without what it had sent.                                       *)
HangUp(s) ==
  /\ peer[s] = "open" /\ said[s] # "nothing"
  /\ \E how \in Departure \cap {"fin", "reset"} :
       /\ peer' = Set(peer, s, how)
       /\ inbox' \in {inbox} \cup
            (IF how = "reset" THEN {Set(inbox, s, <<>>)} ELSE {})
  /\ Arrives(s)
  /\ UNCHANGED <<manager, mClientList, watched, sessions, loop, lift, backlog,
                 said, inflight, heard, chats>>

Hear(s) ==
  /\ peer[s] = "open" /\ inflight[s] > 0
  /\ inflight' = Set(inflight, s, inflight[s] - 1)
  /\ heard' = Set(heard, s, TRUE)
  /\ UNCHANGED <<manager, clients, sessions, loop, lift, backlog, peer, said,
                 inbox, chats>>

Crashed == at = "crashed" /\ UNCHANGED vars

Next ==
  \/ MainStep \/ OnStartGameSession \/ OnProcessTerminate \/ Deactivate
  \/ \E s \in Player : \/ Connect(s) \/ StartTest(s) \/ PlayTest(s)
                       \/ EndTest(s) \/ HangUp(s) \/ Hear(s)
  \/ Crashed

(* The event loop's thread is scheduled and clients read what they are     *)
(* sent.  Nothing makes a client connect, speak or leave.                  *)
Fairness == WF_vars(MainStep) /\ \A s \in Player : WF_vars(Hear(s))

Spec == Init /\ [][Next]_vars /\ Fairness

-----------------------------------------------------------------------------
(* Properties.                                                             *)

(* CRASH_ASSERT(IsConnected()) of OnReceive: every client event left in    *)
(* the batch finds a session in mClientList, and that session is           *)
(* connected, whatever the handlers before it did.                         *)
AssertConnected ==
  \A f \in batch \ {Listen} :
     mClientList[f] # NoSession /\ mConnected[mClientList[f]]

(* mClientList, the epoll registrations and the sessions' own sockets and  *)
(* flags agree, although descriptors are reused as soon as they are        *)
(* closed: an entry leads to a connected session that owns the descriptor, *)
(* every connected session has one, and nobody shares one.                 *)
ListAgrees ==
  /\ \A s \in Player :
       mConnected[s] <=> mSocket[s] # NoFd /\ mClientList[mSocket[s]] = s
  /\ watched = {f \in Fd : mClientList[f] # NoSession}
  /\ \A f \in watched : mSocket[mClientList[f]] = f
  /\ \A s, r \in Player :
       s # r /\ mSocket[s] # NoFd => mSocket[s] # mSocket[r]

(* While the game session lives, a session that was disconnected is gone   *)
(* for good once its handler returns: it receives no broadcasts, and its   *)
(* descriptor is free again.                                               *)
NoGhost ==
  gameStatus = "active" =>
    \A s \in Player : ~ mConnected[s] /\ cur # s =>
      s \notin mPlayerSessions /\ mSocket[s] = NoFd

(* The server implements the abstract life of a game session.              *)
Life == INSTANCE GameSessionLife WITH
          Full <- MAX_PLAYER_PER_GAME,
          phase <- gameStatus,
          here <- {s \in Player : service[s] = "active"},
          gone <- {s \in Player : service[s] = "completed"}
LivesAsPromised == Life!Spec

(* The event loop reads the end of a connection that its client has closed *)
(* again and again, and never does anything else: the code's own limit,    *)
(* excepted below.                                                         *)
ReadsEndForEver == at = "receive" /\ inbox[cur] = <<>> /\ peer[cur] = "fin"

Halted == at = "crashed" \/ ReadsEndForEver

(* OnReceive reads an edge-triggered socket until there is no more data,   *)
(* so a request is never left behind in a connection that stays open.      *)
Handled ==
  \A s \in Player :
    (mConnected[s] /\ inbox[s] # <<>>)
      ~> (inbox[s] = <<>> \/ ~ mConnected[s] \/ Halted)

(* What SendRequest buffers is written in the end, although only           *)
(* EPOLLIN is watched: each turn of the loop flushes.                      *)
Delivered ==
  \A s \in Player :
    (mConnected[s] /\ outbox[s] > 0)
      ~> (outbox[s] = 0 \/ ~ mConnected[s] \/ Halted)

(* Nothing is left behind in either direction, unless the process crashed  *)
(* or its loop reads the end of a closed connection for ever.              *)
Served == Handled /\ Delivered

(* CheckTerminateGameSession's "accepted full, but no ones here": once     *)
(* enough players were accepted and all clients are gone, the game session *)
(* is terminated.  The exception is one of the code: when a client closed  *)
(* its connection without ExitRequest, the event loop may be caught at the *)
(* end of that connection, and then nobody's leaving is noticed any more.  *)
TerminatesWhenEmpty ==
  ( /\ mAcceptedCount >= MAX_PLAYER_PER_GAME
    /\ \A s \in Player : peer[s] \in {"fin", "reset", "closed"} )
    ~> (gameStatus = "ended" \/ Halted)
=============================================================================
