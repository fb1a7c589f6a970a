---------------------------- MODULE DummyClients ----------------------------
(***************************************************************************)
(* The dummy clients: the main thread, which has the service create or     *)
(* place one game session after the other and connects the players of      *)
(* each (DummyClients.cpp, GameLiftManager.cpp, GameSession.cpp), composed *)
(* with the connections and the I/O threads of ClientSession, which play   *)
(* the test while the main thread is still launching.                      *)
(*                                                                         *)
(* Player session <<g, i>> is the i-th of game session g.                  *)
(***************************************************************************)
EXTENDS ClientSession

CONSTANTS
  Games,     \* MAX_GAME_SESSIONS
  PerGame    \* players of a game session

ASSUME ClientsAssumption ==
  /\ Games \in Nat \ {0} /\ PerGame \in Nat \ {0}
  /\ Session = (1 .. Games) \X (1 .. PerGame)
  /\ NoOne \notin Session
  /\ IsFiniteSet(Worker)
  /\ PLAYER_ACTION_REQUEST \in Nat \ {0}
  /\ PLAYER_ACTION_INTERVAL \in Nat \ {0}
  /\ SendCap \in Nat /\ MaxLag \in Nat

VARIABLES
  main,      \* the main thread: where it stands and its loop counters
  ready,     \* length of each game session's mReadySessionList
  status     \* the game session being launched, as the service has it

vars == <<sessionVars, main, ready, status>>

MainAt(p, g, i) == [pc |-> p, g |-> g, i |-> i, queue |-> FALSE]

Init ==
  /\ SessionInit
  /\ main = MainAt("prepare", 1, 1)
  /\ ready = [g \in 1 .. Games |-> 0]
  /\ status = "none"

Current == <<main.g, main.i>>

Go(p) == main' = [main EXCEPT !.pc = p]

(* Mutant: a game session that could not be launched is tried again.       *)
NextGameAgain ==
  /\ main' = [main EXCEPT !.pc = "launch", !.i = 1]
  /\ status' = "none"

(* The loop over mGameSessions goes on; after the last one, getchar.       *)
NextGame ==
  /\ main' = IF main.g = Games THEN MainAt("wait", 1, 1)
             ELSE [main EXCEPT !.pc = "launch", !.g = @ + 1, !.i = 1]
  /\ status' = "none"

-----------------------------------------------------------------------------
(* Before and during the launch.                                           *)

(* PreparePlayerSessions ends early when a socket cannot be bound: the     *)
(* lengths of the list it may leave.                                       *)
PreparePlayerSessions == 0 .. PerGame

(* PrepareGameSessions ignores that it did.  Then the configuration says   *)
(* whether the game sessions are created or placed through a queue.        *)
PrepareGameSessions ==
  /\ main.pc = "prepare"
  /\ ready' \in [1 .. Games -> PreparePlayerSessions]
  /\ \E q \in BOOLEAN : main' = [MainAt("launch", 1, 1) EXCEPT !.queue = q]
  /\ UNCHANGED <<sessionVars, status>>

CreateGameSession ==
  /\ main.pc = "launch"
  /\ ~main.queue
  /\ \/ Go("describe") /\ status' = "pending"
     \/ NextGame
  /\ UNCHANGED <<sessionVars, ready>>

(* The next poll that changes something: the game session is there, or the *)
(* request fails.  Any other answer is polled again.                       *)
Polled ==
  \/ status = "ready" /\ Go("players") /\ UNCHANGED status
  \/ NextGame

DescribeGameSessions ==
  /\ main.pc = "describe"
  /\ Polled
  /\ UNCHANGED <<sessionVars, ready>>

(* A placement is pending, fulfilled at once, or fails.                    *)
StartGameSessionPlacement ==
  /\ main.pc = "launch"
  /\ main.queue
  /\ \/ Go("placement") /\ status' = "pending"
     \/ Go("players") /\ status' = "ready"
     \/ NextGame
  /\ UNCHANGED <<sessionVars, ready>>

CheckGameSessionPlacement ==
  /\ main.pc = "placement"
  /\ Polled
  /\ UNCHANGED <<sessionVars, ready>>

CreatePlayerSessions ==
  /\ main.pc = "players"
  /\ \/ Go("connect") /\ UNCHANGED status
     \/ NextGame
  /\ UNCHANGED <<sessionVars, ready>>

(* ConnectPlayerSessions walks the service's list and its own in step.     *)
(* For a session: AddRef and ConnectRequest up to ConnectEx, whose         *)
(* immediate failure only takes the context back,                          *)
ConnectRequest ==
  LET s == Current IN
  /\ main.pc = "connect"
  /\ main.i <= PerGame /\ main.i <= ready[main.g]
  /\ \E ok \in BOOLEAN :
       /\ pending' = [pending EXCEPT ![s]["connect"] = @ + One(ok)]
       /\ mRefCount' = [mRefCount EXCEPT ![s] = @ + 1 + One(ok)]
  /\ issued' = [issued EXCEPT ![s] = TRUE]
  /\ Go("store")
  /\ UNCHANGED <<mConnected, pc, who, hand, sendVars, netVars, testVars, clockVars,
                 out, stops, ready, status>>

(* then what ConnectRequest stores behind it, one after the other;         *)
StorePlayerSessionId ==
  /\ main.pc = "store"
  /\ mPlayerSessionId' = [mPlayerSessionId EXCEPT ![Current] = TRUE]
  /\ Go("storeIdx")
  /\ UNCHANGED <<handlerVars, sendVars, netVars, mPlayerIdx, mPlayTestCount, clockVars,
                 issued, pending, out, stops, ready, status>>

StorePlayerIdx ==
  /\ main.pc = "storeIdx"
  /\ mPlayerIdx' = [mPlayerIdx EXCEPT ![Current] = TRUE]
  /\ main' = [main EXCEPT !.pc = "connect", !.i = @ + 1]
  /\ UNCHANGED <<handlerVars, sendVars, netVars, mPlayerSessionId, mPlayTestCount,
                 clockVars, issued, pending, out, stops, ready, status>>

(* after the last one the launch goes on.  When the prepared list is the   *)
(* shorter one, its end is dereferenced: undefined behaviour, after which  *)
(* nothing is said of the process.                                         *)
ConnectEnds ==
  /\ main.pc = "connect"
  /\ \/ main.i > PerGame /\ NextGame
     \/ /\ main.i <= PerGame /\ main.i > ready[main.g]
        /\ Go("undefined")
        /\ UNCHANGED status
  /\ UNCHANGED <<sessionVars, ready>>

-----------------------------------------------------------------------------
(* The end: somebody pressed a key.                                        *)

(* TerminateGameSessions: of every prepared session, in turn, the exchange *)
(* of DisconnectRequest,                                                   *)
TerminateGameSessions ==
  LET s == Current
      last == main.g = Games /\ main.i = PerGame
      here == main.i <= ready[main.g]
  IN
  /\ main.pc \in {"wait", "terminate"}
  /\ main' = CASE here /\ mConnected[s] -> MainAt("close", main.g, main.i)
               [] ~(here /\ mConnected[s]) /\ last -> MainAt("stop", 1, 1)
               [] ~(here /\ mConnected[s]) /\ ~last ->
                    MainAt("terminate",
                           IF main.i = PerGame THEN main.g + 1 ELSE main.g,
                           IF main.i = PerGame THEN 1 ELSE main.i + 1)
  /\ mConnected' = [mConnected EXCEPT ![s] = @ /\ ~here]
  /\ UNCHANGED <<mRefCount, pc, who, hand, sendVars, netVars, testVars, clockVars,
                 issued, pending, out, stops, ready, status>>

(* and its DisconnectEx.                                                   *)
CloseSession ==
  LET s == Current IN
  /\ main.pc = "close"
  /\ \E ok \in BOOLEAN :
       /\ Starts(s, ok)
       /\ pending' = [pending EXCEPT ![s]["disconnect"] = @ + One(ok)]
       /\ mRefCount' = [mRefCount EXCEPT ![s] = @ + One(ok)]
  /\ Break(s)
  /\ Go("terminate")
  /\ UNCHANGED <<mConnected, pc, who, hand, bufferVars, inbox, testVars, clockVars,
                 issued, out, stops, ready, status>>

(* Mutant: one CK_STOP_NOW for all threads.                                *)
StopIoThreadsOnce ==
  /\ main.pc = "stop"
  /\ stops' = 1
  /\ Go("join")
  /\ UNCHANGED <<handlerVars, sendVars, netVars, testVars, clockVars, issued,
                 pending, out, ready, status>>

(* StopIoThreads posts one CK_STOP_NOW per thread and joins them.          *)
StopIoThreads ==
  /\ main.pc = "stop"
  /\ stops' = Cardinality(Worker)
  /\ Go("join")
  /\ UNCHANGED <<handlerVars, sendVars, netVars, testVars, clockVars, issued,
                 pending, out, ready, status>>

Finalize ==
  /\ main.pc = "join"
  /\ \A w \in Worker : ~Running(w)
  /\ Go("done")
  /\ UNCHANGED <<sessionVars, ready, status>>

-----------------------------------------------------------------------------
(* The service activates or places a pending game session, or the game     *)
(* session ends up in a state it does not leave: terminated before it was  *)
(* active, a placement failed, cancelled or timed out.                     *)
ServiceDecides ==
  /\ status = "pending"
  /\ status' \in {"ready", "dead"}
  /\ UNCHANGED <<sessionVars, main, ready>>

Launch ==
  \/ PrepareGameSessions \/ CreateGameSession \/ DescribeGameSessions
  \/ StartGameSessionPlacement \/ CheckGameSessionPlacement
  \/ CreatePlayerSessions \/ ConnectRequest \/ StorePlayerSessionId \/ StorePlayerIdx
  \/ ConnectEnds

Shutdown == TerminateGameSessions \/ CloseSession \/ StopIoThreads \/ Finalize

Alive == main.pc \notin {"done", "undefined"}

(* A thread in GetQueuedCompletionStatus gets something.                   *)
Awaited(w) == WaitTimeout(w) \/ StopNow(w) \/ \E s \in Session : Dequeue(w, s)

Threads ==
  /\ \E w \in Worker : Awaited(w) \/ Run(w)
  /\ UNCHANGED <<main, ready, status>>

World == Environment /\ UNCHANGED <<main, ready, status>>

Ended == ~Alive /\ UNCHANGED vars

Next ==
  \/ Alive /\ (Launch \/ Shutdown \/ ServiceDecides \/ Threads \/ World)
  \/ Ended

(* The scheduler runs every thread; the completion port is a queue, so     *)
(* that what is in it comes out although time-outs and later completions   *)
(* compete with it; time, the game server and the service go on.  Nobody   *)
(* has to press a key, no connection has to break.                         *)
Fair(A) == Alive /\ A /\ UNCHANGED <<main, ready, status>>

Fairness ==
  /\ WF_vars(main.pc # "wait" /\ Alive /\ (Launch \/ Shutdown))
  /\ \A w \in Worker : WF_vars(Fair(Awaited(w) \/ Run(w)))
  /\ SF_vars(Fair(\E w \in Worker, s \in Session : Dequeue(w, s)))
  /\ WF_vars(Fair(Tick))
  /\ \A s \in Session : WF_vars(Fair(ServerReads(s)))
  /\ WF_vars(Alive /\ ServiceDecides)

Spec == Init /\ [][Next]_vars /\ Fairness

-----------------------------------------------------------------------------
(* Properties.                                                             *)

(* The timer jobs of a session, on any thread.                             *)
Armed(s) ==
  UNION {{<<w, e>> : e \in {f \in Elements(timers[w]) : f.owner = s}} : w \in Worker}

(* The references on a session are what is there to be returned: one of    *)
(* ConnectPlayerSessions until DisconnectCompletion, one per I/O context   *)
(* in the kernel or in a thread's hands, one per timer job and one of the  *)
(* PlayTest being run.  No path of ConnectRequest, FlushSend, PreRecv or   *)
(* DisconnectRequest, immediate failures included, loses or doubles one,   *)
(* so that ReleaseRef's assert holds.                                      *)
RefsAccounted ==
  \A s \in Session :
    mRefCount[s] =
      One(issued[s])
      + pending[s]["connect"] + pending[s]["zero"] + pending[s]["recv"]
      + pending[s]["send"] + pending[s]["disconnect"]
      + Cardinality({w \in Worker : who[w] = s})
      + Cardinality(Armed(s))

(* What SendCompletion, ConnectRequest and ConnectCompletion assert, at    *)
(* any moment at which they may run: a send in the kernel is counted, and  *)
(* a session is connected at most once.  ConnectCompletion's asserts that  *)
(* setsockopt succeeds are not part of it.                                 *)
AssertsHold ==
  /\ \A s \in Session :
       /\ pending[s]["send"] > 0 => mSendRequestedCount[s] > 0
       /\ pending[s]["connect"] > 0 => ~mConnected[s]
  /\ main.pc = "connect" /\ main.i <= PerGame => ~mConnected[Current]

(* A session is played by one chain of timer jobs on one thread, although  *)
(* any thread may handle its packets: PlayTest's unprotected counter and   *)
(* position never meet a second thread, and never pass the last request.   *)
OneChain ==
  \A s \in Session :
    /\ Cardinality(Armed(s)) <= 1
    /\ mPlayTestCount[s] <= PLAYER_ACTION_REQUEST

(* ConnectEx is started before mPlayerSessionId and mPlayerIdx are stored, *)
(* so a login may be made without an id and a move without an index; but   *)
(* only while the main thread still stands before the store it misses, of  *)
(* that very session, and never a chat or an exit, which need the result   *)
(* of a login that had its id.                                             *)
NamelessOnlyInLaunch ==
  [][\A w \in Worker :
       pc[w] # "post" /\ pc'[w] = "post" /\ ~out'[w].id
         => /\ Current = who'[w]
            /\ \/ main.pc = "store" /\ out'[w].type = "login"
               \/ main.pc = "storeIdx" /\ out'[w].type = "move"]_vars

(* DoTimerJob runs the top of the queue and pops afterwards, when PlayTest *)
(* has already pushed its successor: what is popped is the job that ran.   *)
PopsWhatRan ==
  [][\A w \in Worker :
       pc[w] = "after" /\ pc'[w] # "after"
         => timers[w].top \notin Elements(timers'[w])]_vars

Stopping == main.pc \in {"terminate", "close", "stop", "join", "done", "undefined"}

(* Once the login result has armed the test it is played to its last       *)
(* request, whatever happens to the connection, unless the clients stop.   *)
EndsTest ==
  \A s \in Session :
    mPlayTestCount[s] = 0 /\ Armed(s) # {}
      ~> mPlayTestCount[s] = PLAYER_ACTION_REQUEST \/ Stopping

(* A broken connection is noticed: some receive or send of it completes    *)
(* and DisconnectRequest takes mConnected back, whoever is busy sending.   *)
Noticed ==
  \A s \in Session :
    mConnected[s] /\ link[s] = "down" ~> ~mConnected[s] \/ Stopping

(* The launch comes to its end through every failure of the service, and   *)
(* is polled for ever only for a game session that will never be active.   *)
LaunchEnds ==
  main.pc = "launch" ~> main.pc \in {"wait", "undefined"} \/ status = "dead"

(* Once a key is pressed the process ends: each I/O thread finds its own   *)
(* CK_STOP_NOW, between any completions, and the join returns.             *)
ShutdownEnds == main.pc = "terminate" ~> main.pc = "done"

(* The main thread is never held up for good by the I/O threads, and by    *)
(* the service only for a game session that died while it was polled.      *)
MainEnds == LaunchEnds /\ ShutdownEnds
=============================================================================
