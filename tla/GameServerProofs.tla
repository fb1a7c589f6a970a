-------------------------- MODULE GameServerProofs --------------------------
(***************************************************************************)
(* For every set of players and I/O threads: a handler that needs the game *)
(* session finds one (GameSessionIsThere), the manager implements          *)
(* GameSessionLife (ImplementsLife), the clients see the broadcasts in one *)
(* order (ClientsAgree), and, unless a broadcast fails to post, the game   *)
(* session keeps no player whose connection is gone (GhostsNeedFailures).  *)
(*                                                                         *)
(* A thread is seen as the set of the calls on its stack: every call is    *)
(* made by one of a higher level, so the set determines the stack, and     *)
(* each step is stated again in these terms (the definitions ending in     *)
(* View).  Footprint says which steps change which variables; Gains and    *)
(* Loses say which steps add and remove which calls.                       *)
(*                                                                         *)
(* The inductive invariants, in the order in which they rest on each       *)
(* other:                                                                  *)
(*   Base:      types, stacks, who holds mLock, what the queues hold;      *)
(*   Roster, Counts: mGameSession and the counters against the service;    *)
(*   Delivery:  the one receive of a session (Chain), its one send         *)
(*              (Sends), where each chat request is (Once, Unsaid), and    *)
(*              the order in which packets were posted (Ordered: no two    *)
(*              sessions disagree; Latest: the packet of a broadcast that  *)
(*              goes on is the newest);                                    *)
(*   Connections: what has happened to a session before its player enters  *)
(*              (Doors), what Disconnect leaves behind (Closings,          *)
(*              Leaving), where a connection may be given up (Failures),   *)
(*              and why a player is still in the game session (Members).   *)
(***************************************************************************)
EXTENDS GameServer, FiniteSetTheorems, SequenceTheorems, TLAPS

-----------------------------------------------------------------------------
(* Threads as sets of calls.                                               *)

Frames(q) == {q[i] : i \in 1 .. Len(q)}
Calls(t)  == Frames(stack[t])

(* How deep a call lies: a call is only ever made by a call of a higher    *)
(* level, so that a thread has at most one of each level.                  *)
LevelOf(at) ==
  IF at \in {"PreRecv", "SendCompletion"} THEN 9
  ELSE IF at = "OnRead" THEN 8
  ELSE IF at \in {"PlayerLogin", "BroadcastMessage", "BroadcastLoop"} THEN 7
  ELSE IF at \in {"SetPlayerId", "BroadcastResult"} THEN 6
  ELSE IF at \in {"PostSend", "PostSendLock", "FlushFailed"} THEN 5
  ELSE IF at \in {"Disconnect", "closesocket"} THEN 4
  ELSE IF at \in {"OnDisconnect", "ClearPlayerId"} THEN 3
  ELSE 2
Level(f) == LevelOf(f.at)

(* Steps that are only ever on top.                                        *)
Leaf == {"PlayerLogin", "SetPlayerId", "BroadcastMessage", "PostSend",
         "PostSendLock", "RemovePlayerSession", "OnDisconnect"}

Nested(q) ==
  /\ \A i, j \in 1 .. Len(q) : i < j => Level(q[i]) < Level(q[j])
  /\ \A i \in 2 .. Len(q) : q[i].at \notin Leaf

Labels == {"PlayerLogin", "SetPlayerId", "RemovePlayerSession",
           "ClearPlayerId", "Disconnect", "OnDisconnect", "closesocket",
           "FlushFailed", "BroadcastResult", "SendCompletion", "OnRead",
           "PreRecv"}
PacketLabels == {"PostSend", "PostSendLock", "BroadcastMessage"}

Msg == [kind : {"login", "exit", "chat", "LoginResult"}, from : Player,
        n : Nat]
Frame == [at : Labels, s : Player]
           \cup [at : PacketLabels, s : Player, m : Msg]
           \cup [at : {"BroadcastLoop"}, m : Msg, todo : SUBSET Player]
Starting == <<[at |-> "OnStartGameSession"]>>
Creating == <<[at |-> "CreateGameSession"]>>
Ending   == <<[at |-> "OnProcessTerminate"]>>

-----------------------------------------------------------------------------
(* The inductive invariant.                                                *)

Phases == {"none", "reserved", "active", "completed"}

Types ==
  /\ mLock \in Thread \cup {Nobody} /\ mActivated \in BOOLEAN
  /\ mAcceptedCount \in Nat /\ mRemovedCount \in Nat
  /\ mGameSession \in (SUBSET Player) \cup {NoGame}
  /\ exitCode \in {"running", "ordered", "full"}
  /\ mConnected \in [Player -> BOOLEAN]
  /\ mPlayerSessionId \in [Player -> Player \cup {NoId}]
  /\ mSendBufferLock \in [Player -> Thread \cup {Nobody}]
  /\ outbox \in [Player -> Seq(Msg)]
  /\ send \in [Player -> {"none", "flying", "done", "failed", "handled"}]
  /\ sending \in [Player -> Nat]
  /\ recv \in [Player -> {"off", "posted", "busy"}]
  /\ socketOpen \in [Player -> BOOLEAN]
  /\ ret \in [Thread -> BOOLEAN]
  /\ gameStatus \in {"none", "active"}
  /\ service \in [Player -> Phases]
  /\ client \in [Player -> {"out", "connected", "asked", "hung up", "left"}]
  /\ chats \in Nat
  /\ inbox \in [Player -> Seq(Msg)]
  /\ got \in [Player -> Seq(Msg)]

Stacks ==
  /\ stack \in [Thread -> Seq(Frame) \cup {Starting, Creating, Ending}]
  /\ \A t \in Worker : stack[t] \in Seq(Frame) /\ Nested(stack[t])
  /\ stack[Sdk] \in {<<>>, Starting, Creating, Ending}

(* No player has come yet.                                                 *)
Untouched ==
  /\ \A s \in Player :
       /\ service[s] \in {"none", "reserved"} /\ client[s] = "out"
       /\ recv[s] = "off" /\ send[s] = "none"
  /\ \A t \in Worker : Calls(t) = {}

(* Who holds mLock, and when there is a game session.                      *)
Begun ==
  /\ gameStatus = "none" =>
       mGameSession = NoGame /\ Untouched /\ \A s \in Player : service[s] = "none"
  /\ Running /\ ~ mActivated => Untouched
  /\ stack[Sdk] = Starting => gameStatus = "none"
  /\ stack[Sdk] = Creating =>
       mLock = Sdk /\ gameStatus = "active" /\ mGameSession = NoGame /\ Running
  /\ Running /\ gameStatus = "active" /\ stack[Sdk] # Creating =>
       mGameSession # NoGame
  /\ \A t \in Worker, m \in Msg, todo \in SUBSET Player :
       Loop(m, todo) \in Calls(t) => mLock = t

(* The requests are the clients' own.                                      *)
Requests ==
  \A s \in Player : \A i \in 1 .. Len(inbox[s]) :
    /\ inbox[s][i].from = s /\ inbox[s][i].kind \in {"login", "exit", "chat"}
    /\ inbox[s][i].kind = "chat" => inbox[s][i].n \in 1 .. chats
    /\ inbox[s][i].kind # "chat" => inbox[s][i].n = 0
    /\ \A j \in 1 .. Len(inbox[s]) :
         inbox[s][i] = inbox[s][j] /\ inbox[s][i].kind = "chat" => i = j

(* What the kernel was given is in the send buffer.                        *)
Fits == \A s \in Player : sending[s] <= Len(outbox[s])

Answer(s) == Message("LoginResult", s, 0)

-----------------------------------------------------------------------------
(* Stacks and sets of calls.                                               *)

LEMMA LevelNat == \A f : Level(f) \in Nat
  BY DEF Level, LevelOf

LEMMA FramesNone == Frames(<<>>) = {}
  BY DEF Frames

LEMMA FramesOne ==
  ASSUME NEW f \in Frame
  PROVE  <<f>> \in Seq(Frame) /\ Frames(<<f>>) = {f} /\ Nested(<<f>>)
<1>1. <<f>> \in Seq(Frame) /\ Len(<<f>>) = 1 /\ <<f>>[1] = f OBVIOUS
<1>2. Frames(<<f>>) = {f} BY <1>1 DEF Frames
<1>3. Nested(<<f>>) BY <1>1 DEF Nested
<1> QED BY <1>1, <1>2, <1>3

LEMMA FramesTwo ==
  ASSUME NEW f \in Frame, NEW g \in Frame, Level(f) < Level(g), g.at \notin Leaf
  PROVE  /\ <<f, g>> \in Seq(Frame) /\ Frames(<<f, g>>) = {f, g}
         /\ Nested(<<f, g>>)
<1> DEFINE q == <<f, g>>
<1>1. q \in Seq(Frame) /\ Len(q) = 2 /\ q[1] = f /\ q[2] = g OBVIOUS
<1> HIDE DEF q
<1>2. Frames(q) = {f, g}
  <2>1. \A i \in 1 .. 2 : i = 1 \/ i = 2 OBVIOUS
  <2> QED BY <1>1, <2>1 DEF Frames
<1>3. Nested(q)
  <2>1. \A i, j \in 1 .. 2 : i < j => i = 1 /\ j = 2 OBVIOUS
  <2>2. \A i \in 2 .. 2 : i = 2 OBVIOUS
  <2> QED BY <1>1, <2>1, <2>2 DEF Nested
<1> QED BY <1>1, <1>2, <1>3 DEF q

(* The set of a concatenation, and when it is nested.                      *)
LEMMA FramesJoin ==
  ASSUME NEW p \in Seq(Frame), NEW q \in Seq(Frame)
  PROVE  p \o q \in Seq(Frame) /\ Frames(p \o q) = Frames(p) \cup Frames(q)
<1> DEFINE c == p \o q
<1>1. /\ c \in Seq(Frame) /\ Len(c) = Len(p) + Len(q)
      /\ \A i \in 1 .. Len(p) : c[i] = p[i]
      /\ \A i \in 1 .. Len(q) : c[Len(p) + i] = q[i]
  OBVIOUS
<1>2. Len(p) \in Nat /\ Len(q) \in Nat OBVIOUS
<1> HIDE DEF c
<1>3. ASSUME NEW i \in 1 .. Len(c)
      PROVE  \/ i \in 1 .. Len(p)
             \/ i - Len(p) \in 1 .. Len(q) /\ i = Len(p) + (i - Len(p))
  BY <1>1, <1>2
<1>4. Frames(c) \subseteq Frames(p) \cup Frames(q)
  <2> SUFFICES ASSUME NEW i \in 1 .. Len(c)
               PROVE  c[i] \in Frames(p) \cup Frames(q)
    BY DEF Frames
  <2>1. CASE i \in 1 .. Len(p) BY <2>1, <1>1 DEF Frames
  <2>2. CASE i - Len(p) \in 1 .. Len(q) /\ i = Len(p) + (i - Len(p))
    BY <2>2, <1>1 DEF Frames
  <2> QED BY <1>3, <2>1, <2>2
<1>5. Frames(p) \subseteq Frames(c)
  <2>1. \A i \in 1 .. Len(p) : i \in 1 .. Len(c) BY <1>1, <1>2
  <2> QED BY <1>1, <2>1 DEF Frames
<1>6. Frames(q) \subseteq Frames(c)
  <2>1. \A i \in 1 .. Len(q) : Len(p) + i \in 1 .. Len(c) BY <1>1, <1>2
  <2>2. ASSUME NEW i \in 1 .. Len(q) PROVE q[i] \in Frames(c)
    <3>1. q[i] = c[Len(p) + i] BY <1>1
    <3>2. Len(p) + i \in 1 .. Len(c) BY <2>1
    <3> QED BY <3>1, <3>2 DEF Frames
  <2> QED BY <2>2 DEF Frames
<1> QED BY <1>1, <1>4, <1>5, <1>6 DEF c

LEMMA NestedJoin ==
  ASSUME NEW p \in Seq(Frame), NEW q \in Seq(Frame), Nested(p), Nested(q),
         \A g \in Frames(q) : g.at \notin Leaf,
         \A f \in Frames(p), g \in Frames(q) : Level(f) < Level(g)
  PROVE  Nested(p \o q)
<1> DEFINE c == p \o q
<1>1. /\ c \in Seq(Frame) /\ Len(c) = Len(p) + Len(q)
      /\ \A i \in 1 .. Len(p) : c[i] = p[i]
      /\ \A i \in 1 .. Len(q) : c[Len(p) + i] = q[i]
  OBVIOUS
<1>2. Len(p) \in Nat /\ Len(q) \in Nat OBVIOUS
<1> HIDE DEF c
<1>3. ASSUME NEW i \in 1 .. Len(c), i \notin 1 .. Len(p)
      PROVE  \E k \in 1 .. Len(q) : i = Len(p) + k /\ c[i] = q[k]
  <2>1. i - Len(p) \in 1 .. Len(q) /\ i = Len(p) + (i - Len(p)) BY <1>1, <1>2, <1>3
  <2> QED BY <2>1, <1>1
<1>4. \A i \in 1 .. Len(p) : p[i] \in Frames(p) BY DEF Frames
<1>5. \A i \in 1 .. Len(q) : q[i] \in Frames(q) BY DEF Frames
<1>6. ASSUME NEW i \in 1 .. Len(c), NEW j \in 1 .. Len(c), i < j
      PROVE  Level(c[i]) < Level(c[j])
  <2>1. CASE i \in 1 .. Len(p) /\ j \in 1 .. Len(p)
    BY <2>1, <1>1, <1>6 DEF Nested
  <2>2. CASE i \in 1 .. Len(p) /\ j \notin 1 .. Len(p)
    <3>1. PICK k \in 1 .. Len(q) : c[j] = q[k] BY <2>2, <1>3
    <3> QED BY <2>2, <3>1, <1>1, <1>4, <1>5
  <2>3. CASE i \notin 1 .. Len(p)
    <3>1. j \notin 1 .. Len(p) BY <2>3, <1>6, <1>2
    <3>2. PICK k \in 1 .. Len(q) : i = Len(p) + k /\ c[i] = q[k] BY <2>3, <1>3
    <3>3. PICK l \in 1 .. Len(q) : j = Len(p) + l /\ c[j] = q[l] BY <3>1, <1>3
    <3>4. k < l BY <3>2, <3>3, <1>6, <1>2
    <3> QED BY <3>2, <3>3, <3>4 DEF Nested
  <2> QED BY <2>1, <2>2, <2>3
<1>7. ASSUME NEW i \in 2 .. Len(c) PROVE c[i].at \notin Leaf
  <2>1. i \in 1 .. Len(c) OBVIOUS
  <2>2. CASE i \in 1 .. Len(p)
    <3>1. i \in 2 .. Len(p) BY <2>2
    <3> QED BY <2>2, <3>1, <1>1 DEF Nested
  <2>3. CASE i \notin 1 .. Len(p)
    <3>1. PICK k \in 1 .. Len(q) : c[i] = q[k] BY <2>1, <2>3, <1>3
    <3> QED BY <3>1, <1>5
  <2> QED BY <2>2, <2>3
<1> QED BY <1>6, <1>7 DEF Nested, c

(* What lies under the call that runs.                                     *)
LEMMA FramesTail ==
  ASSUME NEW q \in Seq(Frame), q # <<>>, Nested(q)
  PROVE  /\ q[1] \in Frames(q) /\ q[1] \in Frame
         /\ Tail(q) \in Seq(Frame) /\ Nested(Tail(q))
         /\ Frames(Tail(q)) = Frames(q) \ {q[1]}
         /\ \A g \in Frames(q) \ {q[1]} :
              Level(q[1]) < Level(g) /\ g.at \notin Leaf
<1> DEFINE c == Tail(q)
<1>1. PICK n \in Nat : n = Len(q) /\ n # 0 OBVIOUS
<1>2. /\ c \in Seq(Frame) /\ Len(c) = n - 1
      /\ \A i \in 1 .. (n - 1) : c[i] = q[i + 1]
  BY <1>1
<1> HIDE DEF c
<1>3. 1 \in 1 .. n BY <1>1
<1>4. q[1] \in Frames(q) /\ q[1] \in Frame BY <1>1, <1>3 DEF Frames
<1>5. ASSUME NEW i \in 1 .. n, i # 1
      PROVE  /\ i - 1 \in 1 .. (n - 1) /\ c[i - 1] = q[i]
             /\ Level(q[1]) < Level(q[i]) /\ q[i].at \notin Leaf
  <2>1. i - 1 \in 1 .. (n - 1) /\ (i - 1) + 1 = i BY <1>5, <1>1
  <2>2. i \in 2 .. n /\ 1 < i BY <1>5, <1>1
  <2> QED BY <2>1, <2>2, <1>1, <1>2, <1>3 DEF Nested
<1>6. q[1] \notin Frames(c)
  <2>1. ASSUME NEW i \in 1 .. (n - 1), c[i] = q[1] PROVE FALSE
    <3>1. i + 1 \in 1 .. n /\ i + 1 # 1 BY <1>1
    <3>2. c[i] = q[i + 1] BY <1>2
    <3>3. Level(q[1]) < Level(q[i + 1]) BY <3>1, <1>5
    <3>4. Level(q[1]) \in Nat BY LevelNat
    <3> QED BY <2>1, <3>2, <3>3, <3>4
  <2> QED BY <2>1, <1>2 DEF Frames
<1>7. Frames(c) = Frames(q) \ {q[1]}
  <2>1. Frames(c) \subseteq Frames(q)
    <3>1. \A i \in 1 .. (n - 1) : i + 1 \in 1 .. n BY <1>1
    <3> QED BY <3>1, <1>1, <1>2 DEF Frames
  <2>2. ASSUME NEW i \in 1 .. n, q[i] # q[1] PROVE q[i] \in Frames(c)
    <3>1. i # 1 BY <2>2
    <3> QED BY <3>1, <1>2, <1>5 DEF Frames
  <2> QED BY <2>1, <2>2, <1>1, <1>6 DEF Frames
<1>8. Nested(c)
  <2>1. ASSUME NEW i \in 1 .. (n - 1), NEW j \in 1 .. (n - 1), i < j
        PROVE  Level(c[i]) < Level(c[j])
    <3>1. i + 1 \in 1 .. n /\ j + 1 \in 1 .. n /\ i + 1 < j + 1 BY <2>1, <1>1
    <3>2. c[i] = q[i + 1] /\ c[j] = q[j + 1] BY <1>2
    <3> QED BY <3>1, <3>2, <1>1 DEF Nested
  <2>2. ASSUME NEW i \in 2 .. (n - 1) PROVE c[i].at \notin Leaf
    <3>1. i \in 1 .. (n - 1) /\ i + 1 \in 1 .. n /\ i + 1 # 1 BY <1>1
    <3>2. c[i] = q[i + 1] BY <3>1, <1>2
    <3> QED BY <3>1, <3>2, <1>5
  <2> QED BY <2>1, <2>2, <1>2 DEF Nested
<1>9. \A g \in Frames(q) \ {q[1]} : Level(q[1]) < Level(g) /\ g.at \notin Leaf
  <2>1. ASSUME NEW i \in 1 .. n, q[i] # q[1]
        PROVE  Level(q[1]) < Level(q[i]) /\ q[i].at \notin Leaf
    <3>1. i # 1 BY <2>1
    <3> QED BY <3>1, <1>5
  <2> QED BY <2>1, <1>1 DEF Frames
<1> QED BY <1>2, <1>4, <1>7, <1>8, <1>9 DEF c

(* The frames are told apart by their labels.                              *)
LEMMA OnIs ==
  ASSUME NEW at \in Labels, NEW s \in Player
  PROVE  On(at, s) \in Frame /\ On(at, s).at = at /\ On(at, s).s = s
  BY DEF On, Frame

LEMMA PacketIs ==
  ASSUME NEW at \in PacketLabels, NEW s \in Player, NEW m \in Msg
  PROVE  /\ Packet(at, s, m) \in Frame /\ Packet(at, s, m).at = at
         /\ Packet(at, s, m).s = s /\ Packet(at, s, m).m = m
  BY DEF Packet, Frame

LEMMA LoopIs ==
  ASSUME NEW m \in Msg, NEW todo \in SUBSET Player
  PROVE  /\ Loop(m, todo) \in Frame /\ Loop(m, todo).at = "BroadcastLoop"
         /\ Loop(m, todo).m = m /\ Loop(m, todo).todo = todo
  BY DEF Loop, Frame

LEMMA FrameIsOn ==
  ASSUME NEW f \in Frame, f.at \in Labels
  PROVE  f.s \in Player /\ f = On(f.at, f.s)
  BY DEF On, Frame, Labels, PacketLabels

LEMMA FrameIsPacket ==
  ASSUME NEW f \in Frame, f.at \in PacketLabels
  PROVE  f.s \in Player /\ f.m \in Msg /\ f = Packet(f.at, f.s, f.m)
  BY DEF Packet, Frame, Labels, PacketLabels

LEMMA FrameIsLoop ==
  ASSUME NEW f \in Frame, f.at = "BroadcastLoop"
  PROVE  f.m \in Msg /\ f.todo \in SUBSET Player /\ f = Loop(f.m, f.todo)
  BY DEF Loop, Frame, Labels, PacketLabels

(* Call f of thread t is the one that runs.                                *)
Tops(t, f) ==
  /\ f \in Calls(t)
  /\ \A g \in Calls(t) \ {f} : Level(f) < Level(g) /\ g.at \notin Leaf

(* The other threads stand still.                                          *)
Others(t) ==
  /\ stack'[Sdk] = stack[Sdk]
  /\ \A u \in Worker \ {t} : Calls(u)' = Calls(u)

(* Thread t leaves f for the calls of G, or takes up G from idleness.      *)
Moves(t, f, G) == Calls(t)' = G \cup (Calls(t) \ {f}) /\ Others(t)
Begins(t, G)   == Calls(t) = {} /\ Calls(t)' = G /\ Others(t)

LEMMA SomeStack ==
  ASSUME Stacks, NEW t \in Worker, NEW q \in Seq(Frame), Nested(q),
         stack' = [stack EXCEPT ![t] = q]
  PROVE  Stacks' /\ Calls(t)' = Frames(q) /\ Others(t)
<1> USE GameServerAssumption
<1>1. t \in Thread /\ t # Sdk /\ Sdk \in Thread BY DEF Thread
<1>2. stack'[t] = q /\ \A u \in Thread \ {t} : stack'[u] = stack[u]
  BY <1>1 DEF Stacks
<1>3. \A u \in Worker : u \in Thread BY DEF Thread
<1>4. Stacks'
  <2>1. stack' \in [Thread -> Seq(Frame) \cup {Starting, Creating, Ending}]
    BY <1>1 DEF Stacks
  <2>2. \A u \in Worker : stack'[u] \in Seq(Frame) /\ Nested(stack'[u])
    BY <1>2, <1>3 DEF Stacks
  <2>3. stack'[Sdk] \in {<<>>, Starting, Creating, Ending} BY <1>1, <1>2 DEF Stacks
  <2> QED BY <2>1, <2>2, <2>3 DEF Stacks
<1>5. Calls(t)' = Frames(q) BY <1>2 DEF Calls
<1>6. ASSUME NEW u \in Worker \ {t} PROVE Calls(u)' = Calls(u)
  <2>1. stack'[u] = stack[u] BY <1>2, <1>3
  <2> QED BY <2>1 DEF Calls
<1>7. stack'[Sdk] = stack[Sdk] BY <1>1, <1>2
<1> QED BY <1>4, <1>5, <1>6, <1>7 DEF Others

(* What replacing the running call by others does.                         *)
LEMMA BecomeMoves ==
  ASSUME Stacks, NEW t \in Worker, stack[t] # <<>>, NEW p \in Seq(Frame),
         Nested(p), \A g \in Frames(p) : Level(g) <= Level(stack[t][1]),
         stack' = [stack EXCEPT ![t] = p \o Tail(stack[t])]
  PROVE  Stacks' /\ Moves(t, stack[t][1], Frames(p))
<1> DEFINE q == stack[t]
<1>1. q \in Seq(Frame) /\ Nested(q) /\ q # <<>> BY DEF Stacks
<1> HIDE DEF q
<1>2. /\ Tail(q) \in Seq(Frame) /\ Nested(Tail(q))
      /\ Frames(Tail(q)) = Frames(q) \ {q[1]}
      /\ \A g \in Frames(q) \ {q[1]} : Level(q[1]) < Level(g) /\ g.at \notin Leaf
  BY <1>1, FramesTail
<1>3. \A g \in Frames(Tail(q)) : g.at \notin Leaf BY <1>2
<1>4. \A f \in Frames(p), g \in Frames(Tail(q)) : Level(f) < Level(g)
  <2> SUFFICES ASSUME NEW f \in Frames(p), NEW g \in Frames(Tail(q))
               PROVE  Level(f) < Level(g)
    OBVIOUS
  <2>1. Level(f) <= Level(q[1]) /\ Level(q[1]) < Level(g) BY <1>2 DEF q
  <2>2. Level(f) \in Nat /\ Level(q[1]) \in Nat /\ Level(g) \in Nat BY LevelNat
  <2> QED BY <2>1, <2>2
<1>5. Nested(p \o Tail(q)) BY <1>2, <1>3, <1>4, NestedJoin
<1>6. /\ p \o Tail(q) \in Seq(Frame)
      /\ Frames(p \o Tail(q)) = Frames(p) \cup (Frames(q) \ {q[1]})
  BY <1>2, FramesJoin
<1>7. stack' = [stack EXCEPT ![t] = p \o Tail(q)] BY DEF q
<1>8. Stacks' /\ Calls(t)' = Frames(p \o Tail(q)) /\ Others(t)
  BY <1>5, <1>6, <1>7, SomeStack
<1> QED BY <1>6, <1>8 DEF Moves, Calls, q

(* The cases that occur: a return, one, two or three calls.                *)
LEMMA ReturnMoves ==
  ASSUME Stacks, NEW t \in Worker, stack[t] # <<>>, Return(t)
  PROVE  Stacks' /\ Moves(t, stack[t][1], {})
<1>1. <<>> \in Seq(Frame) /\ Nested(<<>>) /\ Frames(<<>>) = {}
  BY FramesNone DEF Nested
<1>2. stack' = [stack EXCEPT ![t] = <<>> \o Tail(stack[t])] BY DEF Return, Become
<1>3. \A g \in Frames(<<>>) : Level(g) <= Level(stack[t][1]) BY <1>1
<1> QED BY <1>1, <1>2, <1>3, BecomeMoves

LEMMA OneMoves ==
  ASSUME Stacks, NEW t \in Worker, stack[t] # <<>>, NEW f \in Frame,
         Level(f) <= Level(stack[t][1]), Become(t, <<f>>)
  PROVE  Stacks' /\ Moves(t, stack[t][1], {f})
<1>1. <<f>> \in Seq(Frame) /\ Nested(<<f>>) /\ Frames(<<f>>) = {f} BY FramesOne
<1>2. stack' = [stack EXCEPT ![t] = <<f>> \o Tail(stack[t])] BY DEF Become
<1>3. \A g \in Frames(<<f>>) : Level(g) <= Level(stack[t][1]) BY <1>1
<1> QED BY <1>1, <1>2, <1>3, BecomeMoves

LEMMA TwoMoves ==
  ASSUME Stacks, NEW t \in Worker, stack[t] # <<>>, NEW f \in Frame, NEW g \in Frame,
         Level(f) < Level(g), g.at \notin Leaf, Level(g) <= Level(stack[t][1]),
         stack' = [stack EXCEPT ![t] = <<f, g>> \o Tail(stack[t])]
  PROVE  Stacks' /\ Moves(t, stack[t][1], {f, g})
<1>1. <<f, g>> \in Seq(Frame) /\ Nested(<<f, g>>) /\ Frames(<<f, g>>) = {f, g}
  BY FramesTwo
<1>2. Level(f) \in Nat /\ Level(g) \in Nat /\ Level(stack[t][1]) \in Nat BY LevelNat
<1>3. \A h \in Frames(<<f, g>>) : Level(h) <= Level(stack[t][1]) BY <1>1, <1>2
<1> QED BY <1>1, <1>3, BecomeMoves

(* The running call of a thread that stands at a label.                    *)
LEMMA StandsFrame ==
  ASSUME Stacks, NEW t \in Worker, NEW at, Stands(t, at)
  PROVE  /\ Running /\ stack[t] # <<>> /\ stack[t][1] \in Frame
         /\ stack[t][1].at = at /\ Tops(t, stack[t][1])
<1>1. Running /\ stack[t] # <<>> /\ stack[t][1].at = at BY DEF Stands
<1>2. stack[t] \in Seq(Frame) /\ Nested(stack[t]) BY DEF Stacks
<1> QED BY <1>1, <1>2, FramesTail DEF Tops, Calls

LEMMA StandsOn ==
  ASSUME Stacks, NEW t \in Worker, NEW at \in Labels, Stands(t, at)
  PROVE  /\ Running /\ stack[t] # <<>>
         /\ \E s \in Player : /\ Self(t) = s /\ stack[t][1] = On(at, s)
                              /\ Tops(t, On(at, s))
<1>1. /\ Running /\ stack[t] # <<>> /\ stack[t][1] \in Frame
      /\ stack[t][1].at = at /\ Tops(t, stack[t][1])
  BY StandsFrame
<1>2. stack[t][1].s \in Player /\ stack[t][1] = On(at, stack[t][1].s)
  BY <1>1, FrameIsOn
<1> QED BY <1>1, <1>2 DEF Self

LEMMA StandsPacket ==
  ASSUME Stacks, NEW t \in Worker, NEW at \in PacketLabels, Stands(t, at)
  PROVE  /\ Running /\ stack[t] # <<>>
         /\ \E s \in Player, m \in Msg :
              /\ Self(t) = s /\ stack[t][1] = Packet(at, s, m)
              /\ stack[t][1].m = m /\ Tops(t, Packet(at, s, m))
<1>1. /\ Running /\ stack[t] # <<>> /\ stack[t][1] \in Frame
      /\ stack[t][1].at = at /\ Tops(t, stack[t][1])
  BY StandsFrame
<1>2. /\ stack[t][1].s \in Player /\ stack[t][1].m \in Msg
      /\ stack[t][1] = Packet(at, stack[t][1].s, stack[t][1].m)
  BY <1>1, FrameIsPacket
<1> QED BY <1>1, <1>2 DEF Self

LEMMA StandsLoop ==
  ASSUME Stacks, NEW t \in Worker, Stands(t, "BroadcastLoop")
  PROVE  /\ Running /\ stack[t] # <<>>
         /\ \E m \in Msg, todo \in SUBSET Player :
              /\ stack[t][1] = Loop(m, todo) /\ Tops(t, Loop(m, todo))
              /\ stack[t][1].m = m /\ stack[t][1].todo = todo
<1>1. /\ Running /\ stack[t] # <<>> /\ stack[t][1] \in Frame
      /\ stack[t][1].at = "BroadcastLoop" /\ Tops(t, stack[t][1])
  BY StandsFrame
<1>2. /\ stack[t][1].m \in Msg /\ stack[t][1].todo \in SUBSET Player
      /\ stack[t][1] = Loop(stack[t][1].m, stack[t][1].todo)
  BY <1>1, FrameIsLoop
<1> QED BY <1>1, <1>2

(* An idle thread takes something up.                                      *)
LEMMA StartBegins ==
  ASSUME Stacks, NEW t \in Worker, Idle(t), NEW q \in Seq(Frame), Nested(q),
         Start(t, q)
  PROVE  Stacks' /\ Begins(t, Frames(q))
<1>1. Calls(t) = {} BY FramesNone DEF Idle, Calls
<1>2. stack' = [stack EXCEPT ![t] = q] BY DEF Start
<1> QED BY <1>1, <1>2, SomeStack DEF Begins

-----------------------------------------------------------------------------
(* The steps of the I/O threads, seen through their sets of calls.         *)

(* Tail of a send: SendFlies hands count packets to the kernel, SendBreaks *)
(* is the failure.                                                         *)
SendFlies(t, s, f, count) ==
  /\ socketOpen[s]
  /\ send' = Set(send, s, "flying") /\ sending' = Set(sending, s, count)
  /\ Moves(t, f, {}) /\ mSendBufferLock' = mSendBufferLock
SendBreaks(t, s, f) ==
  /\ ~ socketOpen[s] \/ SendMayFail
  /\ mSendBufferLock' = Set(mSendBufferLock, s, t)
  /\ send' = Set(send, s, "none") /\ sending' = Set(sending, s, 0)
  /\ Moves(t, f, {On("Disconnect", s), On("FlushFailed", s)}) /\ ret' = ret

LoginView(t, s) ==
  /\ Running /\ mLock = Nobody /\ Tops(t, On("PlayerLogin", s))
  /\ \/ /\ service[s] = "reserved" /\ service' = Set(service, s, "active")
        /\ mAcceptedCount' = mAcceptedCount + 1
        /\ mGameSession' = mGameSession \cup {s}
        /\ Moves(t, On("PlayerLogin", s), {On("SetPlayerId", s)})
     \/ /\ service[s] # "reserved"
        /\ Moves(t, On("PlayerLogin", s), {On("Disconnect", s)})
        /\ UNCHANGED <<service, mAcceptedCount, mGameSession>>
  /\ UNCHANGED <<mLock, mActivated, mRemovedCount, exitCode, sessions, ret,
                 gameStatus, client, chats, inbox, got>>

SetIdView(t, s) ==
  /\ Running /\ Tops(t, On("SetPlayerId", s))
  /\ mPlayerSessionId' = Set(mPlayerSessionId, s, s)
  /\ Moves(t, On("SetPlayerId", s), {Packet("PostSend", s, Answer(s))})
  /\ UNCHANGED <<manager, mConnected, mSendBufferLock, outbox, send, sending,
                 recv, socketOpen, ret, world>>

RemoveView(t, s) ==
  /\ Running /\ mLock = Nobody /\ Tops(t, On("RemovePlayerSession", s))
  /\ Moves(t, On("RemovePlayerSession", s), {})
  /\ \/ /\ service[s] = "active"
        /\ mRemovedCount' = mRemovedCount + 1
        /\ service' = Set(service, s, "completed")
     \/ /\ service[s] # "active"
        /\ UNCHANGED <<mRemovedCount, service>>
  /\ \/ /\ CheckTerminateGameSession(mAcceptedCount, mRemovedCount')
        /\ TerminateGameSession("full")
     \/ /\ ~ CheckTerminateGameSession(mAcceptedCount, mRemovedCount')
        /\ mGameSession' = IF service[s] = "active" THEN mGameSession \ {s}
                           ELSE mGameSession
        /\ UNCHANGED <<mActivated, exitCode>>
  /\ UNCHANGED <<mLock, mAcceptedCount, sessions, ret, gameStatus, client,
                 chats, inbox, got>>

ClearView(t, s) ==
  /\ Running /\ Tops(t, On("ClearPlayerId", s))
  /\ mPlayerSessionId' = Set(mPlayerSessionId, s, NoId)
  /\ Moves(t, On("ClearPlayerId", s), {})
  /\ UNCHANGED <<manager, mConnected, mSendBufferLock, outbox, send, sending,
                 recv, socketOpen, ret, world>>

DisconnectView(t, s) ==
  /\ Running /\ Tops(t, On("Disconnect", s))
  /\ mConnected' = Set(mConnected, s, FALSE)
  /\ \/ /\ mConnected[s]
        /\ Moves(t, On("Disconnect", s), {On("OnDisconnect", s), On("closesocket", s)})
     \/ ~ mConnected[s] /\ Moves(t, On("Disconnect", s), {})
  /\ UNCHANGED <<manager, mPlayerSessionId, mSendBufferLock, outbox, send,
                 sending, recv, socketOpen, ret, world>>

OnDisconnectView(t, s) ==
  /\ Running /\ Tops(t, On("OnDisconnect", s))
  /\ \/ /\ mPlayerSessionId[s] # NoId
        /\ Moves(t, On("OnDisconnect", s), {On("RemovePlayerSession", s), On("ClearPlayerId", s)})
     \/ mPlayerSessionId[s] = NoId /\ Moves(t, On("OnDisconnect", s), {})
  /\ UNCHANGED <<manager, sessions, ret, world>>

CloseView(t, s) ==
  /\ Running /\ Tops(t, On("closesocket", s))
  /\ socketOpen' = Set(socketOpen, s, FALSE)
  /\ Moves(t, On("closesocket", s), {})
  /\ UNCHANGED <<manager, mConnected, mPlayerSessionId, mSendBufferLock,
                 outbox, send, sending, recv, ret, world>>

FlushFailedView(t, s) ==
  /\ Running /\ Tops(t, On("FlushFailed", s))
  /\ mSendBufferLock' = Set(mSendBufferLock, s, Nobody)
  /\ ret' = [ret EXCEPT ![t] = FALSE]
  /\ Moves(t, On("FlushFailed", s), {})
  /\ UNCHANGED <<manager, mConnected, mPlayerSessionId, outbox, send, sending,
                 recv, socketOpen, world>>

PostView(t, s, m) ==
  /\ Running /\ Tops(t, Packet("PostSend", s, m))
  /\ \/ /\ mConnected[s] /\ ret' = ret
        /\ Moves(t, Packet("PostSend", s, m), {Packet("PostSendLock", s, m)})
     \/ /\ ~ mConnected[s] /\ ret' = [ret EXCEPT ![t] = FALSE]
        /\ Moves(t, Packet("PostSend", s, m), {})
  /\ UNCHANGED <<manager, sessions, world>>

PostLockView(t, s, m) ==
  /\ Running /\ Tops(t, Packet("PostSendLock", s, m))
  /\ \/ /\ Len(outbox[s]) + 1 > SendCap
        /\ Moves(t, Packet("PostSendLock", s, m), {})
        /\ ret' = [ret EXCEPT ![t] = FALSE]
        /\ UNCHANGED <<outbox, send, sending, mSendBufferLock>>
     \/ /\ Len(outbox[s]) + 1 <= SendCap /\ send[s] # "none"
        /\ outbox' = Set(outbox, s, Append(outbox[s], m))
        /\ Moves(t, Packet("PostSendLock", s, m), {})
        /\ ret' = [ret EXCEPT ![t] = TRUE]
        /\ UNCHANGED <<send, sending, mSendBufferLock>>
     \/ /\ Len(outbox[s]) + 1 <= SendCap /\ send[s] = "none"
        /\ outbox' = Set(outbox, s, Append(outbox[s], m))
        /\ \/ /\ SendFlies(t, s, Packet("PostSendLock", s, m), Len(outbox[s]) + 1)
              /\ ret' = [ret EXCEPT ![t] = TRUE]
           \/ SendBreaks(t, s, Packet("PostSendLock", s, m))
  /\ UNCHANGED <<manager, mConnected, mPlayerSessionId, recv, socketOpen,
                 world>>

BroadcastView(t, s, m) ==
  /\ Running /\ mLock = Nobody /\ mLock' = t
  /\ Tops(t, Packet("BroadcastMessage", s, m))
  /\ mGameSession \in SUBSET Player
  /\ Moves(t, Packet("BroadcastMessage", s, m), {Loop(m, mGameSession)})
  /\ UNCHANGED <<mActivated, mAcceptedCount, mRemovedCount, mGameSession,
                 exitCode, sessions, ret, world>>

LoopView(t, m, todo) ==
  /\ Running /\ Tops(t, Loop(m, todo))
  /\ \/ todo = {} /\ mLock' = Nobody /\ Moves(t, Loop(m, todo), {})
     \/ \E s \in todo :
          /\ Moves(t, Loop(m, todo), {Packet("PostSend", s, m), On("BroadcastResult", s),
                                      Loop(m, todo \ {s})})
          /\ mLock' = mLock
  /\ UNCHANGED <<mActivated, mAcceptedCount, mRemovedCount, mGameSession,
                 exitCode, sessions, ret, world>>

ResultView(t, s) ==
  /\ Running /\ Tops(t, On("BroadcastResult", s))
  /\ \/ ret[t] /\ Moves(t, On("BroadcastResult", s), {})
     \/ ~ ret[t] /\ Moves(t, On("BroadcastResult", s), {On("Disconnect", s)})
  /\ UNCHANGED <<manager, sessions, ret, world>>

SendDoneView(t, s) ==
  /\ Running
  /\ \/ send[s] = "done" /\ Begins(t, {On("SendCompletion", s)})
     \/ send[s] = "failed" /\ Begins(t, {On("Disconnect", s)})
  /\ send' = Set(send, s, "handled")
  /\ UNCHANGED <<manager, mConnected, mPlayerSessionId, mSendBufferLock,
                 outbox, sending, recv, socketOpen, ret, world>>

CompletionView(t, s) ==
  /\ Running /\ Calls(t) = {On("SendCompletion", s)}
  /\ LET rest == SubSeq(outbox[s], sending[s] + 1, Len(outbox[s]))
     IN  /\ outbox' = Set(outbox, s, rest)
         /\ \/ SendFlies(t, s, On("SendCompletion", s), Len(rest)) /\ ret' = ret
            \/ SendBreaks(t, s, On("SendCompletion", s))
            \/ /\ send' = Set(send, s, "none") /\ sending' = Set(sending, s, 0)
               /\ Moves(t, On("SendCompletion", s), {})
               /\ UNCHANGED <<mSendBufferLock, ret>>
  /\ UNCHANGED <<manager, mConnected, mPlayerSessionId, recv, socketOpen,
                 world>>

(* The calls the handler of request r of session s starts with.            *)
HandlerCalls(s, r) ==
  IF r.kind = "login" THEN {On("PlayerLogin", s)}
  ELSE IF r.kind = "exit"
       THEN {On("RemovePlayerSession", s), On("ClearPlayerId", s), On("Disconnect", s)}
       ELSE {Packet("BroadcastMessage", s, r)}

RecvView(t, s) ==
  /\ Running /\ recv[s] = "posted"
  /\ \/ /\ socketOpen[s] /\ inbox[s] # <<>>
        /\ recv' = Set(recv, s, "busy")
        /\ inbox' = Set(inbox, s, Tail(inbox[s]))
        /\ Begins(t, HandlerCalls(s, inbox[s][1]) \cup {On("OnRead", s), On("PreRecv", s)})
     \/ /\ ~ socketOpen[s] \/ (client[s] = "hung up" /\ inbox[s] = <<>>)
        /\ recv' = Set(recv, s, "off")
        /\ Begins(t, {On("Disconnect", s)})
        /\ UNCHANGED inbox
  /\ UNCHANGED <<manager, mConnected, mPlayerSessionId, mSendBufferLock,
                 outbox, send, sending, socketOpen, ret, gameStatus, service,
                 client, chats, got>>

OnReadView(t, s) ==
  /\ Running /\ Tops(t, On("OnRead", s))
  /\ \/ /\ inbox[s] # <<>>
        /\ inbox' = Set(inbox, s, Tail(inbox[s]))
        /\ Moves(t, On("OnRead", s), HandlerCalls(s, inbox[s][1]) \cup {On("OnRead", s)})
     \/ Moves(t, On("OnRead", s), {}) /\ UNCHANGED inbox
  /\ UNCHANGED <<manager, sessions, ret, gameStatus, service, client, chats,
                 got>>

PreRecvView(t, s) ==
  /\ Running /\ Calls(t) = {On("PreRecv", s)}
  /\ \/ /\ mConnected[s] /\ socketOpen[s] /\ recv' = Set(recv, s, "posted")
        /\ Moves(t, On("PreRecv", s), {})
     \/ /\ ~ (mConnected[s] /\ socketOpen[s]) /\ recv' = Set(recv, s, "off")
        /\ Moves(t, On("PreRecv", s), {On("Disconnect", s)})
  /\ UNCHANGED <<manager, mConnected, mPlayerSessionId, mSendBufferLock,
                 outbox, send, sending, socketOpen, ret, world>>

ThreadView(t) ==
  \/ \E s \in Player :
       \/ LoginView(t, s) \/ SetIdView(t, s) \/ RemoveView(t, s) \/ ClearView(t, s)
       \/ DisconnectView(t, s) \/ OnDisconnectView(t, s) \/ CloseView(t, s)
       \/ FlushFailedView(t, s) \/ ResultView(t, s) \/ SendDoneView(t, s)
       \/ CompletionView(t, s) \/ RecvView(t, s) \/ OnReadView(t, s)
       \/ PreRecvView(t, s)
       \/ \E m \in Msg : PostView(t, s, m) \/ PostLockView(t, s, m) \/ BroadcastView(t, s, m)
  \/ \E m \in Msg, todo \in SUBSET Player : LoopView(t, m, todo)

(* The steps of the others, which leave the I/O threads' calls alone.      *)
Still == \A u \in Worker : Calls(u)' = Calls(u)

Base == Types /\ Stacks /\ Begun /\ Requests /\ Fits

LEMMA EmptyFrames ==
  ASSUME NEW r \in Seq(Frame), Frames(r) = {}
  PROVE  r = <<>>
<1> SUFFICES ASSUME r # <<>> PROVE FALSE OBVIOUS
<1>1. PICK n \in Nat : n = Len(r) OBVIOUS
<1>2. n # 0 BY <1>1, EmptySeq
<1>3. 1 \in 1 .. Len(r) BY <1>1, <1>2
<1> QED BY <1>3 DEF Frames

(* A thread that stands where nothing can lie below has nothing below.     *)
LEMMA DeepestAlone ==
  ASSUME Stacks, NEW t \in Worker, stack[t] # <<>>, Level(stack[t][1]) = 9
  PROVE  Calls(t) = {stack[t][1]} /\ Tail(stack[t]) = <<>>
<1>1. stack[t] \in Seq(Frame) /\ Nested(stack[t]) BY DEF Stacks
<1> DEFINE q == stack[t]
<1>2. /\ q[1] \in Frames(q) /\ Tail(q) \in Seq(Frame)
      /\ Frames(Tail(q)) = Frames(q) \ {q[1]}
      /\ \A g \in Frames(q) \ {q[1]} : Level(q[1]) < Level(g)
  BY <1>1, FramesTail
<1>3. \A f : Level(f) \in 0 .. 9 BY DEF Level, LevelOf
<1> HIDE DEF q
<1>4. \A g \in Frames(q) \ {q[1]} : FALSE
  <2> SUFFICES ASSUME NEW g \in Frames(q) \ {q[1]} PROVE FALSE OBVIOUS
  <2>1. 9 < Level(g) BY <1>2 DEF q
  <2> QED BY <2>1, <1>3
<1>5. Frames(q) = {q[1]} BY <1>2, <1>4
<1>6. Frames(Tail(q)) = {} BY <1>2, <1>5
<1>7. \A r \in Seq(Frame) : Frames(r) = {} => r = <<>> BY EmptyFrames
<1> QED BY <1>2, <1>5, <1>6, <1>7 DEF q, Calls

LEMMA LoginViews ==
  ASSUME Stacks, NEW t \in Worker, PlayerLogin(t)
  PROVE  Stacks' /\ \E s \in Player : LoginView(t, s)
<1>1. Stands(t, "PlayerLogin") /\ mLock = Nobody BY DEF PlayerLogin
<1>2. "PlayerLogin" \in Labels BY DEF Labels
<1>3. /\ Running /\ stack[t] # <<>>
      /\ \E s \in Player : /\ Self(t) = s /\ stack[t][1] = On("PlayerLogin", s)
                           /\ Tops(t, On("PlayerLogin", s))
  BY <1>1, <1>2, StandsOn
<1>4. PICK s \in Player : /\ Self(t) = s /\ stack[t][1] = On("PlayerLogin", s)
                          /\ Tops(t, On("PlayerLogin", s))
  BY <1>3
<1>5. /\ On("SetPlayerId", s) \in Frame /\ On("Disconnect", s) \in Frame
      /\ Level(On("SetPlayerId", s)) = 6 /\ Level(On("Disconnect", s)) = 4
      /\ Level(On("PlayerLogin", s)) = 7
  BY OnIs DEF Labels, Level, LevelOf
<1>6. CASE service[s] = "reserved"
  <2>1. /\ service' = Set(service, s, "active")
        /\ mAcceptedCount' = mAcceptedCount + 1
        /\ mGameSession' = mGameSession \cup {s}
        /\ Become(t, <<On("SetPlayerId", s)>>)
    BY <1>4, <1>6 DEF PlayerLogin
  <2>2. Level(On("SetPlayerId", s)) <= Level(stack[t][1]) BY <1>4, <1>5
  <2>3. Stacks' /\ Moves(t, On("PlayerLogin", s), {On("SetPlayerId", s)})
    BY <1>3, <1>4, <1>5, <2>1, <2>2, OneMoves
  <2> QED BY <1>1, <1>3, <1>4, <1>6, <2>1, <2>3 DEF PlayerLogin, LoginView
<1>7. CASE service[s] # "reserved"
  <2>1. /\ Become(t, <<On("Disconnect", s)>>)
        /\ UNCHANGED <<service, mAcceptedCount, mGameSession>>
    BY <1>4, <1>7 DEF PlayerLogin
  <2>2. Level(On("Disconnect", s)) <= Level(stack[t][1]) BY <1>4, <1>5
  <2>3. Stacks' /\ Moves(t, On("PlayerLogin", s), {On("Disconnect", s)})
    BY <1>3, <1>4, <1>5, <2>1, <2>2, OneMoves
  <2> QED BY <1>1, <1>3, <1>4, <1>7, <2>1, <2>3 DEF PlayerLogin, LoginView
<1> QED BY <1>6, <1>7

LEMMA SetIdViews ==
  ASSUME Stacks, NEW t \in Worker, SetPlayerId(t)
  PROVE  Stacks' /\ \E s \in Player : SetIdView(t, s)
<1>1. Stands(t, "SetPlayerId") BY DEF SetPlayerId
<1>2. "SetPlayerId" \in Labels BY DEF Labels
<1>3. /\ Running /\ stack[t] # <<>>
      /\ \E s \in Player : /\ Self(t) = s /\ stack[t][1] = On("SetPlayerId", s)
                           /\ Tops(t, On("SetPlayerId", s))
  BY <1>1, <1>2, StandsOn
<1>4. PICK s \in Player : /\ Self(t) = s /\ stack[t][1] = On("SetPlayerId", s)
                          /\ Tops(t, On("SetPlayerId", s))
  BY <1>3
<1>5. Answer(s) \in Msg BY DEF Answer, Message, Msg
<1>6. /\ Packet("PostSend", s, Answer(s)) \in Frame
      /\ Level(Packet("PostSend", s, Answer(s))) = 5 /\ Level(On("SetPlayerId", s)) = 6
  BY <1>5, OnIs, PacketIs DEF Labels, PacketLabels, Level, LevelOf
<1>7. /\ mPlayerSessionId' = Set(mPlayerSessionId, s, s)
      /\ Become(t, <<Packet("PostSend", s, Answer(s))>>)
  BY <1>4 DEF SetPlayerId, Answer
<1>8. Level(Packet("PostSend", s, Answer(s))) <= Level(stack[t][1]) BY <1>4, <1>6
<1>9. Stacks' /\ Moves(t, On("SetPlayerId", s), {Packet("PostSend", s, Answer(s))})
  BY <1>3, <1>4, <1>6, <1>7, <1>8, OneMoves
<1> QED BY <1>3, <1>4, <1>7, <1>9 DEF SetPlayerId, SetIdView

LEMMA RemoveViews ==
  ASSUME Stacks, NEW t \in Worker, RemovePlayerSession(t)
  PROVE  Stacks' /\ \E s \in Player : RemoveView(t, s)
<1>1. Stands(t, "RemovePlayerSession") /\ mLock = Nobody BY DEF RemovePlayerSession
<1>2. "RemovePlayerSession" \in Labels BY DEF Labels
<1>3. /\ Running /\ stack[t] # <<>>
      /\ \E s \in Player : /\ Self(t) = s /\ stack[t][1] = On("RemovePlayerSession", s)
                           /\ Tops(t, On("RemovePlayerSession", s))
  BY <1>1, <1>2, StandsOn
<1>4. PICK s \in Player : /\ Self(t) = s /\ stack[t][1] = On("RemovePlayerSession", s)
                          /\ Tops(t, On("RemovePlayerSession", s))
  BY <1>3
<1>5. Return(t) BY DEF RemovePlayerSession
<1>6. Stacks' /\ Moves(t, On("RemovePlayerSession", s), {})
  BY <1>3, <1>4, <1>5, ReturnMoves
<1> DEFINE removed == IF service[s] = "active" THEN mRemovedCount + 1 ELSE mRemovedCount
<1>7. /\ mRemovedCount' = removed
      /\ service' = IF service[s] = "active" THEN Set(service, s, "completed") ELSE service
      /\ IF CheckTerminateGameSession(mAcceptedCount, removed)
         THEN TerminateGameSession("full")
         ELSE /\ mGameSession' = IF service[s] = "active" THEN mGameSession \ {s}
                                 ELSE mGameSession
              /\ UNCHANGED <<mActivated, exitCode>>
  BY <1>4 DEF RemovePlayerSession
<1>8. \/ /\ service[s] = "active"
         /\ mRemovedCount' = mRemovedCount + 1
         /\ service' = Set(service, s, "completed")
      \/ /\ service[s] # "active"
         /\ UNCHANGED <<mRemovedCount, service>>
  BY <1>7
<1>9. \/ /\ CheckTerminateGameSession(mAcceptedCount, mRemovedCount')
         /\ TerminateGameSession("full")
      \/ /\ ~ CheckTerminateGameSession(mAcceptedCount, mRemovedCount')
         /\ mGameSession' = IF service[s] = "active" THEN mGameSession \ {s}
                            ELSE mGameSession
         /\ UNCHANGED <<mActivated, exitCode>>
  <2> HIDE DEF removed
  <2> QED BY <1>7
<1> HIDE DEF removed
<1> QED BY <1>1, <1>3, <1>4, <1>6, <1>8, <1>9 DEF RemovePlayerSession, RemoveView

LEMMA ClearViews ==
  ASSUME Stacks, NEW t \in Worker, ClearPlayerId(t)
  PROVE  Stacks' /\ \E s \in Player : ClearView(t, s)
<1>1. Stands(t, "ClearPlayerId") BY DEF ClearPlayerId
<1>2. "ClearPlayerId" \in Labels BY DEF Labels
<1>3. /\ Running /\ stack[t] # <<>>
      /\ \E s \in Player : /\ Self(t) = s /\ stack[t][1] = On("ClearPlayerId", s)
                           /\ Tops(t, On("ClearPlayerId", s))
  BY <1>1, <1>2, StandsOn
<1>4. PICK s \in Player : /\ Self(t) = s /\ stack[t][1] = On("ClearPlayerId", s)
                          /\ Tops(t, On("ClearPlayerId", s))
  BY <1>3
<1>5. Return(t) BY DEF ClearPlayerId
<1>6. Stacks' /\ Moves(t, On("ClearPlayerId", s), {})
  BY <1>3, <1>4, <1>5, ReturnMoves
<1> QED BY <1>3, <1>4, <1>6 DEF ClearPlayerId, ClearView

LEMMA DisconnectViews ==
  ASSUME Stacks, NEW t \in Worker, Disconnect(t)
  PROVE  Stacks' /\ \E s \in Player : DisconnectView(t, s)
<1>1. Stands(t, "Disconnect") BY DEF Disconnect
<1>2. "Disconnect" \in Labels BY DEF Labels
<1>3. /\ Running /\ stack[t] # <<>>
      /\ \E s \in Player : /\ Self(t) = s /\ stack[t][1] = On("Disconnect", s)
                           /\ Tops(t, On("Disconnect", s))
  BY <1>1, <1>2, StandsOn
<1>4. PICK s \in Player : /\ Self(t) = s /\ stack[t][1] = On("Disconnect", s)
                          /\ Tops(t, On("Disconnect", s))
  BY <1>3
<1>5. /\ On("OnDisconnect", s) \in Frame /\ On("closesocket", s) \in Frame
      /\ Level(On("OnDisconnect", s)) = 3 /\ Level(On("closesocket", s)) = 4
      /\ Level(On("Disconnect", s)) = 4 /\ On("closesocket", s).at \notin Leaf
  BY OnIs DEF Labels, Level, LevelOf, Leaf
<1>6. mConnected' = Set(mConnected, s, FALSE) BY <1>4 DEF Disconnect
<1>7. CASE mConnected[s]
  <2>1. Become(t, <<On("OnDisconnect", s), On("closesocket", s)>>)
    BY <1>4, <1>7 DEF Disconnect
  <2>2. /\ Level(On("OnDisconnect", s)) < Level(On("closesocket", s))
        /\ Level(On("closesocket", s)) <= Level(stack[t][1])
    BY <1>4, <1>5
  <2>3. stack' = [stack EXCEPT ![t] =
                    <<On("OnDisconnect", s), On("closesocket", s)>> \o Tail(stack[t])]
    BY <2>1 DEF Become
  <2>4. Stacks' /\ Moves(t, On("Disconnect", s), {On("OnDisconnect", s), On("closesocket", s)})
    BY <1>3, <1>4, <1>5, <2>2, <2>3, TwoMoves
  <2> QED BY <1>3, <1>4, <1>6, <1>7, <2>4 DEF Disconnect, DisconnectView
<1>8. CASE ~ mConnected[s]
  <2>1. Return(t) BY <1>4, <1>8 DEF Disconnect
  <2>2. Stacks' /\ Moves(t, On("Disconnect", s), {})
    BY <1>3, <1>4, <2>1, ReturnMoves
  <2> QED BY <1>3, <1>4, <1>6, <1>8, <2>2 DEF Disconnect, DisconnectView
<1> QED BY <1>7, <1>8

LEMMA OnDisconnectViews ==
  ASSUME Stacks, NEW t \in Worker, OnDisconnect(t)
  PROVE  Stacks' /\ \E s \in Player : OnDisconnectView(t, s)
<1>1. Stands(t, "OnDisconnect") BY DEF OnDisconnect
<1>2. "OnDisconnect" \in Labels BY DEF Labels
<1>3. /\ Running /\ stack[t] # <<>>
      /\ \E s \in Player : /\ Self(t) = s /\ stack[t][1] = On("OnDisconnect", s)
                           /\ Tops(t, On("OnDisconnect", s))
  BY <1>1, <1>2, StandsOn
<1>4. PICK s \in Player : /\ Self(t) = s /\ stack[t][1] = On("OnDisconnect", s)
                          /\ Tops(t, On("OnDisconnect", s))
  BY <1>3
<1>5. /\ On("RemovePlayerSession", s) \in Frame /\ On("ClearPlayerId", s) \in Frame
      /\ Level(On("RemovePlayerSession", s)) = 2 /\ Level(On("ClearPlayerId", s)) = 3
      /\ Level(On("OnDisconnect", s)) = 3 /\ On("ClearPlayerId", s).at \notin Leaf
  BY OnIs DEF Labels, Level, LevelOf, Leaf
<1>6. CASE mPlayerSessionId[s] # NoId
  <2>1. Become(t, <<On("RemovePlayerSession", s), On("ClearPlayerId", s)>>)
    BY <1>4, <1>6 DEF OnDisconnect
  <2>2. /\ Level(On("RemovePlayerSession", s)) < Level(On("ClearPlayerId", s))
        /\ Level(On("ClearPlayerId", s)) <= Level(stack[t][1])
    BY <1>4, <1>5
  <2>3. stack' = [stack EXCEPT ![t] =
                    <<On("RemovePlayerSession", s), On("ClearPlayerId", s)>> \o Tail(stack[t])]
    BY <2>1 DEF Become
  <2>4. Stacks' /\ Moves(t, On("OnDisconnect", s),
                         {On("RemovePlayerSession", s), On("ClearPlayerId", s)})
    BY <1>3, <1>4, <1>5, <2>2, <2>3, TwoMoves
  <2> QED BY <1>3, <1>4, <1>6, <2>4 DEF OnDisconnect, OnDisconnectView
<1>7. CASE mPlayerSessionId[s] = NoId
  <2>1. Return(t) BY <1>4, <1>7 DEF OnDisconnect
  <2>2. Stacks' /\ Moves(t, On("OnDisconnect", s), {})
    BY <1>3, <1>4, <2>1, ReturnMoves
  <2> QED BY <1>3, <1>4, <1>7, <2>2 DEF OnDisconnect, OnDisconnectView
<1> QED BY <1>6, <1>7

LEMMA CloseViews ==
  ASSUME Stacks, NEW t \in Worker, CloseSocket(t)
  PROVE  Stacks' /\ \E s \in Player : CloseView(t, s)
<1>1. Stands(t, "closesocket") BY DEF CloseSocket
<1>2. "closesocket" \in Labels BY DEF Labels
<1>3. /\ Running /\ stack[t] # <<>>
      /\ \E s \in Player : /\ Self(t) = s /\ stack[t][1] = On("closesocket", s)
                           /\ Tops(t, On("closesocket", s))
  BY <1>1, <1>2, StandsOn
<1>4. PICK s \in Player : /\ Self(t) = s /\ stack[t][1] = On("closesocket", s)
                          /\ Tops(t, On("closesocket", s))
  BY <1>3
<1>5. Return(t) BY DEF CloseSocket
<1>6. Stacks' /\ Moves(t, On("closesocket", s), {})
  BY <1>3, <1>4, <1>5, ReturnMoves
<1> QED BY <1>3, <1>4, <1>6 DEF CloseSocket, CloseView

LEMMA FlushFailedViews ==
  ASSUME Stacks, NEW t \in Worker, FlushFailed(t)
  PROVE  Stacks' /\ \E s \in Player : FlushFailedView(t, s)
<1>1. Stands(t, "FlushFailed") BY DEF FlushFailed
<1>2. "FlushFailed" \in Labels BY DEF Labels
<1>3. /\ Running /\ stack[t] # <<>>
      /\ \E s \in Player : /\ Self(t) = s /\ stack[t][1] = On("FlushFailed", s)
                           /\ Tops(t, On("FlushFailed", s))
  BY <1>1, <1>2, StandsOn
<1>4. PICK s \in Player : /\ Self(t) = s /\ stack[t][1] = On("FlushFailed", s)
                          /\ Tops(t, On("FlushFailed", s))
  BY <1>3
<1>5. Return(t) /\ ret' = [ret EXCEPT ![t] = FALSE] BY DEF FlushFailed, ReturnValue
<1>6. Stacks' /\ Moves(t, On("FlushFailed", s), {})
  BY <1>3, <1>4, <1>5, ReturnMoves
<1> QED BY <1>3, <1>4, <1>5, <1>6 DEF FlushFailed, FlushFailedView

LEMMA PostViews ==
  ASSUME Stacks, NEW t \in Worker, PostSend(t)
  PROVE  Stacks' /\ \E s \in Player, m \in Msg : PostView(t, s, m)
<1>1. Stands(t, "PostSend") BY DEF PostSend
<1>2. "PostSend" \in PacketLabels BY DEF PacketLabels
<1>3. /\ Running /\ stack[t] # <<>>
      /\ \E s \in Player, m \in Msg :
           /\ Self(t) = s /\ stack[t][1] = Packet("PostSend", s, m)
           /\ stack[t][1].m = m /\ Tops(t, Packet("PostSend", s, m))
  BY <1>1, <1>2, StandsPacket
<1>4. PICK s \in Player, m \in Msg :
           /\ Self(t) = s /\ stack[t][1] = Packet("PostSend", s, m)
           /\ stack[t][1].m = m /\ Tops(t, Packet("PostSend", s, m))
  BY <1>3
<1>5. /\ Packet("PostSendLock", s, m) \in Frame
      /\ Level(Packet("PostSendLock", s, m)) = 5 /\ Level(Packet("PostSend", s, m)) = 5
  BY PacketIs DEF PacketLabels, Level, LevelOf
<1>6. CASE mConnected[s]
  <2>1. Become(t, <<Packet("PostSendLock", s, m)>>) /\ UNCHANGED ret
    BY <1>4, <1>6 DEF PostSend
  <2>2. Level(Packet("PostSendLock", s, m)) <= Level(stack[t][1]) BY <1>4, <1>5
  <2>3. Stacks' /\ Moves(t, Packet("PostSend", s, m), {Packet("PostSendLock", s, m)})
    BY <1>3, <1>4, <1>5, <2>1, <2>2, OneMoves
  <2> QED BY <1>3, <1>4, <1>6, <2>1, <2>3 DEF PostSend, PostView
<1>7. CASE ~ mConnected[s]
  <2>1. Return(t) /\ ret' = [ret EXCEPT ![t] = FALSE]
    BY <1>4, <1>7 DEF PostSend, ReturnValue
  <2>2. Stacks' /\ Moves(t, Packet("PostSend", s, m), {})
    BY <1>3, <1>4, <2>1, ReturnMoves
  <2> QED BY <1>3, <1>4, <1>7, <2>1, <2>2 DEF PostSend, PostView
<1> QED BY <1>6, <1>7

LEMMA PostLockViews ==
  ASSUME Types, Stacks, NEW t \in Worker, PostSendLock(t)
  PROVE  Stacks' /\ \E s \in Player, m \in Msg : PostLockView(t, s, m)
<1>1. Stands(t, "PostSendLock") BY DEF PostSendLock
<1>2. "PostSendLock" \in PacketLabels BY DEF PacketLabels
<1>3. /\ Running /\ stack[t] # <<>>
      /\ \E s \in Player, m \in Msg :
           /\ Self(t) = s /\ stack[t][1] = Packet("PostSendLock", s, m)
           /\ stack[t][1].m = m /\ Tops(t, Packet("PostSendLock", s, m))
  BY <1>1, <1>2, StandsPacket
<1>4. PICK s \in Player, m \in Msg :
           /\ Self(t) = s /\ stack[t][1] = Packet("PostSendLock", s, m)
           /\ stack[t][1].m = m /\ Tops(t, Packet("PostSendLock", s, m))
  BY <1>3
<1> DEFINE f == Packet("PostSendLock", s, m)
<1>5. /\ On("Disconnect", s) \in Frame /\ On("FlushFailed", s) \in Frame
      /\ Level(On("Disconnect", s)) = 4 /\ Level(On("FlushFailed", s)) = 5
      /\ Level(f) = 5 /\ On("FlushFailed", s).at \notin Leaf
  BY OnIs, PacketIs DEF Labels, PacketLabels, Level, LevelOf, Leaf
<1>6. outbox[s] \in Seq(Msg) BY DEF Types
<1>7. PICK box : box = Append(outbox[s], m) /\ Len(box) = Len(outbox[s]) + 1
  <2>1. \A q \in Seq(Msg) : Len(Append(q, m)) = Len(q) + 1 OBVIOUS
  <2> QED BY <1>6, <2>1
<1>8. \/ /\ Len(box) > SendCap
         /\ ReturnValue(t, FALSE)
         /\ UNCHANGED <<outbox, send, sending, mSendBufferLock>>
      \/ /\ Len(box) <= SendCap /\ send[s] # "none"
         /\ outbox' = Set(outbox, s, box)
         /\ ReturnValue(t, TRUE)
         /\ UNCHANGED <<send, sending, mSendBufferLock>>
      \/ /\ Len(box) <= SendCap /\ send[s] = "none"
         /\ outbox' = Set(outbox, s, box)
         /\ FlushSend(t, s, box, Tail(stack[t]), TRUE)
  BY <1>4, <1>7 DEF PostSendLock
<1>9. UNCHANGED <<manager, mConnected, mPlayerSessionId, recv, socketOpen, world>>
  BY DEF PostSendLock
<1> HIDE DEF f
<1>10. stack[t][1] = f BY <1>4 DEF f
<1>11. ASSUME Return(t) PROVE Stacks' /\ Moves(t, f, {})
  BY <1>11, <1>3, <1>10, ReturnMoves
<1>12. CASE /\ Len(box) > SendCap
            /\ ReturnValue(t, FALSE)
            /\ UNCHANGED <<outbox, send, sending, mSendBufferLock>>
  <2>1. Stacks' /\ Moves(t, f, {}) /\ ret' = [ret EXCEPT ![t] = FALSE]
    BY <1>11, <1>12 DEF ReturnValue, Set
  <2> QED BY <1>3, <1>4, <1>7, <1>9, <1>12, <2>1 DEF PostLockView, f
<1>13. CASE /\ Len(box) <= SendCap /\ send[s] # "none"
            /\ outbox' = Set(outbox, s, box)
            /\ ReturnValue(t, TRUE)
            /\ UNCHANGED <<send, sending, mSendBufferLock>>
  <2>1. Stacks' /\ Moves(t, f, {}) /\ ret' = [ret EXCEPT ![t] = TRUE]
    BY <1>11, <1>13 DEF ReturnValue, Set
  <2> QED BY <1>3, <1>4, <1>7, <1>9, <1>13, <2>1 DEF PostLockView, f
<1>14. CASE /\ Len(box) <= SendCap /\ send[s] = "none"
            /\ outbox' = Set(outbox, s, box)
            /\ FlushSend(t, s, box, Tail(stack[t]), TRUE)
  <2>1. CASE /\ socketOpen[s]
             /\ send' = Set(send, s, "flying") /\ sending' = Set(sending, s, Len(box))
             /\ stack' = Set(stack, t, Tail(stack[t])) /\ ret' = Set(ret, t, TRUE)
             /\ UNCHANGED mSendBufferLock
    <3>1. Return(t)
      <4>1. Tail(stack[t]) \in Seq(Frame)
        <5>1. stack[t] \in Seq(Frame) BY DEF Stacks
        <5> QED BY <5>1, <1>3
      <4>2. <<>> \o Tail(stack[t]) = Tail(stack[t]) BY <4>1
      <4> QED BY <2>1, <4>2 DEF Return, Become, Set
    <3>2. Stacks' /\ Moves(t, f, {}) BY <3>1, <1>11
    <3>3. ret' = [ret EXCEPT ![t] = TRUE] BY <2>1 DEF Set
    <3>4. SendFlies(t, s, f, Len(outbox[s]) + 1) BY <2>1, <3>2, <1>7 DEF SendFlies
    <3> QED BY <1>3, <1>4, <1>7, <1>9, <1>14, <3>2, <3>3, <3>4 DEF PostLockView, f
  <2>2. CASE /\ ~ socketOpen[s] \/ SendMayFail
             /\ mSendBufferLock' = Set(mSendBufferLock, s, t)
             /\ send' = Set(send, s, "none") /\ sending' = Set(sending, s, 0)
             /\ stack' = Set(stack, t, <<On("Disconnect", s), On("FlushFailed", s)>>
                                       \o Tail(stack[t]))
             /\ UNCHANGED ret
    <3>1. stack' = [stack EXCEPT ![t] = <<On("Disconnect", s), On("FlushFailed", s)>>
                                        \o Tail(stack[t])]
      BY <2>2 DEF Set
    <3>2. /\ Level(On("Disconnect", s)) < Level(On("FlushFailed", s))
          /\ Level(On("FlushFailed", s)) <= Level(stack[t][1])
      BY <1>5, <1>10
    <3>3. Stacks' /\ Moves(t, f, {On("Disconnect", s), On("FlushFailed", s)})
      BY <1>3, <1>5, <1>10, <3>1, <3>2, TwoMoves
    <3>4. SendBreaks(t, s, f) BY <2>2, <3>3 DEF SendBreaks
    <3> QED BY <1>3, <1>4, <1>7, <1>9, <1>14, <3>3, <3>4 DEF PostLockView, f
  <2> QED BY <1>14, <2>1, <2>2 DEF FlushSend
<1> QED BY <1>8, <1>12, <1>13, <1>14

(* A broadcast that gets mLock has a game session, see LockedGame.         *)
LEMMA BroadcastViews ==
  ASSUME Types, Stacks, NEW t \in Worker, BroadcastMessage(t), mGameSession # NoGame
  PROVE  Stacks' /\ \E s \in Player, m \in Msg : BroadcastView(t, s, m)
<1>1. Stands(t, "BroadcastMessage") /\ mLock = Nobody BY DEF BroadcastMessage
<1>2. "BroadcastMessage" \in PacketLabels BY DEF PacketLabels
<1>3. /\ Running /\ stack[t] # <<>>
      /\ \E s \in Player, m \in Msg :
           /\ Self(t) = s /\ stack[t][1] = Packet("BroadcastMessage", s, m)
           /\ stack[t][1].m = m /\ Tops(t, Packet("BroadcastMessage", s, m))
  BY <1>1, <1>2, StandsPacket
<1>4. PICK s \in Player, m \in Msg :
           /\ Self(t) = s /\ stack[t][1] = Packet("BroadcastMessage", s, m)
           /\ stack[t][1].m = m /\ Tops(t, Packet("BroadcastMessage", s, m))
  BY <1>3
<1>5. mGameSession \in SUBSET Player BY DEF Types
<1>6. /\ Loop(m, mGameSession) \in Frame /\ Level(Loop(m, mGameSession)) = 7
      /\ Level(Packet("BroadcastMessage", s, m)) = 7
  BY <1>5, PacketIs, LoopIs DEF PacketLabels, Level, LevelOf
<1>7. Become(t, <<Loop(m, mGameSession)>>) /\ mLock' = t BY <1>4 DEF BroadcastMessage
<1>8. Level(Loop(m, mGameSession)) <= Level(stack[t][1]) BY <1>4, <1>6
<1>9. Stacks' /\ Moves(t, Packet("BroadcastMessage", s, m), {Loop(m, mGameSession)})
  BY <1>3, <1>4, <1>6, <1>7, <1>8, OneMoves
<1> QED BY <1>1, <1>3, <1>4, <1>5, <1>7, <1>9 DEF BroadcastMessage, BroadcastView

LEMMA ThreeMoves ==
  ASSUME Stacks, NEW t \in Worker, stack[t] # <<>>, NEW f \in Frame, NEW g \in Frame,
         NEW h \in Frame, Level(f) < Level(g), Level(g) < Level(h),
         g.at \notin Leaf, h.at \notin Leaf, Level(h) <= Level(stack[t][1]),
         Become(t, <<f, g, h>>)
  PROVE  Stacks' /\ Moves(t, stack[t][1], {f, g, h})
<1>1. /\ <<f, g>> \in Seq(Frame) /\ Frames(<<f, g>>) = {f, g} /\ Nested(<<f, g>>)
  BY FramesTwo
<1>2. <<h>> \in Seq(Frame) /\ Frames(<<h>>) = {h} /\ Nested(<<h>>) BY FramesOne
<1>3. <<f, g, h>> = <<f, g>> \o <<h>> OBVIOUS
<1>4. Level(f) \in Nat /\ Level(g) \in Nat /\ Level(h) \in Nat /\ Level(stack[t][1]) \in Nat
  BY LevelNat
<1>5. \A a \in Frames(<<f, g>>), b \in Frames(<<h>>) : Level(a) < Level(b)
  BY <1>1, <1>2, <1>4
<1>6. \A b \in Frames(<<h>>) : b.at \notin Leaf BY <1>2
<1>7. Nested(<<f, g>> \o <<h>>) BY <1>1, <1>2, <1>5, <1>6, NestedJoin
<1>8. /\ <<f, g>> \o <<h>> \in Seq(Frame)
      /\ Frames(<<f, g>> \o <<h>>) = {f, g} \cup {h}
  BY <1>1, <1>2, FramesJoin
<1>9. \A a \in Frames(<<f, g, h>>) : Level(a) <= Level(stack[t][1])
  <2>1. \A a \in {f, g} \cup {h} : Level(a) <= Level(stack[t][1]) BY <1>4
  <2> QED BY <2>1, <1>3, <1>8
<1>10. <<f, g, h>> \in Seq(Frame) /\ Nested(<<f, g, h>>) BY <1>3, <1>7, <1>8
<1>11. stack' = [stack EXCEPT ![t] = <<f, g, h>> \o Tail(stack[t])] BY DEF Become
<1>12. Stacks' /\ Moves(t, stack[t][1], Frames(<<f, g, h>>))
  BY <1>9, <1>10, <1>11, BecomeMoves
<1>13. Frames(<<f, g, h>>) = {f, g, h} BY <1>3, <1>8
<1> QED BY <1>12, <1>13

LEMMA LoopViews ==
  ASSUME Stacks, NEW t \in Worker, BroadcastLoop(t)
  PROVE  Stacks' /\ \E m \in Msg, todo \in SUBSET Player : LoopView(t, m, todo)
<1>1. Stands(t, "BroadcastLoop") BY DEF BroadcastLoop
<1>2. /\ Running /\ stack[t] # <<>>
      /\ \E m \in Msg, todo \in SUBSET Player :
              /\ stack[t][1] = Loop(m, todo) /\ Tops(t, Loop(m, todo))
              /\ stack[t][1].m = m /\ stack[t][1].todo = todo
  BY <1>1, StandsLoop
<1>3. PICK m \in Msg, todo \in SUBSET Player :
              /\ stack[t][1] = Loop(m, todo) /\ Tops(t, Loop(m, todo))
              /\ stack[t][1].m = m /\ stack[t][1].todo = todo
  BY <1>2
<1>4. UNCHANGED <<mActivated, mAcceptedCount, mRemovedCount, mGameSession,
                  exitCode, sessions, ret, world>>
  BY DEF BroadcastLoop
<1>5. CASE todo = {} /\ mLock' = Nobody /\ Return(t)
  <2>1. Stacks' /\ Moves(t, Loop(m, todo), {}) BY <1>2, <1>3, <1>5, ReturnMoves
  <2> QED BY <1>2, <1>3, <1>4, <1>5, <2>1 DEF LoopView
<1>6. ASSUME NEW s \in todo,
             Become(t, <<Packet("PostSend", s, m), On("BroadcastResult", s),
                         Loop(m, todo \ {s})>>),
             UNCHANGED mLock
      PROVE  Stacks' /\ LoopView(t, m, todo)
  <2>1. s \in Player /\ todo \ {s} \in SUBSET Player OBVIOUS
  <2>2. /\ Packet("PostSend", s, m) \in Frame /\ On("BroadcastResult", s) \in Frame
        /\ Loop(m, todo \ {s}) \in Frame
        /\ Level(Packet("PostSend", s, m)) = 5 /\ Level(On("BroadcastResult", s)) = 6
        /\ Level(Loop(m, todo \ {s})) = 7 /\ Level(Loop(m, todo)) = 7
        /\ On("BroadcastResult", s).at \notin Leaf /\ Loop(m, todo \ {s}).at \notin Leaf
    BY <2>1, OnIs, PacketIs, LoopIs DEF Labels, PacketLabels, Level, LevelOf, Leaf
  <2>3. /\ Level(Packet("PostSend", s, m)) < Level(On("BroadcastResult", s))
        /\ Level(On("BroadcastResult", s)) < Level(Loop(m, todo \ {s}))
        /\ Level(Loop(m, todo \ {s})) <= Level(stack[t][1])
    BY <2>2, <1>3
  <2> DEFINE f == Packet("PostSend", s, m)
             g == On("BroadcastResult", s)
             h == Loop(m, todo \ {s})
  <2>5. /\ f \in Frame /\ g \in Frame /\ h \in Frame
        /\ Level(f) < Level(g) /\ Level(g) < Level(h)
        /\ g.at \notin Leaf /\ h.at \notin Leaf /\ Level(h) <= Level(stack[t][1])
    BY <2>2, <2>3
  <2>6. Become(t, <<f, g, h>>) BY <1>6
  <2>7. stack[t] # <<>> BY <1>2
  <2> HIDE DEF f, g, h
  <2>8. Stacks' /\ Moves(t, stack[t][1], {f, g, h}) BY <2>5, <2>6, <2>7, ThreeMoves
  <2>4. Stacks' /\ Moves(t, Loop(m, todo), {Packet("PostSend", s, m),
                                           On("BroadcastResult", s), Loop(m, todo \ {s})})
    BY <2>8, <1>3 DEF f, g, h
  <2> QED BY <1>2, <1>3, <1>4, <1>6, <2>4 DEF LoopView
<1>7. \/ todo = {} /\ mLock' = Nobody /\ Return(t)
      \/ \E s \in todo :
             /\ Become(t, <<Packet("PostSend", s, m), On("BroadcastResult", s),
                            Loop(m, todo \ {s})>>)
             /\ UNCHANGED mLock
  BY <1>3 DEF BroadcastLoop
<1> QED BY <1>5, <1>6, <1>7

LEMMA ResultViews ==
  ASSUME Stacks, NEW t \in Worker, BroadcastResult(t)
  PROVE  Stacks' /\ \E s \in Player : ResultView(t, s)
<1>1. Stands(t, "BroadcastResult") BY DEF BroadcastResult
<1>2. "BroadcastResult" \in Labels BY DEF Labels
<1>3. /\ Running /\ stack[t] # <<>>
      /\ \E s \in Player : /\ Self(t) = s /\ stack[t][1] = On("BroadcastResult", s)
                           /\ Tops(t, On("BroadcastResult", s))
  BY <1>1, <1>2, StandsOn
<1>4. PICK s \in Player : /\ Self(t) = s /\ stack[t][1] = On("BroadcastResult", s)
                          /\ Tops(t, On("BroadcastResult", s))
  BY <1>3
<1>5. /\ On("Disconnect", s) \in Frame
      /\ Level(On("Disconnect", s)) = 4 /\ Level(On("BroadcastResult", s)) = 6
  BY OnIs DEF Labels, Level, LevelOf
<1>6. CASE ret[t]
  <2>1. Return(t) BY <1>6 DEF BroadcastResult
  <2>2. Stacks' /\ Moves(t, On("BroadcastResult", s), {})
    BY <1>3, <1>4, <2>1, ReturnMoves
  <2> QED BY <1>3, <1>4, <1>6, <2>2 DEF BroadcastResult, ResultView
<1>7. CASE ~ ret[t]
  <2>1. Become(t, <<On("Disconnect", s)>>) BY <1>4, <1>7 DEF BroadcastResult
  <2>2. Level(On("Disconnect", s)) <= Level(stack[t][1]) BY <1>4, <1>5
  <2>3. Stacks' /\ Moves(t, On("BroadcastResult", s), {On("Disconnect", s)})
    BY <1>3, <1>4, <1>5, <2>1, <2>2, OneMoves
  <2> QED BY <1>3, <1>4, <1>7, <2>3 DEF BroadcastResult, ResultView
<1> QED BY <1>6, <1>7

LEMMA SendDoneViews ==
  ASSUME Stacks, NEW t \in Worker, NEW s \in Player, SendDone(t, s)
  PROVE  Stacks' /\ SendDoneView(t, s)
<1>1. Idle(t) /\ Running /\ send' = Set(send, s, "handled") BY DEF SendDone
<1>2. On("SendCompletion", s) \in Frame /\ On("Disconnect", s) \in Frame
  BY OnIs DEF Labels
<1>3. UNCHANGED <<manager, mConnected, mPlayerSessionId, mSendBufferLock,
                  outbox, sending, recv, socketOpen, ret, world>>
  BY DEF SendDone
<1>4. ASSUME NEW f \in Frame, Start(t, <<f>>)
      PROVE  Stacks' /\ Begins(t, {f})
  <2>1. <<f>> \in Seq(Frame) /\ Frames(<<f>>) = {f} /\ Nested(<<f>>) BY FramesOne
  <2> QED BY <1>1, <1>4, <2>1, StartBegins
<1>5. CASE send[s] = "done" /\ Start(t, <<On("SendCompletion", s)>>)
  BY <1>1, <1>2, <1>3, <1>4, <1>5 DEF SendDoneView
<1>6. CASE send[s] = "failed" /\ Start(t, <<On("Disconnect", s)>>)
  BY <1>1, <1>2, <1>3, <1>4, <1>6 DEF SendDoneView
<1> QED BY <1>5, <1>6 DEF SendDone

LEMMA CompletionViews ==
  ASSUME Types, Stacks, NEW t \in Worker, SendCompletion(t)
  PROVE  Stacks' /\ \E s \in Player : CompletionView(t, s)
<1>1. Stands(t, "SendCompletion") BY DEF SendCompletion
<1>2. "SendCompletion" \in Labels BY DEF Labels
<1>3. /\ Running /\ stack[t] # <<>>
      /\ \E s \in Player : /\ Self(t) = s /\ stack[t][1] = On("SendCompletion", s)
                           /\ Tops(t, On("SendCompletion", s))
  BY <1>1, <1>2, StandsOn
<1>4. PICK s \in Player : /\ Self(t) = s /\ stack[t][1] = On("SendCompletion", s)
                          /\ Tops(t, On("SendCompletion", s))
  BY <1>3
<1> DEFINE f == On("SendCompletion", s)
<1>5. /\ On("Disconnect", s) \in Frame /\ On("FlushFailed", s) \in Frame
      /\ Level(On("Disconnect", s)) = 4 /\ Level(On("FlushFailed", s)) = 5
      /\ Level(f) = 9 /\ On("FlushFailed", s).at \notin Leaf
  BY OnIs DEF Labels, Level, LevelOf, Leaf
<1>6. UNCHANGED <<manager, mConnected, mPlayerSessionId, recv, socketOpen, world>>
  BY DEF SendCompletion
<1>7. PICK rest : rest = SubSeq(outbox[s], sending[s] + 1, Len(outbox[s])) OBVIOUS
<1>8. /\ outbox' = Set(outbox, s, rest)
      /\ \/ FlushSend(t, s, rest, <<>>, ret[t])
         \/ /\ send' = Set(send, s, "none")
            /\ sending' = Set(sending, s, 0)
            /\ Return(t)
            /\ UNCHANGED <<mSendBufferLock, ret>>
  BY <1>4, <1>7 DEF SendCompletion
<1> HIDE DEF f
<1>9. stack[t][1] = f BY <1>4 DEF f
<1>10. Level(stack[t][1]) = 9 BY <1>5, <1>9
<1>11. stack[t] # <<>> BY <1>3
<1>12. Calls(t) = {f} /\ Tail(stack[t]) = <<>> BY <1>9, <1>10, <1>11, DeepestAlone
<1>13. ASSUME Return(t) PROVE Stacks' /\ Moves(t, f, {})
  BY <1>13, <1>9, <1>11, ReturnMoves
<1>14. CASE /\ send' = Set(send, s, "none")
            /\ sending' = Set(sending, s, 0)
            /\ Return(t)
            /\ UNCHANGED <<mSendBufferLock, ret>>
  BY <1>3, <1>6, <1>7, <1>8, <1>12, <1>13, <1>14 DEF CompletionView, f
<1>15. CASE /\ socketOpen[s]
            /\ send' = Set(send, s, "flying") /\ sending' = Set(sending, s, Len(rest))
            /\ stack' = Set(stack, t, <<>>) /\ ret' = Set(ret, t, ret[t])
            /\ UNCHANGED mSendBufferLock
  <2>1. Return(t)
    <3>1. <<>> \o Tail(stack[t]) = <<>> BY <1>12
    <3> QED BY <1>15, <3>1 DEF Return, Become, Set
  <2>2. Stacks' /\ Moves(t, f, {}) BY <2>1, <1>13
  <2>3. ret' = ret BY <1>15 DEF Set, Types
  <2>4. SendFlies(t, s, f, Len(rest)) BY <1>15, <2>2 DEF SendFlies
  <2> QED BY <1>3, <1>6, <1>7, <1>8, <1>12, <2>2, <2>3, <2>4 DEF CompletionView, f
<1>16. CASE /\ ~ socketOpen[s] \/ SendMayFail
            /\ mSendBufferLock' = Set(mSendBufferLock, s, t)
            /\ send' = Set(send, s, "none") /\ sending' = Set(sending, s, 0)
            /\ stack' = Set(stack, t, <<On("Disconnect", s), On("FlushFailed", s)>>
                                      \o <<>>)
            /\ UNCHANGED ret
  <2>1. stack' = [stack EXCEPT ![t] = <<On("Disconnect", s), On("FlushFailed", s)>>
                                      \o Tail(stack[t])]
    BY <1>16, <1>12 DEF Set
  <2>2. /\ Level(On("Disconnect", s)) < Level(On("FlushFailed", s))
        /\ Level(On("FlushFailed", s)) <= Level(stack[t][1])
    BY <1>5, <1>9
  <2>3. Stacks' /\ Moves(t, f, {On("Disconnect", s), On("FlushFailed", s)})
    BY <1>5, <1>9, <1>11, <2>1, <2>2, TwoMoves
  <2>4. SendBreaks(t, s, f) BY <1>16, <2>3 DEF SendBreaks
  <2> QED BY <1>3, <1>6, <1>7, <1>8, <1>12, <2>3, <2>4 DEF CompletionView, f
<1> QED BY <1>8, <1>14, <1>15, <1>16 DEF FlushSend

(* The handler of a request that a client can make.                        *)
LEMMA HandlerFrames ==
  ASSUME NEW s \in Player, NEW r \in Msg, r.kind \in {"login", "exit", "chat"}
  PROVE  /\ Handler(s, r) \in Seq(Frame) /\ Nested(Handler(s, r))
         /\ Frames(Handler(s, r)) = HandlerCalls(s, r)
         /\ \A f \in HandlerCalls(s, r) : Level(f) <= 7
<1>1. CASE r.kind = "login"
  <2>1. On("PlayerLogin", s) \in Frame /\ Level(On("PlayerLogin", s)) = 7
    BY OnIs DEF Labels, Level, LevelOf
  <2>2. Handler(s, r) = <<On("PlayerLogin", s)>> BY <1>1 DEF Handler
  <2>3. HandlerCalls(s, r) = {On("PlayerLogin", s)} BY <1>1 DEF HandlerCalls
  <2> QED BY <2>1, <2>2, <2>3, FramesOne
<1>2. CASE r.kind = "exit"
  <2> DEFINE f == On("RemovePlayerSession", s)
             g == On("ClearPlayerId", s)
             h == On("Disconnect", s)
  <2>1. /\ f \in Frame /\ g \in Frame /\ h \in Frame
        /\ Level(f) = 2 /\ Level(g) = 3 /\ Level(h) = 4
        /\ g.at \notin Leaf /\ h.at \notin Leaf
    BY OnIs DEF Labels, Level, LevelOf, Leaf
  <2>2. Handler(s, r) = <<f, g, h>> BY <1>2 DEF Handler, PlayerLogout
  <2>3. HandlerCalls(s, r) = {f, g, h} BY <1>2 DEF HandlerCalls
  <2> HIDE DEF f, g, h
  <2>4. <<f, g>> \in Seq(Frame) /\ Frames(<<f, g>>) = {f, g} /\ Nested(<<f, g>>)
    <3>1. Level(f) < Level(g) BY <2>1
    <3> QED BY <2>1, <3>1, FramesTwo
  <2>5. <<h>> \in Seq(Frame) /\ Frames(<<h>>) = {h} /\ Nested(<<h>>) BY <2>1, FramesOne
  <2>6. <<f, g, h>> = <<f, g>> \o <<h>> OBVIOUS
  <2>7. \A a \in Frames(<<f, g>>), b \in Frames(<<h>>) : Level(a) < Level(b)
    BY <2>1, <2>4, <2>5
  <2>8. \A b \in Frames(<<h>>) : b.at \notin Leaf BY <2>1, <2>5
  <2>9. Nested(<<f, g>> \o <<h>>) BY <2>4, <2>5, <2>7, <2>8, NestedJoin
  <2>10. /\ <<f, g>> \o <<h>> \in Seq(Frame)
         /\ Frames(<<f, g>> \o <<h>>) = {f, g} \cup {h}
    BY <2>4, <2>5, FramesJoin
  <2>11. \A a \in {f, g, h} : Level(a) <= 7 BY <2>1
  <2>12. {f, g} \cup {h} = {f, g, h} OBVIOUS
  <2>13. <<f, g, h>> \in Seq(Frame) /\ Nested(<<f, g, h>>) BY <2>6, <2>9, <2>10
  <2>14. Frames(<<f, g, h>>) = {f, g, h} BY <2>6, <2>10, <2>12
  <2> QED BY <2>2, <2>3, <2>11, <2>13, <2>14
<1>3. CASE r.kind = "chat"
  <2>1. /\ Packet("BroadcastMessage", s, r) \in Frame
        /\ Level(Packet("BroadcastMessage", s, r)) = 7
    BY PacketIs DEF PacketLabels, Level, LevelOf
  <2>2. Handler(s, r) = <<Packet("BroadcastMessage", s, r)>> BY <1>3 DEF Handler
  <2>3. HandlerCalls(s, r) = {Packet("BroadcastMessage", s, r)} BY <1>3 DEF HandlerCalls
  <2> QED BY <2>1, <2>2, <2>3, FramesOne
<1> QED BY <1>1, <1>2, <1>3

(* Frames under the handler.                                               *)
LEMMA HandlerOver ==
  ASSUME NEW s \in Player, NEW r \in Msg, r.kind \in {"login", "exit", "chat"},
         NEW q \in Seq(Frame), Nested(q),
         \A g \in Frames(q) : g.at \notin Leaf /\ Level(g) >= 8
  PROVE  /\ Handler(s, r) \o q \in Seq(Frame) /\ Nested(Handler(s, r) \o q)
         /\ Frames(Handler(s, r) \o q) = HandlerCalls(s, r) \cup Frames(q)
<1> DEFINE p == Handler(s, r)
<1>1. /\ p \in Seq(Frame) /\ Nested(p) /\ Frames(p) = HandlerCalls(s, r)
      /\ \A f \in Frames(p) : Level(f) <= 7
  BY HandlerFrames
<1> HIDE DEF p
<1>2. \A f \in Frames(p), g \in Frames(q) : Level(f) < Level(g)
  <2> SUFFICES ASSUME NEW f \in Frames(p), NEW g \in Frames(q)
               PROVE  Level(f) < Level(g)
    OBVIOUS
  <2>1. Level(f) <= 7 /\ Level(g) >= 8 BY <1>1
  <2>2. Level(f) \in Nat /\ Level(g) \in Nat BY LevelNat
  <2> QED BY <2>1, <2>2
<1>3. \A g \in Frames(q) : g.at \notin Leaf OBVIOUS
<1>4. Nested(p \o q) BY <1>1, <1>2, <1>3, NestedJoin
<1>5. p \o q \in Seq(Frame) /\ Frames(p \o q) = Frames(p) \cup Frames(q)
  BY <1>1, FramesJoin
<1> QED BY <1>1, <1>4, <1>5 DEF p

(* The first request of an inbox.                                          *)
LEMMA FirstRequest ==
  ASSUME Types, Requests, NEW s \in Player, inbox[s] # <<>>
  PROVE  /\ HandleNext(s) = Handler(s, inbox[s][1]) /\ inbox[s][1] \in Msg
         /\ inbox[s][1].kind \in {"login", "exit", "chat"}
<1>1. inbox[s] \in Seq(Msg) BY DEF Types
<1>2. PICK n \in Nat : n = Len(inbox[s]) BY <1>1
<1>3. n # 0 BY <1>1, <1>2, EmptySeq
<1>4. 1 \in 1 .. Len(inbox[s]) BY <1>2, <1>3
<1>5. inbox[s][1] \in Msg BY <1>1, <1>4
<1>6. inbox[s][1].kind \in {"login", "exit", "chat"} BY <1>4 DEF Requests
<1>7. Head(inbox[s]) = inbox[s][1] BY <1>1
<1> QED BY <1>5, <1>6, <1>7 DEF HandleNext

LEMMA RecvViews ==
  ASSUME Types, Stacks, Requests, NEW t \in Worker, NEW s \in Player,
         RecvCompletion(t, s)
  PROVE  Stacks' /\ RecvView(t, s)
<1>1. Idle(t) /\ Running /\ recv[s] = "posted" BY DEF RecvCompletion
<1>2. UNCHANGED <<manager, mConnected, mPlayerSessionId, mSendBufferLock,
                  outbox, send, sending, socketOpen, ret, gameStatus, service,
                  client, chats, got>>
  BY DEF RecvCompletion
<1>3. CASE /\ socketOpen[s] /\ inbox[s] # <<>>
           /\ recv' = Set(recv, s, "busy")
           /\ inbox' = Set(inbox, s, Tail(inbox[s]))
           /\ Start(t, HandleNext(s) \o <<On("OnRead", s), On("PreRecv", s)>>)
  <2> DEFINE r == inbox[s][1]
             q == <<On("OnRead", s), On("PreRecv", s)>>
  <2>1. HandleNext(s) = Handler(s, r) /\ r \in Msg /\ r.kind \in {"login", "exit", "chat"}
    BY <1>3, FirstRequest
  <2>2. /\ On("OnRead", s) \in Frame /\ On("PreRecv", s) \in Frame
        /\ Level(On("OnRead", s)) = 8 /\ Level(On("PreRecv", s)) = 9
        /\ On("OnRead", s).at \notin Leaf /\ On("PreRecv", s).at \notin Leaf
    BY OnIs DEF Labels, Level, LevelOf, Leaf
  <2>3. q \in Seq(Frame) /\ Frames(q) = {On("OnRead", s), On("PreRecv", s)} /\ Nested(q)
    <3>1. Level(On("OnRead", s)) < Level(On("PreRecv", s)) BY <2>2
    <3> QED BY <2>2, <3>1, FramesTwo
  <2>4. \A g \in Frames(q) : g.at \notin Leaf /\ Level(g) >= 8 BY <2>2, <2>3
  <2> HIDE DEF r, q
  <2>5. /\ Handler(s, r) \o q \in Seq(Frame) /\ Nested(Handler(s, r) \o q)
        /\ Frames(Handler(s, r) \o q) = HandlerCalls(s, r) \cup Frames(q)
    BY <2>1, <2>3, <2>4, HandlerOver
  <2>6. Start(t, Handler(s, r) \o q) BY <1>3, <2>1 DEF q
  <2>7. Stacks' /\ Begins(t, HandlerCalls(s, r) \cup Frames(q))
    BY <1>1, <2>5, <2>6, StartBegins
  <2>8. Begins(t, HandlerCalls(s, inbox[s][1]) \cup {On("OnRead", s), On("PreRecv", s)})
    BY <2>3, <2>7 DEF r
  <2> QED BY <1>1, <1>2, <1>3, <2>7, <2>8 DEF RecvView
<1>4. CASE /\ ~ socketOpen[s] \/ (client[s] = "hung up" /\ inbox[s] = <<>>)
           /\ recv' = Set(recv, s, "off")
           /\ Start(t, <<On("Disconnect", s)>>)
           /\ UNCHANGED inbox
  <2> DEFINE q == <<On("Disconnect", s)>>
  <2>1. On("Disconnect", s) \in Frame BY OnIs DEF Labels
  <2>2. q \in Seq(Frame) /\ Frames(q) = {On("Disconnect", s)} /\ Nested(q)
    BY <2>1, FramesOne
  <2>3. Start(t, q) BY <1>4
  <2> HIDE DEF q
  <2>4. Stacks' /\ Begins(t, {On("Disconnect", s)}) BY <1>1, <2>2, <2>3, StartBegins
  <2> QED BY <1>1, <1>2, <1>4, <2>4 DEF RecvView
<1> QED BY <1>3, <1>4 DEF RecvCompletion

LEMMA OnReadViews ==
  ASSUME Types, Stacks, Requests, NEW t \in Worker, OnRead(t)
  PROVE  Stacks' /\ \E s \in Player : OnReadView(t, s)
<1>1. Stands(t, "OnRead") BY DEF OnRead
<1>2. "OnRead" \in Labels BY DEF Labels
<1>3. /\ Running /\ stack[t] # <<>>
      /\ \E s \in Player : /\ Self(t) = s /\ stack[t][1] = On("OnRead", s)
                           /\ Tops(t, On("OnRead", s))
  BY <1>1, <1>2, StandsOn
<1>4. PICK s \in Player : /\ Self(t) = s /\ stack[t][1] = On("OnRead", s)
                          /\ Tops(t, On("OnRead", s))
  BY <1>3
<1>5. UNCHANGED <<manager, sessions, ret, gameStatus, service, client, chats, got>>
  BY DEF OnRead
<1>6. CASE Return(t) /\ UNCHANGED inbox
  <2>1. Stacks' /\ Moves(t, On("OnRead", s), {}) BY <1>3, <1>4, <1>6, ReturnMoves
  <2> QED BY <1>3, <1>4, <1>5, <1>6, <2>1 DEF OnReadView
<1>7. CASE /\ inbox[s] # <<>>
           /\ inbox' = Set(inbox, s, Tail(inbox[s]))
           /\ Become(t, HandleNext(s) \o <<On("OnRead", s)>>)
  <2> DEFINE r == inbox[s][1]
             q == <<On("OnRead", s)>>
             p == Handler(s, r) \o q
  <2>1. HandleNext(s) = Handler(s, r) /\ r \in Msg /\ r.kind \in {"login", "exit", "chat"}
    BY <1>7, FirstRequest
  <2>2. /\ On("OnRead", s) \in Frame /\ Level(On("OnRead", s)) = 8
        /\ On("OnRead", s).at \notin Leaf
    BY OnIs DEF Labels, Level, LevelOf, Leaf
  <2>3. q \in Seq(Frame) /\ Frames(q) = {On("OnRead", s)} /\ Nested(q) BY <2>2, FramesOne
  <2>4. \A g \in Frames(q) : g.at \notin Leaf /\ Level(g) >= 8 BY <2>2, <2>3
  <2>5. stack' = [stack EXCEPT ![t] = p \o Tail(stack[t])]
    BY <1>7, <2>1 DEF Become
  <2>6. p \in Seq(Frame) /\ Nested(p) /\ Frames(p) = HandlerCalls(s, r) \cup {On("OnRead", s)}
    <3> HIDE DEF r, q
    <3> QED BY <2>1, <2>3, <2>4, HandlerOver
  <2>7. \A g \in HandlerCalls(s, r) : Level(g) <= 7 BY <2>1, HandlerFrames
  <2> HIDE DEF p, q, r
  <2>8. \A g \in Frames(p) : Level(g) <= Level(stack[t][1])
    <3> SUFFICES ASSUME NEW g \in Frames(p) PROVE Level(g) <= Level(stack[t][1])
      OBVIOUS
    <3>1. Level(g) <= 7 \/ Level(g) = 8 BY <2>2, <2>6, <2>7
    <3>2. Level(g) \in Nat BY LevelNat
    <3> QED BY <3>1, <3>2, <1>4, <2>2
  <2>9. stack[t] # <<>> BY <1>3
  <2>10. Stacks' /\ Moves(t, stack[t][1], Frames(p)) BY <2>5, <2>6, <2>8, <2>9, BecomeMoves
  <2>11. Moves(t, On("OnRead", s), HandlerCalls(s, inbox[s][1]) \cup {On("OnRead", s)})
    BY <2>10, <2>6, <1>4 DEF r
  <2> QED BY <1>3, <1>4, <1>5, <1>7, <2>10, <2>11 DEF OnReadView
<1> QED BY <1>4, <1>6, <1>7 DEF OnRead

LEMMA PreRecvViews ==
  ASSUME Stacks, NEW t \in Worker, PreRecv(t)
  PROVE  Stacks' /\ \E s \in Player : PreRecvView(t, s)
<1>1. Stands(t, "PreRecv") BY DEF PreRecv
<1>2. "PreRecv" \in Labels BY DEF Labels
<1>3. /\ Running /\ stack[t] # <<>>
      /\ \E s \in Player : /\ Self(t) = s /\ stack[t][1] = On("PreRecv", s)
                           /\ Tops(t, On("PreRecv", s))
  BY <1>1, <1>2, StandsOn
<1>4. PICK s \in Player : /\ Self(t) = s /\ stack[t][1] = On("PreRecv", s)
                          /\ Tops(t, On("PreRecv", s))
  BY <1>3
<1>5. /\ On("Disconnect", s) \in Frame /\ Level(On("Disconnect", s)) = 4
      /\ Level(On("PreRecv", s)) = 9
  BY OnIs DEF Labels, Level, LevelOf
<1>6. UNCHANGED <<manager, mConnected, mPlayerSessionId, mSendBufferLock,
                  outbox, send, sending, socketOpen, ret, world>>
  BY DEF PreRecv
<1>7. stack[t] # <<>> /\ Level(stack[t][1]) = 9 BY <1>3, <1>4, <1>5
<1>8. Calls(t) = {On("PreRecv", s)} BY <1>4, <1>7, DeepestAlone
<1>9. CASE mConnected[s] /\ socketOpen[s]
  <2>1. recv' = Set(recv, s, "posted") /\ Return(t) BY <1>4, <1>9 DEF PreRecv
  <2>2. Stacks' /\ Moves(t, On("PreRecv", s), {}) BY <1>3, <1>4, <2>1, ReturnMoves
  <2> QED BY <1>3, <1>6, <1>8, <1>9, <2>1, <2>2 DEF PreRecvView
<1>10. CASE ~ (mConnected[s] /\ socketOpen[s])
  <2>1. recv' = Set(recv, s, "off") /\ Become(t, <<On("Disconnect", s)>>)
    BY <1>4, <1>10 DEF PreRecv
  <2>2. Level(On("Disconnect", s)) <= Level(stack[t][1]) BY <1>4, <1>5
  <2>3. Stacks' /\ Moves(t, On("PreRecv", s), {On("Disconnect", s)})
    BY <1>3, <1>4, <1>5, <2>1, <2>2, OneMoves
  <2> QED BY <1>3, <1>6, <1>8, <1>10, <2>1, <2>3 DEF PreRecvView
<1> QED BY <1>9, <1>10

(* Calls of different kinds, of different sessions or with different       *)
(* messages are different calls.                                           *)
LEMMA Apart ==
  /\ \A a, b, s, u : On(a, s) = On(b, u) => a = b /\ s = u
  /\ \A a, b, s, u, m, n : Packet(a, s, m) = Packet(b, u, n) => a = b /\ s = u /\ m = n
  /\ \A m, n, d, e : Loop(m, d) = Loop(n, e) => m = n /\ d = e
  /\ \A a, b, s, u, m : On(a, s) # Packet(b, u, m)
  /\ \A a, s, m, d : On(a, s) # Loop(m, d)
  /\ \A a, s, m, n, d : Packet(a, s, n) # Loop(m, d)
<1>1. \A a, s : On(a, s).at = a /\ On(a, s).s = s /\ DOMAIN On(a, s) = {"at", "s"}
  BY DEF On
<1>2. \A a, s, m : /\ Packet(a, s, m).at = a /\ Packet(a, s, m).s = s
                   /\ Packet(a, s, m).m = m
                   /\ DOMAIN Packet(a, s, m) = {"at", "s", "m"}
  BY DEF Packet
<1>3. \A m, d : Loop(m, d).m = m /\ Loop(m, d).todo = d /\ DOMAIN Loop(m, d) = {"at", "m", "todo"}
  BY DEF Loop
<1>4. \A a, b, s, u : On(a, s) = On(b, u) => a = b /\ s = u BY <1>1
<1>5. \A a, b, s, u, m, n : Packet(a, s, m) = Packet(b, u, n) => a = b /\ s = u /\ m = n
  BY <1>2
<1>6. \A m, n, d, e : Loop(m, d) = Loop(n, e) => m = n /\ d = e BY <1>3
<1>7. \A a, b, s, u, m : On(a, s) # Packet(b, u, m)
  <2>1. "m" \in {"at", "s", "m"} /\ "m" \notin {"at", "s"} OBVIOUS
  <2> QED BY <1>1, <1>2, <2>1
<1>8. \A a, s, m, d : On(a, s) # Loop(m, d)
  <2>1. "m" \in {"at", "m", "todo"} /\ "m" \notin {"at", "s"} OBVIOUS
  <2> QED BY <1>1, <1>3, <2>1
<1>9. \A a, s, m, n, d : Packet(a, s, n) # Loop(m, d)
  <2>1. "s" \in {"at", "s", "m"} /\ "s" \notin {"at", "m", "todo"} OBVIOUS
  <2> QED BY <1>2, <1>3, <2>1
<1> QED BY <1>4, <1>5, <1>6, <1>7, <1>8, <1>9

(* The label of a call.                                                    *)
LEMMA Ats ==
  /\ \A a, s : On(a, s).at = a
  /\ \A a, s, m : Packet(a, s, m).at = a
  /\ \A m, d : Loop(m, d).at = "BroadcastLoop"
  BY DEF On, Packet, Loop

(* A step of the callback thread.                                          *)
LEMMA SdkStacks ==
  ASSUME Stacks, NEW q \in {<<>>, Starting, Creating, Ending},
         stack' = [stack EXCEPT ![Sdk] = q]
  PROVE  Stacks' /\ Still /\ stack'[Sdk] = q
<1> USE GameServerAssumption
<1>1. Sdk \in Thread /\ \A u \in Worker : u \in Thread /\ u # Sdk BY DEF Thread
<1>2. <<>> \in Seq(Frame) OBVIOUS
<1>3. stack'[Sdk] = q /\ \A u \in Worker : stack'[u] = stack[u] BY <1>1 DEF Stacks
<1>4. stack' \in [Thread -> Seq(Frame) \cup {Starting, Creating, Ending}]
  BY <1>1, <1>2 DEF Stacks
<1>5. Stacks' BY <1>3, <1>4 DEF Stacks
<1>6. Still
  <2> SUFFICES ASSUME NEW u \in Worker PROVE Calls(u)' = Calls(u) BY DEF Still
  <2>1. stack'[u] = stack[u] BY <1>3
  <2> QED BY <2>1 DEF Calls
<1> QED BY <1>3, <1>5, <1>6

LEMMA StillStacks ==
  ASSUME Stacks, UNCHANGED stack
  PROVE  Stacks' /\ Still /\ stack'[Sdk] = stack[Sdk]
<1>1. Stacks' BY DEF Stacks
<1>2. Still BY DEF Still, Calls
<1> QED BY <1>1, <1>2

LEMMA Scripts ==
  /\ Starting # Creating /\ Starting # Ending /\ Creating # Ending
  /\ Starting # <<>> /\ Creating # <<>> /\ Ending # <<>>
  /\ Starting[1].at = "OnStartGameSession" /\ Creating[1].at = "CreateGameSession"
  /\ Ending[1].at = "OnProcessTerminate"
  BY DEF Starting, Creating, Ending

LEMMA TailOne ==
  ASSUME NEW x
  PROVE  Tail(<<x>>) = <<>> /\ <<>> \o Tail(<<x>>) = <<>> /\ <<x>> \o Tail(<<x>>) = <<x>>
<1>1. <<x>> \in Seq({x}) /\ Len(<<x>>) = 1 OBVIOUS
<1>2. Tail(<<x>>) \in Seq({x}) /\ Len(Tail(<<x>>)) = 0 BY <1>1
<1>3. Tail(<<x>>) = <<>> BY <1>2, EmptySeq
<1> QED BY <1>1, <1>3

(* What the callback thread's steps do to it.                              *)
LEMMA SdkReturns ==
  ASSUME Stacks, Return(Sdk), stack[Sdk] # <<>>
  PROVE  Stacks' /\ Still /\ stack'[Sdk] = <<>>
<1>1. stack[Sdk] \in {Starting, Creating, Ending} BY DEF Stacks
<1>2. <<>> \o Tail(stack[Sdk]) = <<>> BY <1>1, TailOne DEF Starting, Creating, Ending
<1>3. stack' = [stack EXCEPT ![Sdk] = <<>> \o Tail(stack[Sdk])] BY DEF Return, Become
<1>4. stack' = [stack EXCEPT ![Sdk] = <<>>] BY <1>2, <1>3
<1> QED BY <1>4, SdkStacks

LEMMA SdkCreates ==
  ASSUME Stacks, Become(Sdk, <<[at |-> "CreateGameSession"]>>), stack[Sdk] # <<>>
  PROVE  Stacks' /\ Still /\ stack'[Sdk] = Creating
<1>1. stack[Sdk] \in {Starting, Creating, Ending} BY DEF Stacks
<1>2. Tail(stack[Sdk]) = <<>> BY <1>1, TailOne DEF Starting, Creating, Ending
<1>3. stack' = [stack EXCEPT ![Sdk] = Creating \o Tail(stack[Sdk])]
  BY DEF Become, Creating
<1>4. Creating \o <<>> = Creating BY DEF Creating
<1>5. stack' = [stack EXCEPT ![Sdk] = Creating] BY <1>2, <1>3, <1>4
<1> QED BY <1>5, SdkStacks

(* The steps of everybody but the I/O threads, with what they do to the    *)
(* callback thread.                                                        *)
CallStartView ==
  /\ Running /\ stack[Sdk] = <<>> /\ gameStatus = "none" /\ stack'[Sdk] = Starting
  /\ UNCHANGED <<manager, sessions, ret, world>>
CallTerminateView ==
  /\ Running /\ stack[Sdk] = <<>> /\ stack'[Sdk] = Ending
  /\ UNCHANGED <<manager, sessions, ret, world>>
StartGameView ==
  /\ Running /\ stack[Sdk] = Starting /\ mLock = Nobody /\ mLock' = Sdk
  /\ gameStatus' = "active" /\ stack'[Sdk] = Creating
  /\ UNCHANGED <<mActivated, mAcceptedCount, mRemovedCount, mGameSession,
                 exitCode, sessions, ret, service, client, chats, inbox, got>>
CreateView ==
  /\ Running /\ stack[Sdk] = Creating
  /\ mGameSession' = {} /\ mLock' = Nobody /\ stack'[Sdk] = <<>>
  /\ UNCHANGED <<mActivated, mAcceptedCount, mRemovedCount, exitCode,
                 sessions, ret, world>>
TerminateView ==
  /\ Running /\ stack[Sdk] = Ending /\ mLock = Nobody /\ stack'[Sdk] = <<>>
  /\ \/ mActivated /\ TerminateGameSession("ordered")
     \/ ~ mActivated /\ UNCHANGED <<mGameSession, mActivated, exitCode>>
  /\ UNCHANGED <<mLock, mAcceptedCount, mRemovedCount, sessions, ret, world>>
SdkView ==
  Still /\ (\/ CallStartView \/ CallTerminateView \/ StartGameView \/ CreateView
            \/ TerminateView)

Outsider ==
  \/ InitializeGameLift
  \/ \E s \in Player : OnConnect(s) \/ KernelSend(s) \/ ClientStep(s)
OutsideView == Outsider /\ Still /\ stack'[Sdk] = stack[Sdk]

LEMMA SdkViews ==
  ASSUME Stacks, CallOnStartGameSession \/ CallOnProcessTerminate \/ SdkStep
  PROVE  Stacks' /\ SdkView
<1>1. CASE CallOnStartGameSession
  <2>1. stack[Sdk] = <<>> /\ stack' = [stack EXCEPT ![Sdk] = Starting]
    BY <1>1 DEF CallOnStartGameSession, Idle, Start, Starting
  <2>2. Stacks' /\ Still /\ stack'[Sdk] = Starting BY <2>1, SdkStacks
  <2> QED BY <1>1, <2>1, <2>2 DEF CallOnStartGameSession, SdkView, CallStartView
<1>2. CASE CallOnProcessTerminate
  <2>1. stack[Sdk] = <<>> /\ stack' = [stack EXCEPT ![Sdk] = Ending]
    BY <1>2 DEF CallOnProcessTerminate, Idle, Start, Ending
  <2>2. Stacks' /\ Still /\ stack'[Sdk] = Ending BY <2>1, SdkStacks
  <2> QED BY <1>2, <2>1, <2>2 DEF CallOnProcessTerminate, SdkView, CallTerminateView
<1>3. stack[Sdk] \in {<<>>, Starting, Creating, Ending} BY DEF Stacks
<1>4. CASE OnStartGameSession
  <2>1. /\ Running /\ stack[Sdk] # <<>> /\ stack[Sdk][1].at = "OnStartGameSession"
        /\ Become(Sdk, <<[at |-> "CreateGameSession"]>>)
    BY <1>4 DEF OnStartGameSession, Stands
  <2>2. stack[Sdk] = Starting BY <2>1, <1>3, Scripts
  <2>3. Stacks' /\ Still /\ stack'[Sdk] = Creating BY <2>1, SdkCreates
  <2> QED BY <1>4, <2>1, <2>2, <2>3 DEF OnStartGameSession, SdkView, StartGameView
<1>5. CASE CreateGameSession
  <2>1. /\ Running /\ stack[Sdk] # <<>> /\ stack[Sdk][1].at = "CreateGameSession"
        /\ Return(Sdk)
    BY <1>5 DEF CreateGameSession, Stands
  <2>2. stack[Sdk] = Creating BY <2>1, <1>3, Scripts
  <2>3. Stacks' /\ Still /\ stack'[Sdk] = <<>> BY <2>1, SdkReturns
  <2> QED BY <1>5, <2>1, <2>2, <2>3 DEF CreateGameSession, SdkView, CreateView
<1>6. CASE OnProcessTerminate
  <2>1. /\ Running /\ stack[Sdk] # <<>> /\ stack[Sdk][1].at = "OnProcessTerminate"
        /\ Return(Sdk)
    BY <1>6 DEF OnProcessTerminate, Stands
  <2>2. stack[Sdk] = Ending BY <2>1, <1>3, Scripts
  <2>3. Stacks' /\ Still /\ stack'[Sdk] = <<>> BY <2>1, SdkReturns
  <2>4. \/ mActivated /\ TerminateGameSession("ordered")
        \/ ~ mActivated /\ UNCHANGED <<mGameSession, mActivated, exitCode>>
    BY <1>6 DEF OnProcessTerminate
  <2> QED BY <1>6, <2>1, <2>2, <2>3, <2>4 DEF OnProcessTerminate, SdkView, TerminateView
<1> QED BY <1>1, <1>2, <1>4, <1>5, <1>6 DEF SdkStep

LEMMA OutsideViews ==
  ASSUME Stacks, Outsider
  PROVE  Stacks' /\ OutsideView
<1>1. UNCHANGED stack
  BY DEF Outsider, InitializeGameLift, OnConnect, KernelSend, ClientStep, Reserve,
         StartTest, PlayTest, EndTest, HangUp, threads
<1> QED BY <1>1, StillStacks DEF OutsideView

(* A call in hand means that a game session was started and that the       *)
(* process is activated or over.                                           *)
LEMMA Busy ==
  ASSUME Begun, NEW t \in Worker, Calls(t) # {}
  PROVE  gameStatus # "none" /\ (Running => mActivated)
  BY DEF Begun, Untouched

(* Who finds mLock free finds a game session.                              *)
LEMMA LockedGame ==
  ASSUME Types, Stacks, Begun, NEW t \in Worker, Calls(t) # {}, Running, mLock = Nobody
  PROVE  mGameSession # NoGame
<1>1. gameStatus = "active" BY Busy DEF Types
<1>2. Sdk # Nobody BY GameServerAssumption DEF Thread
<1>3. stack[Sdk] # Creating BY <1>2 DEF Begun
<1> QED BY <1>1, <1>3 DEF Begun

LEMMA ThreadViews ==
  ASSUME Base, NEW t \in Worker, ThreadStep(t)
  PROVE  Stacks' /\ ThreadView(t)
<1> USE DEF Base
<1>1. CASE PlayerLogin(t) BY <1>1, LoginViews DEF ThreadView
<1>2. CASE SetPlayerId(t) BY <1>2, SetIdViews DEF ThreadView
<1>3. CASE RemovePlayerSession(t) BY <1>3, RemoveViews DEF ThreadView
<1>4. CASE ClearPlayerId(t) BY <1>4, ClearViews DEF ThreadView
<1>5. CASE Disconnect(t) BY <1>5, DisconnectViews DEF ThreadView
<1>6. CASE OnDisconnect(t) BY <1>6, OnDisconnectViews DEF ThreadView
<1>7. CASE CloseSocket(t) BY <1>7, CloseViews DEF ThreadView
<1>8. CASE PostSend(t) BY <1>8, PostViews DEF ThreadView
<1>9. CASE PostSendLock(t) BY <1>9, PostLockViews DEF ThreadView
<1>10. CASE FlushFailed(t) BY <1>10, FlushFailedViews DEF ThreadView
<1>11. CASE SendCompletion(t) BY <1>11, CompletionViews DEF ThreadView
<1>12. CASE BroadcastMessage(t)
  <2>1. Stands(t, "BroadcastMessage") /\ mLock = Nobody BY <1>12 DEF BroadcastMessage
  <2>2. Running /\ stack[t] # <<>> /\ stack[t] \in Seq(Frame) /\ Nested(stack[t])
    BY <2>1 DEF Stands, Stacks
  <2>3. Calls(t) # {} BY <2>2, FramesTail DEF Calls
  <2>4. mGameSession # NoGame BY <2>1, <2>2, <2>3, LockedGame
  <2> QED BY <1>12, <2>4, BroadcastViews DEF ThreadView
<1>13. CASE BroadcastLoop(t) BY <1>13, LoopViews DEF ThreadView
<1>14. CASE BroadcastResult(t) BY <1>14, ResultViews DEF ThreadView
<1>15. CASE OnRead(t) BY <1>15, OnReadViews DEF ThreadView
<1>16. CASE PreRecv(t) BY <1>16, PreRecvViews DEF ThreadView
<1>17. ASSUME NEW s \in Player, SendDone(t, s) PROVE Stacks' /\ ThreadView(t)
  BY <1>17, SendDoneViews DEF ThreadView
<1>18. ASSUME NEW s \in Player, RecvCompletion(t, s) PROVE Stacks' /\ ThreadView(t)
  BY <1>18, RecvViews DEF ThreadView
<1> QED BY <1>1, <1>2, <1>3, <1>4, <1>5, <1>6, <1>7, <1>8, <1>9, <1>10, <1>11,
           <1>12, <1>13, <1>14, <1>15, <1>16, <1>17, <1>18 DEF ThreadStep

(* A step, as it is seen from here on.                                     *)
StepView ==
  \/ \E t \in Worker : ThreadView(t)
  \/ SdkView \/ OutsideView
  \/ UNCHANGED vars /\ Still /\ stack'[Sdk] = stack[Sdk]

LEMMA StepViews ==
  ASSUME Base, [Next]_vars
  PROVE  Stacks' /\ StepView
<1>1. Stacks BY DEF Base
<1>2. CASE \E t \in Worker : ThreadStep(t)
  <2>1. PICK t \in Worker : ThreadStep(t) BY <1>2
  <2>2. Stacks' /\ ThreadView(t) BY <2>1, ThreadViews
  <2> QED BY <2>2 DEF StepView
<1>3. CASE CallOnStartGameSession \/ CallOnProcessTerminate \/ SdkStep
  BY <1>1, <1>3, SdkViews DEF StepView
<1>4. CASE Outsider BY <1>1, <1>4, OutsideViews DEF StepView
<1>5. CASE UNCHANGED vars
  <2>1. UNCHANGED stack BY <1>5 DEF vars, threads
  <2> QED BY <1>1, <1>5, <2>1, StillStacks DEF StepView
<1> QED BY <1>2, <1>3, <1>4, <1>5 DEF Next, Outsider, Ended

(* Which steps of an I/O thread touch what.                                *)
Footprint(t) ==
  /\ Running /\ UNCHANGED <<gameStatus, client, chats, got>> /\ stack'[Sdk] = stack[Sdk]
  /\ inbox' = inbox \/ \E s \in Player : RecvView(t, s) \/ OnReadView(t, s)
  /\ recv' = recv \/ \E s \in Player : RecvView(t, s) \/ PreRecvView(t, s)
  /\ \/ UNCHANGED <<outbox, sending, mSendBufferLock>>
     \/ \E s \in Player, m \in Msg : PostLockView(t, s, m)
     \/ \E s \in Player : CompletionView(t, s) \/ FlushFailedView(t, s)
  /\ \/ UNCHANGED <<outbox, sending>>
     \/ \E s \in Player, m \in Msg : PostLockView(t, s, m)
     \/ \E s \in Player : CompletionView(t, s)
  /\ \/ send' = send
     \/ \E s \in Player, m \in Msg : PostLockView(t, s, m)
     \/ \E s \in Player : CompletionView(t, s) \/ SendDoneView(t, s)
  /\ \/ UNCHANGED <<service, mAcceptedCount, mRemovedCount, mGameSession, mActivated, exitCode>>
     \/ \E s \in Player : LoginView(t, s) \/ RemoveView(t, s)
  /\ mConnected' = mConnected \/ \E s \in Player : DisconnectView(t, s)
  /\ socketOpen' = socketOpen \/ \E s \in Player : CloseView(t, s)
  /\ mPlayerSessionId' = mPlayerSessionId \/ \E s \in Player : SetIdView(t, s) \/ ClearView(t, s)
  /\ \/ mLock' = mLock
     \/ \E s \in Player, m \in Msg : BroadcastView(t, s, m)
     \/ \E m \in Msg, todo \in SUBSET Player : LoopView(t, m, todo)

LEMMA Footprints ==
  ASSUME NEW t \in Worker, ThreadView(t)
  PROVE  Footprint(t)
<1> USE DEF Footprint, manager, sessions, world, Moves, Begins, Others
<1>1. ASSUME NEW s \in Player, LoginView(t, s) PROVE Footprint(t)
  BY <1>1 DEF LoginView
<1>2. ASSUME NEW s \in Player, SetIdView(t, s) PROVE Footprint(t)
  BY <1>2 DEF SetIdView
<1>3. ASSUME NEW s \in Player, RemoveView(t, s) PROVE Footprint(t)
  BY <1>3 DEF RemoveView
<1>4. ASSUME NEW s \in Player, ClearView(t, s) PROVE Footprint(t)
  BY <1>4 DEF ClearView
<1>5. ASSUME NEW s \in Player, DisconnectView(t, s) PROVE Footprint(t)
  BY <1>5 DEF DisconnectView
<1>6. ASSUME NEW s \in Player, OnDisconnectView(t, s) PROVE Footprint(t)
  BY <1>6 DEF OnDisconnectView
<1>7. ASSUME NEW s \in Player, CloseView(t, s) PROVE Footprint(t)
  BY <1>7 DEF CloseView
<1>8. ASSUME NEW s \in Player, FlushFailedView(t, s) PROVE Footprint(t)
  BY <1>8 DEF FlushFailedView
<1>9. ASSUME NEW s \in Player, ResultView(t, s) PROVE Footprint(t)
  BY <1>9 DEF ResultView
<1>10. ASSUME NEW s \in Player, SendDoneView(t, s) PROVE Footprint(t)
  BY <1>10 DEF SendDoneView
<1>11. ASSUME NEW s \in Player, CompletionView(t, s) PROVE Footprint(t)
  BY <1>11 DEF CompletionView, SendFlies, SendBreaks
<1>12. ASSUME NEW s \in Player, RecvView(t, s) PROVE Footprint(t)
  BY <1>12 DEF RecvView
<1>13. ASSUME NEW s \in Player, OnReadView(t, s) PROVE Footprint(t)
  BY <1>13 DEF OnReadView
<1>14. ASSUME NEW s \in Player, PreRecvView(t, s) PROVE Footprint(t)
  BY <1>14 DEF PreRecvView
<1>15. ASSUME NEW s \in Player, NEW m \in Msg, PostView(t, s, m) PROVE Footprint(t)
  BY <1>15 DEF PostView
<1>16. ASSUME NEW s \in Player, NEW m \in Msg, PostLockView(t, s, m) PROVE Footprint(t)
  BY <1>16 DEF PostLockView, SendFlies, SendBreaks
<1>17. ASSUME NEW s \in Player, NEW m \in Msg, BroadcastView(t, s, m) PROVE Footprint(t)
  BY <1>17 DEF BroadcastView
<1>18. ASSUME NEW m \in Msg, NEW todo \in SUBSET Player,
             LoopView(t, m, todo) PROVE Footprint(t)
  BY <1>18 DEF LoopView
<1> QED BY <1>1, <1>2, <1>3, <1>4, <1>5, <1>6, <1>7, <1>8, <1>9, <1>10, <1>11, <1>12,
           <1>13, <1>14, <1>15, <1>16, <1>17, <1>18 DEF ThreadView

-----------------------------------------------------------------------------
(* Types.                                                                  *)

LEMMA TypesSend ==
  ASSUME Types, NEW t \in Worker, NEW s \in Player, NEW f, NEW count \in Nat,
         SendFlies(t, s, f, count) \/ SendBreaks(t, s, f)
  PROVE  /\ send' \in [Player -> {"none", "flying", "done", "failed", "handled"}]
         /\ sending' \in [Player -> Nat]
         /\ mSendBufferLock' \in [Player -> Thread \cup {Nobody}]
<1>1. /\ send' = Set(send, s, "flying") \/ send' = Set(send, s, "none")
      /\ sending' = Set(sending, s, count) \/ sending' = Set(sending, s, 0)
      /\ mSendBufferLock' = mSendBufferLock \/ mSendBufferLock' = Set(mSendBufferLock, s, t)
  BY DEF SendFlies, SendBreaks
<1>2. send' \in [Player -> {"none", "flying", "done", "failed", "handled"}]
  BY <1>1 DEF Types, Set
<1>3. sending' \in [Player -> Nat]
  <2>1. \A v \in Nat : Set(sending, s, v) \in [Player -> Nat] BY DEF Types, Set
  <2> QED BY <1>1, <2>1
<1>4. mSendBufferLock' \in [Player -> Thread \cup {Nobody}]
  <2>1. t \in Thread \cup {Nobody} BY DEF Thread
  <2>2. Set(mSendBufferLock, s, t) \in [Player -> Thread \cup {Nobody}]
    BY <2>1 DEF Types, Set
  <2> QED BY <1>1, <2>2 DEF Types
<1> QED BY <1>2, <1>3, <1>4

LEMMA TypesPostLock ==
  ASSUME Types, NEW t \in Worker, NEW s \in Player, NEW m \in Msg, PostLockView(t, s, m)
  PROVE  Types'
<1>1. t \in Thread BY DEF Thread
<1>2. outbox[s] \in Seq(Msg) BY DEF Types
<1>3. Append(outbox[s], m) \in Seq(Msg) /\ Len(outbox[s]) + 1 \in Nat BY <1>2
<1>4. /\ outbox' \in [Player -> Seq(Msg)] /\ ret' \in [Thread -> BOOLEAN]
      /\ send' \in [Player -> {"none", "flying", "done", "failed", "handled"}]
      /\ sending' \in [Player -> Nat]
      /\ mSendBufferLock' \in [Player -> Thread \cup {Nobody}]
  <2>1. CASE UNCHANGED <<send, sending, mSendBufferLock>>
    <3>1. outbox' \in [Player -> Seq(Msg)]
      BY <2>1, <1>3 DEF PostLockView, Types, Set
    <3>2. ret' \in [Thread -> BOOLEAN] BY <2>1, <1>1 DEF PostLockView, Types, SendBreaks
    <3> QED BY <2>1, <3>1, <3>2 DEF Types
  <2>2. CASE /\ outbox' = Set(outbox, s, Append(outbox[s], m))
             /\ \/ /\ SendFlies(t, s, Packet("PostSendLock", s, m), Len(outbox[s]) + 1)
                   /\ ret' = [ret EXCEPT ![t] = TRUE]
                \/ SendBreaks(t, s, Packet("PostSendLock", s, m))
    <3>1. outbox' \in [Player -> Seq(Msg)] BY <2>2, <1>3 DEF Types, Set
    <3>2. ret' \in [Thread -> BOOLEAN] BY <2>2, <1>1 DEF Types, SendBreaks
    <3>3. \/ SendFlies(t, s, Packet("PostSendLock", s, m), Len(outbox[s]) + 1)
          \/ SendBreaks(t, s, Packet("PostSendLock", s, m))
      BY <2>2
    <3> QED BY <3>1, <3>2, <3>3, <1>3, TypesSend
  <2> QED BY <2>1, <2>2 DEF PostLockView
<1> QED BY <1>4 DEF PostLockView, Types, manager, world

LEMMA TypesCompletion ==
  ASSUME Types, NEW t \in Worker, NEW s \in Player, CompletionView(t, s)
  PROVE  Types'
<1> DEFINE rest == SubSeq(outbox[s], sending[s] + 1, Len(outbox[s]))
<1>1. outbox[s] \in Seq(Msg) /\ sending[s] \in Nat BY DEF Types
<1>2. rest \in Seq(Msg) /\ Len(rest) \in Nat BY <1>1
<1>3. /\ outbox' = Set(outbox, s, rest)
      /\ \/ SendFlies(t, s, On("SendCompletion", s), Len(rest)) /\ ret' = ret
         \/ SendBreaks(t, s, On("SendCompletion", s))
         \/ /\ send' = Set(send, s, "none") /\ sending' = Set(sending, s, 0)
            /\ UNCHANGED <<mSendBufferLock, ret>>
  BY DEF CompletionView
<1> HIDE DEF rest
<1>4. /\ send' \in [Player -> {"none", "flying", "done", "failed", "handled"}]
      /\ sending' \in [Player -> Nat]
      /\ mSendBufferLock' \in [Player -> Thread \cup {Nobody}]
  <2>1. CASE SendFlies(t, s, On("SendCompletion", s), Len(rest))
             \/ SendBreaks(t, s, On("SendCompletion", s))
    BY <2>1, <1>2, TypesSend
  <2>2. CASE /\ send' = Set(send, s, "none") /\ sending' = Set(sending, s, 0)
             /\ UNCHANGED mSendBufferLock
    BY <2>2 DEF Types, Set
  <2> QED BY <1>3, <2>1, <2>2
<1>5. outbox' \in [Player -> Seq(Msg)] /\ ret' \in [Thread -> BOOLEAN]
  BY <1>2, <1>3 DEF Types, Set, SendBreaks
<1> QED BY <1>4, <1>5 DEF CompletionView, Types, manager, world

LEMMA TypesInbox ==
  ASSUME Types, NEW s \in Player, inbox[s] # <<>>, inbox' = Set(inbox, s, Tail(inbox[s]))
  PROVE  inbox' \in [Player -> Seq(Msg)]
<1>1. inbox[s] \in Seq(Msg) BY DEF Types
<1>2. Tail(inbox[s]) \in Seq(Msg) BY <1>1
<1> QED BY <1>2 DEF Types, Set

LEMMA TypesThread ==
  ASSUME Base, NEW t \in Worker, ThreadView(t)
  PROVE  Types'
<1> USE DEF manager, sessions, world
<1> Types BY DEF Base
<1>0. t \in Thread BY DEF Thread
<1>1. ASSUME NEW s \in Player, LoginView(t, s) PROVE Types'
  <2>1. mGameSession' \in (SUBSET Player) \cup {NoGame}
    <3>1. Running /\ mLock = Nobody /\ Calls(t) # {} BY <1>1 DEF LoginView, Tops
    <3>2. mGameSession # NoGame BY <3>1, LockedGame DEF Base
    <3>3. mGameSession \in SUBSET Player BY <3>2 DEF Base, Types
    <3>4. mGameSession' = mGameSession \cup {s} \/ mGameSession' = mGameSession
      BY <1>1 DEF LoginView
    <3> QED BY <3>3, <3>4
  <2>2. service' \in [Player -> Phases] BY <1>1 DEF LoginView, Base, Types, Set, Phases
  <2>3. mAcceptedCount' \in Nat
    <3>1. mAcceptedCount' = mAcceptedCount + 1 \/ mAcceptedCount' = mAcceptedCount
      BY <1>1 DEF LoginView
    <3>2. mAcceptedCount \in Nat BY DEF Base, Types
    <3> QED BY <3>1, <3>2
  <2> QED BY <1>1, <2>1, <2>2, <2>3 DEF LoginView, Types
<1>2. ASSUME NEW s \in Player, SetIdView(t, s) PROVE Types'
  BY <1>2 DEF SetIdView, Types, Set
<1>3. ASSUME NEW s \in Player, RemoveView(t, s) PROVE Types'
  <2>1. mGameSession' \in (SUBSET Player) \cup {NoGame}
    <3>1. mGameSession \in (SUBSET Player) \cup {NoGame} BY DEF Base, Types
    <3>2. \/ mGameSession' = NoGame \/ mGameSession' = mGameSession
          \/ mGameSession' = mGameSession \ {s}
      BY <1>3 DEF RemoveView, TerminateGameSession
    <3>3. NoGame \ {s} = NoGame BY GameServerAssumption DEF NoGame
    <3> HIDE DEF NoGame
    <3> QED BY <3>1, <3>2, <3>3
  <2>2. service' \in [Player -> Phases] BY <1>3 DEF RemoveView, Types, Set, Phases
  <2>3. mRemovedCount' \in Nat
    <3>1. mRemovedCount' = mRemovedCount + 1 \/ mRemovedCount' = mRemovedCount
      BY <1>3 DEF RemoveView
    <3>2. mRemovedCount \in Nat BY DEF Base, Types
    <3> QED BY <3>1, <3>2
  <2>4. mActivated' \in BOOLEAN /\ exitCode' \in {"running", "ordered", "full"}
    BY <1>3 DEF RemoveView, Types, TerminateGameSession
  <2> QED BY <1>3, <2>1, <2>2, <2>3, <2>4 DEF RemoveView, Types
<1>4. ASSUME NEW s \in Player, ClearView(t, s) PROVE Types'
  BY <1>4 DEF ClearView, Types, Set
<1>5. ASSUME NEW s \in Player, DisconnectView(t, s) PROVE Types'
  BY <1>5 DEF DisconnectView, Types, Set
<1>6. ASSUME NEW s \in Player, OnDisconnectView(t, s) PROVE Types'
  BY <1>6 DEF OnDisconnectView, Types
<1>7. ASSUME NEW s \in Player, CloseView(t, s) PROVE Types'
  BY <1>7 DEF CloseView, Types, Set
<1>8. ASSUME NEW s \in Player, FlushFailedView(t, s) PROVE Types'
  BY <1>8 DEF FlushFailedView, Types, Set
<1>9. ASSUME NEW s \in Player, ResultView(t, s) PROVE Types'
  BY <1>9 DEF ResultView, Types
<1>10. ASSUME NEW s \in Player, SendDoneView(t, s) PROVE Types'
  BY <1>10 DEF SendDoneView, Types, Set
<1>11. ASSUME NEW s \in Player, CompletionView(t, s) PROVE Types'
  BY <1>11, TypesCompletion
<1>12. ASSUME NEW s \in Player, RecvView(t, s) PROVE Types'
  <2>1. inbox' \in [Player -> Seq(Msg)] BY <1>12, TypesInbox DEF RecvView, Types
  <2>2. recv' \in [Player -> {"off", "posted", "busy"}] BY <1>12 DEF RecvView, Types, Set
  <2> QED BY <1>12, <2>1, <2>2 DEF RecvView, Types
<1>13. ASSUME NEW s \in Player, OnReadView(t, s) PROVE Types'
  <2>1. inbox' \in [Player -> Seq(Msg)] BY <1>13, TypesInbox DEF OnReadView, Types
  <2> QED BY <1>13, <2>1 DEF OnReadView, Types
<1>14. ASSUME NEW s \in Player, PreRecvView(t, s) PROVE Types'
  BY <1>14 DEF PreRecvView, Types, Set
<1>15. ASSUME NEW s \in Player, NEW m \in Msg, PostView(t, s, m) PROVE Types'
  BY <1>15 DEF PostView, Types
<1>16. ASSUME NEW s \in Player, NEW m \in Msg, PostLockView(t, s, m) PROVE Types'
  BY <1>16, TypesPostLock
<1>17. ASSUME NEW s \in Player, NEW m \in Msg, BroadcastView(t, s, m) PROVE Types'
  BY <1>17, <1>0 DEF BroadcastView, Types
<1>18. ASSUME NEW m \in Msg, NEW todo \in SUBSET Player, LoopView(t, m, todo) PROVE Types'
  BY <1>18 DEF LoopView, Types
<1> QED BY <1>1, <1>2, <1>3, <1>4, <1>5, <1>6, <1>7, <1>8, <1>9, <1>10, <1>11, <1>12,
           <1>13, <1>14, <1>15, <1>16, <1>17, <1>18 DEF ThreadView

LEMMA TypesRequest ==
  ASSUME Types, NEW s \in Player, NEW m \in Msg, Request(s, m)
  PROVE  inbox' \in [Player -> Seq(Msg)]
<1>1. inbox[s] \in Seq(Msg) BY DEF Types
<1>2. Append(inbox[s], m) \in Seq(Msg) BY <1>1
<1> QED BY <1>2 DEF Types, Set, Request

LEMMA TypesOutside ==
  ASSUME Types, Fits, Outsider
  PROVE  Types'
<1> USE DEF manager, sessions, world, threads
<1>1. CASE InitializeGameLift BY <1>1 DEF InitializeGameLift, Types
<1>2. ASSUME NEW s \in Player, OnConnect(s) PROVE Types'
  BY <1>2 DEF OnConnect, Types, Set
<1>3. ASSUME NEW s \in Player, KernelSend(s) PROVE Types'
  <2>1. got[s] \in Seq(Msg) /\ outbox[s] \in Seq(Msg) /\ sending[s] \in Nat BY DEF Types
  <2>2. CASE UNCHANGED got /\ send' = Set(send, s, "failed")
    BY <1>3, <2>2 DEF KernelSend, Types, Set
  <2>3. CASE /\ got' = Set(got, s, got[s] \o SubSeq(outbox[s], 1, sending[s]))
             /\ send' = Set(send, s, "done")
    <3>0. sending[s] <= Len(outbox[s]) BY DEF Fits
    <3>1. SubSeq(outbox[s], 1, sending[s]) \in Seq(Msg) BY <2>1, <3>0
    <3>2. got[s] \o SubSeq(outbox[s], 1, sending[s]) \in Seq(Msg) BY <2>1, <3>1
    <3>3. got' \in [Player -> Seq(Msg)] BY <2>3, <3>2 DEF Types, Set
    <3> QED BY <1>3, <2>3, <3>3 DEF KernelSend, Types, Set
  <2> QED BY <1>3, <2>2, <2>3 DEF KernelSend
<1>4. ASSUME NEW s \in Player, Reserve(s) PROVE Types'
  BY <1>4 DEF Reserve, Types, Set, Phases
<1>5. ASSUME NEW s \in Player, StartTest(s) PROVE Types'
  <2>1. Message("login", s, 0) \in Msg BY DEF Message, Msg
  <2>2. inbox' \in [Player -> Seq(Msg)] BY <1>5, <2>1, TypesRequest DEF StartTest
  <2> QED BY <1>5, <2>2 DEF StartTest, Types, Set
<1>6. ASSUME NEW s \in Player, PlayTest(s) PROVE Types'
  <2>1. chats' \in Nat
    <3>1. chats \in Nat /\ chats' = chats + 1 BY <1>6 DEF PlayTest, Types
    <3> QED BY <3>1
  <2>2. Message("chat", s, chats') \in Msg BY <2>1 DEF Message, Msg
  <2>3. inbox' \in [Player -> Seq(Msg)] BY <1>6, <2>2, TypesRequest DEF PlayTest
  <2> QED BY <1>6, <2>1, <2>3 DEF PlayTest, Types, Set
<1>7. ASSUME NEW s \in Player, EndTest(s) PROVE Types'
  <2>1. Message("exit", s, 0) \in Msg BY DEF Message, Msg
  <2>2. inbox' \in [Player -> Seq(Msg)] BY <1>7, <2>1, TypesRequest DEF EndTest
  <2> QED BY <1>7, <2>2 DEF EndTest, Types, Set
<1>8. ASSUME NEW s \in Player, HangUp(s) PROVE Types'
  BY <1>8 DEF HangUp, Types, Set
<1> QED BY <1>1, <1>2, <1>3, <1>4, <1>5, <1>6, <1>7, <1>8 DEF Outsider, ClientStep

LEMMA TypesStep ==
  ASSUME Base, StepView
  PROVE  Types'
<1> Types /\ Fits BY DEF Base
<1>1. CASE SdkView
  <2> USE DEF manager, sessions, world
  <2>1. CASE CallStartView BY <2>1 DEF CallStartView, Types
  <2>2. CASE CallTerminateView BY <2>2 DEF CallTerminateView, Types
  <2>3. CASE StartGameView BY <2>3 DEF StartGameView, Types, Thread
  <2>4. CASE CreateView BY <2>4 DEF CreateView, Types
  <2>5. CASE TerminateView BY <2>5 DEF TerminateView, Types, TerminateGameSession
  <2> QED BY <1>1, <2>1, <2>2, <2>3, <2>4, <2>5 DEF SdkView
<1>2. CASE OutsideView BY <1>2, TypesOutside DEF OutsideView
<1>3. CASE UNCHANGED vars
  BY <1>3 DEF vars, manager, sessions, world, threads, Types
<1> QED BY <1>1, <1>2, <1>3, TypesThread DEF StepView

(* Which step makes which call.                                            *)
Handles(t, s, kind) ==
  /\ inbox[s] # <<>> /\ inbox[s][1] \in Msg /\ inbox[s][1].kind = kind
  /\ inbox' = Set(inbox, s, Tail(inbox[s]))
  /\ RecvView(t, s) \/ OnReadView(t, s)

MadeOn(t, at, s) ==
  /\ at = "PlayerLogin" => Handles(t, s, "login")
  /\ at = "SetPlayerId" => LoginView(t, s)
  /\ at \in {"RemovePlayerSession", "ClearPlayerId"} =>
       Handles(t, s, "exit") \/ OnDisconnectView(t, s)
  /\ at = "Disconnect" =>
       \/ Handles(t, s, "exit") \/ RecvView(t, s) \/ LoginView(t, s)
       \/ CompletionView(t, s) \/ ResultView(t, s) \/ SendDoneView(t, s)
       \/ PreRecvView(t, s) \/ \E m \in Msg : PostLockView(t, s, m)
  /\ at \in {"OnDisconnect", "closesocket"} => DisconnectView(t, s)
  /\ at = "FlushFailed" => CompletionView(t, s) \/ \E m \in Msg : PostLockView(t, s, m)
  /\ at = "BroadcastResult" => \E m \in Msg, todo \in SUBSET Player : LoopView(t, m, todo)
  /\ at = "SendCompletion" => SendDoneView(t, s)
  /\ at \in {"OnRead", "PreRecv"} => RecvView(t, s)

MadePacket(t, at, s, m) ==
  /\ at = "PostSendLock" => PostView(t, s, m)
  /\ at = "PostSend" => \/ m = Answer(s) /\ SetIdView(t, s)
                        \/ \E todo \in SUBSET Player : LoopView(t, m, todo)
  /\ at = "BroadcastMessage" => m = inbox[s][1] /\ Handles(t, s, "chat")

MadeLoop(t, s, m, todo) ==
  \/ BroadcastView(t, s, m) /\ todo = mGameSession
  \/ \E d \in SUBSET Player : LoopView(t, m, d) /\ todo = d \ {s}

Gain(t, f, s) ==
  \/ \E at : f = On(at, s) /\ MadeOn(t, at, s)
  \/ \E at, m : f = Packet(at, s, m) /\ MadePacket(t, at, s, m)
  \/ \E m, todo : f = Loop(m, todo) /\ m \in Msg /\ MadeLoop(t, s, m, todo)
Gains(t) ==
  \A u \in Worker : \A f \in Calls(u)' \ Calls(u) : u = t /\ \E s \in Player : Gain(t, f, s)

(* A call is only left by the step that it is.                             *)
Lose(t, f) ==
  \/ \E s \in Player :
       \/ f = On("PlayerLogin", s) /\ LoginView(t, s)
       \/ f = On("SetPlayerId", s) /\ SetIdView(t, s)
       \/ f = On("RemovePlayerSession", s) /\ RemoveView(t, s)
       \/ f = On("ClearPlayerId", s) /\ ClearView(t, s)
       \/ f = On("Disconnect", s) /\ DisconnectView(t, s)
       \/ f = On("OnDisconnect", s) /\ OnDisconnectView(t, s)
       \/ f = On("closesocket", s) /\ CloseView(t, s)
       \/ f = On("FlushFailed", s) /\ FlushFailedView(t, s)
       \/ f = On("BroadcastResult", s) /\ ResultView(t, s)
       \/ f = On("SendCompletion", s) /\ CompletionView(t, s)
       \/ f = On("OnRead", s) /\ OnReadView(t, s)
       \/ f = On("PreRecv", s) /\ PreRecvView(t, s)
  \/ \E s \in Player, m \in Msg :
       \/ f = Packet("PostSend", s, m) /\ PostView(t, s, m)
       \/ f = Packet("PostSendLock", s, m) /\ PostLockView(t, s, m)
       \/ f = Packet("BroadcastMessage", s, m) /\ BroadcastView(t, s, m)
  \/ \E m \in Msg, todo \in SUBSET Player : f = Loop(m, todo) /\ LoopView(t, m, todo)
Loses(t) ==
  \A u \in Worker : \A f \in Calls(u) \ Calls(u)' : u = t /\ Lose(t, f)

LEMMA HandlersGain ==
  ASSUME Types, Requests, NEW t \in Worker, NEW s \in Player, inbox[s] # <<>>,
         RecvView(t, s) \/ OnReadView(t, s), inbox' = Set(inbox, s, Tail(inbox[s])),
         NEW f \in HandlerCalls(s, inbox[s][1])
  PROVE  Gain(t, f, s)
<1>1. inbox[s][1] \in Msg /\ inbox[s][1].kind \in {"login", "exit", "chat"}
  BY FirstRequest
<1>2. Handles(t, s, inbox[s][1].kind) BY <1>1 DEF Handles
<1>3. CASE inbox[s][1].kind = "login"
  <2>1. f = On("PlayerLogin", s) BY <1>3 DEF HandlerCalls
  <2> QED BY <1>2, <1>3, <2>1 DEF Gain, MadeOn
<1>4. CASE inbox[s][1].kind = "exit"
  <2>1. f \in {On("RemovePlayerSession", s), On("ClearPlayerId", s), On("Disconnect", s)}
    BY <1>4 DEF HandlerCalls
  <2> QED BY <1>2, <1>4, <2>1 DEF Gain, MadeOn
<1>5. CASE inbox[s][1].kind = "chat"
  <2>1. f = Packet("BroadcastMessage", s, inbox[s][1]) BY <1>5 DEF HandlerCalls
  <2> QED BY <1>2, <1>5, <2>1 DEF Gain, MadePacket
<1> QED BY <1>1, <1>3, <1>4, <1>5

LEMMA NewCalls ==
  ASSUME NEW t \in Worker, NEW f, NEW G, Moves(t, f, G)
  PROVE  /\ \A u \in Worker : \A g \in Calls(u)' \ Calls(u) : u = t /\ g \in G
         /\ \A u \in Worker : \A g \in Calls(u) \ Calls(u)' : u = t /\ g = f
  BY DEF Moves, Others

LEMMA FirstCalls ==
  ASSUME NEW t \in Worker, NEW G, Begins(t, G)
  PROVE  \A u \in Worker : \A g \in Calls(u)' \ Calls(u) : u = t /\ g \in G
  BY DEF Begins, Others

LEMMA GainsLemma ==
  ASSUME Types, Requests, NEW t \in Worker, ThreadView(t)
  PROVE  Gains(t)
<1>1. ASSUME NEW s \in Player, LoginView(t, s) PROVE Gains(t)
  <2>1. CASE Moves(t, On("PlayerLogin", s), {On("SetPlayerId", s)})
    <3>1. \A u \in Worker : \A g \in Calls(u)' \ Calls(u) :
            u = t /\ g \in {On("SetPlayerId", s)}
      BY <2>1, NewCalls
    <3>2. \A g \in {On("SetPlayerId", s)} : Gain(t, g, s)
      BY <1>1 DEF Gain, MadeOn, MadePacket, MadeLoop
    <3> QED BY <3>1, <3>2 DEF Gains
  <2>2. CASE Moves(t, On("PlayerLogin", s), {On("Disconnect", s)})
    <3>1. \A u \in Worker : \A g \in Calls(u)' \ Calls(u) :
            u = t /\ g \in {On("Disconnect", s)}
      BY <2>2, NewCalls
    <3>2. \A g \in {On("Disconnect", s)} : Gain(t, g, s)
      BY <1>1 DEF Gain, MadeOn, MadePacket, MadeLoop
    <3> QED BY <3>1, <3>2 DEF Gains
  <2> QED BY <1>1, <2>1, <2>2 DEF LoginView
<1>2. ASSUME NEW s \in Player, SetIdView(t, s) PROVE Gains(t)
  <2>1. CASE Moves(t, On("SetPlayerId", s), {Packet("PostSend", s, Answer(s))})
    <3>1. \A u \in Worker : \A g \in Calls(u)' \ Calls(u) :
            u = t /\ g \in {Packet("PostSend", s, Answer(s))}
      BY <2>1, NewCalls
    <3>2. \A g \in {Packet("PostSend", s, Answer(s))} : Gain(t, g, s)
      BY <1>2 DEF Gain, MadeOn, MadePacket, MadeLoop
    <3> QED BY <3>1, <3>2 DEF Gains
  <2> QED BY <1>2, <2>1 DEF SetIdView
<1>3. ASSUME NEW s \in Player, RemoveView(t, s) PROVE Gains(t)
  <2>1. CASE Moves(t, On("RemovePlayerSession", s), {}) BY <2>1, NewCalls DEF Gains
  <2> QED BY <1>3, <2>1 DEF RemoveView
<1>4. ASSUME NEW s \in Player, ClearView(t, s) PROVE Gains(t)
  <2>1. CASE Moves(t, On("ClearPlayerId", s), {}) BY <2>1, NewCalls DEF Gains
  <2> QED BY <1>4, <2>1 DEF ClearView
<1>5. ASSUME NEW s \in Player, DisconnectView(t, s) PROVE Gains(t)
  <2>1. CASE Moves(t, On("Disconnect", s), {On("OnDisconnect", s), On("closesocket", s)})
    <3>1. \A u \in Worker : \A g \in Calls(u)' \ Calls(u) :
            u = t /\ g \in {On("OnDisconnect", s), On("closesocket", s)}
      BY <2>1, NewCalls
    <3>2. \A g \in {On("OnDisconnect", s), On("closesocket", s)} : Gain(t, g, s)
      BY <1>5 DEF Gain, MadeOn, MadePacket, MadeLoop
    <3> QED BY <3>1, <3>2 DEF Gains
  <2>2. CASE Moves(t, On("Disconnect", s), {}) BY <2>2, NewCalls DEF Gains
  <2> QED BY <1>5, <2>1, <2>2 DEF DisconnectView
<1>6. ASSUME NEW s \in Player, OnDisconnectView(t, s) PROVE Gains(t)
  <2>1. CASE Moves(t, On("OnDisconnect", s), {On("RemovePlayerSession", s), On("ClearPlayerId", s)})
    <3>1. \A u \in Worker : \A g \in Calls(u)' \ Calls(u) :
            u = t /\ g \in {On("RemovePlayerSession", s), On("ClearPlayerId", s)}
      BY <2>1, NewCalls
    <3>2. \A g \in {On("RemovePlayerSession", s), On("ClearPlayerId", s)} : Gain(t, g, s)
      BY <1>6 DEF Gain, MadeOn, MadePacket, MadeLoop
    <3> QED BY <3>1, <3>2 DEF Gains
  <2>2. CASE Moves(t, On("OnDisconnect", s), {}) BY <2>2, NewCalls DEF Gains
  <2> QED BY <1>6, <2>1, <2>2 DEF OnDisconnectView
<1>7. ASSUME NEW s \in Player, CloseView(t, s) PROVE Gains(t)
  <2>1. CASE Moves(t, On("closesocket", s), {}) BY <2>1, NewCalls DEF Gains
  <2> QED BY <1>7, <2>1 DEF CloseView
<1>8. ASSUME NEW s \in Player, FlushFailedView(t, s) PROVE Gains(t)
  <2>1. CASE Moves(t, On("FlushFailed", s), {}) BY <2>1, NewCalls DEF Gains
  <2> QED BY <1>8, <2>1 DEF FlushFailedView
<1>9. ASSUME NEW s \in Player, ResultView(t, s) PROVE Gains(t)
  <2>1. CASE Moves(t, On("BroadcastResult", s), {}) BY <2>1, NewCalls DEF Gains
  <2>2. CASE Moves(t, On("BroadcastResult", s), {On("Disconnect", s)})
    <3>1. \A u \in Worker : \A g \in Calls(u)' \ Calls(u) :
            u = t /\ g \in {On("Disconnect", s)}
      BY <2>2, NewCalls
    <3>2. \A g \in {On("Disconnect", s)} : Gain(t, g, s)
      BY <1>9 DEF Gain, MadeOn, MadePacket, MadeLoop
    <3> QED BY <3>1, <3>2 DEF Gains
  <2> QED BY <1>9, <2>1, <2>2 DEF ResultView
<1>10. ASSUME NEW s \in Player, SendDoneView(t, s) PROVE Gains(t)
  <2>1. CASE Begins(t, {On("SendCompletion", s)})
    <3>1. \A u \in Worker : \A g \in Calls(u)' \ Calls(u) :
            u = t /\ g \in {On("SendCompletion", s)}
      BY <2>1, FirstCalls
    <3>2. \A g \in {On("SendCompletion", s)} : Gain(t, g, s)
      BY <1>10 DEF Gain, MadeOn, MadePacket, MadeLoop
    <3> QED BY <3>1, <3>2 DEF Gains
  <2>2. CASE Begins(t, {On("Disconnect", s)})
    <3>1. \A u \in Worker : \A g \in Calls(u)' \ Calls(u) :
            u = t /\ g \in {On("Disconnect", s)}
      BY <2>2, FirstCalls
    <3>2. \A g \in {On("Disconnect", s)} : Gain(t, g, s)
      BY <1>10 DEF Gain, MadeOn, MadePacket, MadeLoop
    <3> QED BY <3>1, <3>2 DEF Gains
  <2> QED BY <1>10, <2>1, <2>2 DEF SendDoneView
<1>11. ASSUME NEW s \in Player, CompletionView(t, s) PROVE Gains(t)
  <2>1. CASE Moves(t, On("SendCompletion", s), {}) BY <2>1, NewCalls DEF Gains
  <2>2. CASE Moves(t, On("SendCompletion", s), {On("Disconnect", s), On("FlushFailed", s)})
    <3>1. \A u \in Worker : \A g \in Calls(u)' \ Calls(u) :
            u = t /\ g \in {On("Disconnect", s), On("FlushFailed", s)}
      BY <2>2, NewCalls
    <3>2. \A g \in {On("Disconnect", s), On("FlushFailed", s)} : Gain(t, g, s)
      BY <1>11 DEF Gain, MadeOn, MadePacket, MadeLoop
    <3> QED BY <3>1, <3>2 DEF Gains
  <2> QED BY <1>11, <2>1, <2>2 DEF CompletionView, SendFlies, SendBreaks
<1>12. ASSUME NEW s \in Player, RecvView(t, s) PROVE Gains(t)
  <2>1. CASE Begins(t, HandlerCalls(s, inbox[s][1]) \cup {On("OnRead", s), On("PreRecv", s)}) /\ inbox[s] # <<>> /\ inbox' = Set(inbox, s, Tail(inbox[s]))
    <3>0. PICK H : H = HandlerCalls(s, inbox[s][1]) OBVIOUS
    <3>1. \A u \in Worker : \A g \in Calls(u)' \ Calls(u) :
            u = t /\ g \in H \cup {On("OnRead", s), On("PreRecv", s)}
      BY <2>1, <3>0, FirstCalls
    <3>2. \A g \in H : Gain(t, g, s) BY <1>12, <2>1, <3>0, HandlersGain
    <3>3. Gain(t, On("OnRead", s), s) /\ Gain(t, On("PreRecv", s), s) BY <1>12 DEF Gain, MadeOn
    <3> QED BY <3>1, <3>2, <3>3 DEF Gains
  <2>2. CASE Begins(t, {On("Disconnect", s)})
    <3>1. \A u \in Worker : \A g \in Calls(u)' \ Calls(u) :
            u = t /\ g \in {On("Disconnect", s)}
      BY <2>2, FirstCalls
    <3>2. \A g \in {On("Disconnect", s)} : Gain(t, g, s)
      BY <1>12, <2>2, HandlersGain DEF Gain, MadeOn, MadePacket, MadeLoop
    <3> QED BY <3>1, <3>2 DEF Gains
  <2> QED BY <1>12, <2>1, <2>2 DEF RecvView
<1>13. ASSUME NEW s \in Player, OnReadView(t, s) PROVE Gains(t)
  <2>1. CASE Moves(t, On("OnRead", s), HandlerCalls(s, inbox[s][1]) \cup {On("OnRead", s)}) /\ inbox[s] # <<>> /\ inbox' = Set(inbox, s, Tail(inbox[s]))
    <3>0. PICK H : H = HandlerCalls(s, inbox[s][1]) OBVIOUS
    <3>1. \A u \in Worker : \A g \in Calls(u)' \ Calls(u) :
            u = t /\ g \in H \cup {On("OnRead", s)}
      BY <2>1, <3>0, NewCalls
    <3>2. \A g \in H : Gain(t, g, s) BY <1>13, <2>1, <3>0, HandlersGain
    <3>3. On("OnRead", s) \in Calls(t) BY <1>13 DEF OnReadView, Tops
    <3> QED BY <3>1, <3>2, <3>3 DEF Gains
  <2>2. CASE Moves(t, On("OnRead", s), {}) BY <2>2, NewCalls DEF Gains
  <2> QED BY <1>13, <2>1, <2>2 DEF OnReadView
<1>14. ASSUME NEW s \in Player, PreRecvView(t, s) PROVE Gains(t)
  <2>1. CASE Moves(t, On("PreRecv", s), {}) BY <2>1, NewCalls DEF Gains
  <2>2. CASE Moves(t, On("PreRecv", s), {On("Disconnect", s)})
    <3>1. \A u \in Worker : \A g \in Calls(u)' \ Calls(u) :
            u = t /\ g \in {On("Disconnect", s)}
      BY <2>2, NewCalls
    <3>2. \A g \in {On("Disconnect", s)} : Gain(t, g, s)
      BY <1>14 DEF Gain, MadeOn, MadePacket, MadeLoop
    <3> QED BY <3>1, <3>2 DEF Gains
  <2> QED BY <1>14, <2>1, <2>2 DEF PreRecvView
<1>15. ASSUME NEW s \in Player, NEW m \in Msg, PostView(t, s, m) PROVE Gains(t)
  <2>1. CASE Moves(t, Packet("PostSend", s, m), {}) BY <2>1, NewCalls DEF Gains
  <2>2. CASE Moves(t, Packet("PostSend", s, m), {Packet("PostSendLock", s, m)})
    <3>1. \A u \in Worker : \A g \in Calls(u)' \ Calls(u) :
            u = t /\ g \in {Packet("PostSendLock", s, m)}
      BY <2>2, NewCalls
    <3>2. \A g \in {Packet("PostSendLock", s, m)} : Gain(t, g, s)
      BY <1>15 DEF Gain, MadeOn, MadePacket, MadeLoop
    <3> QED BY <3>1, <3>2 DEF Gains
  <2> QED BY <1>15, <2>1, <2>2 DEF PostView
<1>16. ASSUME NEW s \in Player, NEW m \in Msg, PostLockView(t, s, m) PROVE Gains(t)
  <2>1. CASE Moves(t, Packet("PostSendLock", s, m), {}) BY <2>1, NewCalls DEF Gains
  <2>2. CASE Moves(t, Packet("PostSendLock", s, m), {On("Disconnect", s), On("FlushFailed", s)})
    <3>1. \A u \in Worker : \A g \in Calls(u)' \ Calls(u) :
            u = t /\ g \in {On("Disconnect", s), On("FlushFailed", s)}
      BY <2>2, NewCalls
    <3>2. \A g \in {On("Disconnect", s), On("FlushFailed", s)} : Gain(t, g, s)
      BY <1>16 DEF Gain, MadeOn, MadePacket, MadeLoop
    <3> QED BY <3>1, <3>2 DEF Gains
  <2> QED BY <1>16, <2>1, <2>2 DEF PostLockView, SendFlies, SendBreaks
<1>17. ASSUME NEW s \in Player, NEW m \in Msg, BroadcastView(t, s, m) PROVE Gains(t)
  <2>1. CASE Moves(t, Packet("BroadcastMessage", s, m), {Loop(m, mGameSession)})
    <3>1. \A u \in Worker : \A g \in Calls(u)' \ Calls(u) :
            u = t /\ g \in {Loop(m, mGameSession)}
      BY <2>1, NewCalls
    <3>2. \A g \in {Loop(m, mGameSession)} : Gain(t, g, s)
      BY <1>17 DEF Gain, MadeOn, MadePacket, MadeLoop
    <3> QED BY <3>1, <3>2 DEF Gains
  <2> QED BY <1>17, <2>1 DEF BroadcastView
<1>18. ASSUME NEW m \in Msg, NEW todo \in SUBSET Player,
             LoopView(t, m, todo) PROVE Gains(t)
  <2>1. CASE Moves(t, Loop(m, todo), {}) BY <2>1, NewCalls DEF Gains
  <2>2. ASSUME NEW s \in todo,
               Moves(t, Loop(m, todo), {Packet("PostSend", s, m), On("BroadcastResult", s),
                                        Loop(m, todo \ {s})})
        PROVE  Gains(t)
    <3>0. PICK l : l = Loop(m, todo \ {s}) OBVIOUS
    <3>1. \A u \in Worker : \A g \in Calls(u)' \ Calls(u) :
            u = t /\ g \in {Packet("PostSend", s, m), On("BroadcastResult", s), l}
      <4>1. Moves(t, Loop(m, todo), {Packet("PostSend", s, m), On("BroadcastResult", s), l})
        BY <2>2, <3>0
      <4> QED BY <4>1, NewCalls
    <3>2. Gain(t, Packet("PostSend", s, m), s) BY <1>18 DEF Gain, MadePacket
    <3>3. Gain(t, On("BroadcastResult", s), s) BY <1>18 DEF Gain, MadeOn
    <3>4. Gain(t, l, s) BY <1>18, <3>0 DEF Gain, MadeLoop
    <3> QED BY <3>1, <3>2, <3>3, <3>4 DEF Gains
  <2> QED BY <1>18, <2>1, <2>2 DEF LoopView
<1> QED BY <1>1, <1>2, <1>3, <1>4, <1>5, <1>6, <1>7, <1>8, <1>9, <1>10, <1>11, <1>12,
           <1>13, <1>14, <1>15, <1>16, <1>17, <1>18 DEF ThreadView

LEMMA LosesLemma ==
  ASSUME NEW t \in Worker, ThreadView(t)
  PROVE  Loses(t)
<1> DEFINE Leaves(f) == \E G : Moves(t, f, G)
<1>0. ASSUME NEW f, Leaves(f), Lose(t, f) PROVE Loses(t)
  BY <1>0, NewCalls DEF Loses
<1>00. ASSUME NEW G, Begins(t, G) PROVE Loses(t)
  BY <1>00 DEF Loses, Begins, Others
<1> HIDE DEF Leaves
<1>1. ASSUME NEW s \in Player, LoginView(t, s) PROVE Loses(t)
  <2>1. Leaves(On("PlayerLogin", s)) BY <1>1 DEF Leaves, LoginView
  <2>2. Lose(t, On("PlayerLogin", s)) BY <1>1 DEF Lose
  <2> QED BY <1>0, <2>1, <2>2
<1>2. ASSUME NEW s \in Player, SetIdView(t, s) PROVE Loses(t)
  <2>1. Leaves(On("SetPlayerId", s)) BY <1>2 DEF Leaves, SetIdView
  <2>2. Lose(t, On("SetPlayerId", s)) BY <1>2 DEF Lose
  <2> QED BY <1>0, <2>1, <2>2
<1>3. ASSUME NEW s \in Player, RemoveView(t, s) PROVE Loses(t)
  <2>1. Leaves(On("RemovePlayerSession", s)) BY <1>3 DEF Leaves, RemoveView
  <2>2. Lose(t, On("RemovePlayerSession", s)) BY <1>3 DEF Lose
  <2> QED BY <1>0, <2>1, <2>2
<1>4. ASSUME NEW s \in Player, ClearView(t, s) PROVE Loses(t)
  <2>1. Leaves(On("ClearPlayerId", s)) BY <1>4 DEF Leaves, ClearView
  <2>2. Lose(t, On("ClearPlayerId", s)) BY <1>4 DEF Lose
  <2> QED BY <1>0, <2>1, <2>2
<1>5. ASSUME NEW s \in Player, DisconnectView(t, s) PROVE Loses(t)
  <2>1. Leaves(On("Disconnect", s)) BY <1>5 DEF Leaves, DisconnectView
  <2>2. Lose(t, On("Disconnect", s)) BY <1>5 DEF Lose
  <2> QED BY <1>0, <2>1, <2>2
<1>6. ASSUME NEW s \in Player, OnDisconnectView(t, s) PROVE Loses(t)
  <2>1. Leaves(On("OnDisconnect", s)) BY <1>6 DEF Leaves, OnDisconnectView
  <2>2. Lose(t, On("OnDisconnect", s)) BY <1>6 DEF Lose
  <2> QED BY <1>0, <2>1, <2>2
<1>7. ASSUME NEW s \in Player, CloseView(t, s) PROVE Loses(t)
  <2>1. Leaves(On("closesocket", s)) BY <1>7 DEF Leaves, CloseView
  <2>2. Lose(t, On("closesocket", s)) BY <1>7 DEF Lose
  <2> QED BY <1>0, <2>1, <2>2
<1>8. ASSUME NEW s \in Player, FlushFailedView(t, s) PROVE Loses(t)
  <2>1. Leaves(On("FlushFailed", s)) BY <1>8 DEF Leaves, FlushFailedView
  <2>2. Lose(t, On("FlushFailed", s)) BY <1>8 DEF Lose
  <2> QED BY <1>0, <2>1, <2>2
<1>9. ASSUME NEW s \in Player, ResultView(t, s) PROVE Loses(t)
  <2>1. Leaves(On("BroadcastResult", s)) BY <1>9 DEF Leaves, ResultView
  <2>2. Lose(t, On("BroadcastResult", s)) BY <1>9 DEF Lose
  <2> QED BY <1>0, <2>1, <2>2
<1>10. ASSUME NEW s \in Player, SendDoneView(t, s) PROVE Loses(t)
  BY <1>00, <1>10 DEF SendDoneView
<1>11. ASSUME NEW s \in Player, CompletionView(t, s) PROVE Loses(t)
  <2>1. Leaves(On("SendCompletion", s)) BY <1>11 DEF Leaves, CompletionView, SendFlies, SendBreaks
  <2>2. Lose(t, On("SendCompletion", s)) BY <1>11 DEF Lose
  <2> QED BY <1>0, <2>1, <2>2
<1>12. ASSUME NEW s \in Player, RecvView(t, s) PROVE Loses(t)
  BY <1>00, <1>12 DEF RecvView
<1>13. ASSUME NEW s \in Player, OnReadView(t, s) PROVE Loses(t)
  <2>1. Leaves(On("OnRead", s)) BY <1>13 DEF Leaves, OnReadView
  <2>2. Lose(t, On("OnRead", s)) BY <1>13 DEF Lose
  <2> QED BY <1>0, <2>1, <2>2
<1>14. ASSUME NEW s \in Player, PreRecvView(t, s) PROVE Loses(t)
  <2>1. Leaves(On("PreRecv", s)) BY <1>14 DEF Leaves, PreRecvView
  <2>2. Lose(t, On("PreRecv", s)) BY <1>14 DEF Lose
  <2> QED BY <1>0, <2>1, <2>2
<1>15. ASSUME NEW s \in Player, NEW m \in Msg, PostView(t, s, m) PROVE Loses(t)
  <2>1. Leaves(Packet("PostSend", s, m)) BY <1>15 DEF Leaves, PostView
  <2>2. Lose(t, Packet("PostSend", s, m)) BY <1>15 DEF Lose
  <2> QED BY <1>0, <2>1, <2>2
<1>16. ASSUME NEW s \in Player, NEW m \in Msg, PostLockView(t, s, m) PROVE Loses(t)
  <2>1. Leaves(Packet("PostSendLock", s, m)) BY <1>16 DEF Leaves, PostLockView, SendFlies, SendBreaks
  <2>2. Lose(t, Packet("PostSendLock", s, m)) BY <1>16 DEF Lose
  <2> QED BY <1>0, <2>1, <2>2
<1>17. ASSUME NEW s \in Player, NEW m \in Msg, BroadcastView(t, s, m) PROVE Loses(t)
  <2>1. Leaves(Packet("BroadcastMessage", s, m)) BY <1>17 DEF Leaves, BroadcastView
  <2>2. Lose(t, Packet("BroadcastMessage", s, m)) BY <1>17 DEF Lose
  <2> QED BY <1>0, <2>1, <2>2
<1>18. ASSUME NEW m \in Msg, NEW todo \in SUBSET Player,
             LoopView(t, m, todo) PROVE Loses(t)
  <2>1. Leaves(Loop(m, todo)) BY <1>18 DEF Leaves, LoopView
  <2>2. Lose(t, Loop(m, todo)) BY <1>18 DEF Lose
  <2> QED BY <1>0, <2>1, <2>2
<1> QED BY <1>1, <1>2, <1>3, <1>4, <1>5, <1>6, <1>7, <1>8, <1>9, <1>10, <1>11, <1>12,
           <1>13, <1>14, <1>15, <1>16, <1>17, <1>18 DEF ThreadView

(* The same, call by call.                                                 *)
LEMMA NewOn ==
  ASSUME NEW t \in Worker, Gains(t), NEW u \in Worker, NEW at, NEW s,
         On(at, s) \in Calls(u)', On(at, s) \notin Calls(u)
  PROVE  u = t /\ MadeOn(t, at, s)
<1>1. PICK v \in Player : u = t /\ Gain(t, On(at, s), v) BY DEF Gains
<1>2. PICK b : On(at, s) = On(b, v) /\ MadeOn(t, b, v) BY <1>1, Apart DEF Gain
<1>3. at = b /\ s = v BY <1>2, Apart
<1> QED BY <1>1, <1>2, <1>3

LEMMA NewPacket ==
  ASSUME NEW t \in Worker, Gains(t), NEW u \in Worker, NEW at, NEW s, NEW m,
         Packet(at, s, m) \in Calls(u)', Packet(at, s, m) \notin Calls(u)
  PROVE  u = t /\ MadePacket(t, at, s, m)
<1>1. PICK v \in Player : u = t /\ Gain(t, Packet(at, s, m), v) BY DEF Gains
<1>2. PICK b, n : Packet(at, s, m) = Packet(b, v, n) /\ MadePacket(t, b, v, n)
  BY <1>1, Apart DEF Gain
<1>3. at = b /\ s = v /\ m = n BY <1>2, Apart
<1> QED BY <1>1, <1>2, <1>3

LEMMA NewLoop ==
  ASSUME NEW t \in Worker, Gains(t), NEW u \in Worker, NEW m, NEW todo,
         Loop(m, todo) \in Calls(u)', Loop(m, todo) \notin Calls(u)
  PROVE  u = t /\ m \in Msg /\ \E s \in Player : MadeLoop(t, s, m, todo)
<1>1. PICK v \in Player : u = t /\ Gain(t, Loop(m, todo), v) BY DEF Gains
<1>2. PICK n, d : Loop(m, todo) = Loop(n, d) /\ n \in Msg /\ MadeLoop(t, v, n, d)
  BY <1>1, Apart DEF Gain
<1>3. m = n /\ todo = d BY <1>2, Apart
<1> QED BY <1>1, <1>2, <1>3

LeftOn(t, at, s) ==
  /\ at = "PlayerLogin" => LoginView(t, s)
  /\ at = "SetPlayerId" => SetIdView(t, s)
  /\ at = "RemovePlayerSession" => RemoveView(t, s)
  /\ at = "ClearPlayerId" => ClearView(t, s)
  /\ at = "Disconnect" => DisconnectView(t, s)
  /\ at = "OnDisconnect" => OnDisconnectView(t, s)
  /\ at = "closesocket" => CloseView(t, s)
  /\ at = "FlushFailed" => FlushFailedView(t, s)
  /\ at = "BroadcastResult" => ResultView(t, s)
  /\ at = "SendCompletion" => CompletionView(t, s)
  /\ at = "OnRead" => OnReadView(t, s)
  /\ at = "PreRecv" => PreRecvView(t, s)

LEMMA LostOn ==
  ASSUME NEW t \in Worker, Loses(t), NEW u \in Worker, NEW at, NEW s,
         On(at, s) \in Calls(u), On(at, s) \notin Calls(u)'
  PROVE  u = t /\ LeftOn(t, at, s)
<1>1. u = t /\ Lose(t, On(at, s)) BY DEF Loses
<1> QED BY <1>1, Apart DEF Lose, LeftOn

LEMMA LostPacket ==
  ASSUME NEW t \in Worker, Loses(t), NEW u \in Worker, NEW at, NEW s, NEW m,
         Packet(at, s, m) \in Calls(u), Packet(at, s, m) \notin Calls(u)'
  PROVE  /\ u = t
         /\ at = "PostSend" => PostView(t, s, m)
         /\ at = "PostSendLock" => PostLockView(t, s, m)
         /\ at = "BroadcastMessage" => BroadcastView(t, s, m)
<1>1. u = t /\ Lose(t, Packet(at, s, m)) BY DEF Loses
<1> QED BY <1>1, Apart DEF Lose

-----------------------------------------------------------------------------
(* What the kernel was given is in the send buffer.                        *)

LEMMA FitsSend ==
  ASSUME Types, Fits, NEW t \in Worker, NEW s \in Player, NEW f, NEW box \in Seq(Msg),
         outbox' = Set(outbox, s, box),
         SendFlies(t, s, f, Len(box)) \/ SendBreaks(t, s, f)
  PROVE  Fits'
<1>1. Len(box) \in Nat OBVIOUS
<1>2. outbox'[s] = box /\ \A u \in Player \ {s} : outbox'[u] = outbox[u]
  BY DEF Types, Set
<1>3. /\ sending'[s] \in {0, Len(box)}
      /\ \A u \in Player \ {s} : sending'[u] = sending[u]
  BY DEF Types, Set, SendFlies, SendBreaks
<1> QED BY <1>1, <1>2, <1>3 DEF Fits

LEMMA FitsPostLock ==
  ASSUME Types, Fits, NEW t \in Worker, NEW s \in Player, NEW m \in Msg,
         PostLockView(t, s, m)
  PROVE  Fits'
<1>1. outbox[s] \in Seq(Msg) BY DEF Types
<1>2. PICK box \in Seq(Msg) : /\ box = Append(outbox[s], m)
                              /\ Len(box) = Len(outbox[s]) + 1
  <2>1. \A q \in Seq(Msg) : Append(q, m) \in Seq(Msg) /\ Len(Append(q, m)) = Len(q) + 1
    OBVIOUS
  <2> QED BY <1>1, <2>1
<1>3. CASE outbox' = outbox /\ sending' = sending BY <1>3 DEF Fits
<1>4. CASE outbox' = Set(outbox, s, box) /\ sending' = sending
  <2>1. outbox'[s] = box /\ \A u \in Player \ {s} : outbox'[u] = outbox[u]
    BY <1>4 DEF Types, Set
  <2>2. Len(outbox[s]) \in Nat /\ sending[s] \in Nat
    <3>1. \A q \in Seq(Msg) : Len(q) \in Nat OBVIOUS
    <3> QED BY <1>1, <3>1 DEF Types
  <2> QED BY <1>2, <1>4, <2>1, <2>2 DEF Fits
<1>5. CASE /\ outbox' = Set(outbox, s, box)
           /\ \/ SendFlies(t, s, Packet("PostSendLock", s, m), Len(box))
              \/ SendBreaks(t, s, Packet("PostSendLock", s, m))
  BY <1>5, FitsSend
<1> QED BY <1>2, <1>3, <1>4, <1>5 DEF PostLockView

LEMMA FitsCompletion ==
  ASSUME Types, Fits, NEW t \in Worker, NEW s \in Player, CompletionView(t, s)
  PROVE  Fits'
<1> DEFINE rest == SubSeq(outbox[s], sending[s] + 1, Len(outbox[s]))
<1>1. outbox[s] \in Seq(Msg) /\ sending[s] \in Nat BY DEF Types
<1>2. rest \in Seq(Msg) /\ Len(rest) \in Nat BY <1>1
<1>3. /\ outbox' = Set(outbox, s, rest)
      /\ \/ SendFlies(t, s, On("SendCompletion", s), Len(rest))
         \/ SendBreaks(t, s, On("SendCompletion", s))
         \/ sending' = Set(sending, s, 0)
  BY DEF CompletionView
<1> HIDE DEF rest
<1>4. CASE sending' = Set(sending, s, 0)
  <2>1. outbox'[s] = rest /\ \A u \in Player \ {s} : outbox'[u] = outbox[u]
    BY <1>3 DEF Types, Set
  <2>2. sending'[s] = 0 /\ \A u \in Player \ {s} : sending'[u] = sending[u]
    BY <1>4 DEF Types, Set
  <2> QED BY <1>2, <2>1, <2>2 DEF Fits
<1>5. CASE SendFlies(t, s, On("SendCompletion", s), Len(rest))
           \/ SendBreaks(t, s, On("SendCompletion", s))
  BY <1>2, <1>3, <1>5, FitsSend
<1> QED BY <1>3, <1>4, <1>5

LEMMA FitsStep ==
  ASSUME Types, Fits, StepView
  PROVE  Fits'
<1>1. CASE UNCHANGED <<sending, outbox>> BY <1>1 DEF Fits
<1>2. ASSUME NEW t \in Worker, ThreadView(t) PROVE Fits'
  <2>1. ASSUME NEW s \in Player, NEW m \in Msg, PostLockView(t, s, m) PROVE Fits'
    BY <2>1, FitsPostLock
  <2>2. ASSUME NEW s \in Player, CompletionView(t, s) PROVE Fits'
    BY <2>2, FitsCompletion
  <2>3. Footprint(t) BY <1>2, Footprints
  <2> QED BY <1>1, <2>1, <2>2, <2>3 DEF Footprint
<1>3. SdkView \/ OutsideView \/ UNCHANGED vars => UNCHANGED <<sending, outbox>>
  BY DEF SdkView, CallStartView, CallTerminateView, StartGameView, CreateView,
         TerminateView, OutsideView, Outsider, InitializeGameLift, OnConnect,
         KernelSend, ClientStep, Reserve, StartTest, PlayTest, EndTest, HangUp,
         vars, manager, sessions
<1> QED BY <1>1, <1>2, <1>3 DEF StepView

-----------------------------------------------------------------------------
(* The requests of the clients.                                            *)

LEMMA RequestsKept ==
  ASSUME Requests, UNCHANGED <<inbox, chats>>
  PROVE  Requests'
  BY DEF Requests

(* A request is taken.                                                     *)
LEMMA RequestsTaken ==
  ASSUME Types, Requests, NEW s \in Player, inbox[s] # <<>>,
         inbox' = Set(inbox, s, Tail(inbox[s])), chats' = chats
  PROVE  Requests'
<1> DEFINE q == inbox[s]
<1>1. q \in Seq(Msg) /\ q # <<>> BY DEF Types
<1>2. inbox'[s] = Tail(q) /\ \A u \in Player \ {s} : inbox'[u] = inbox[u]
  BY DEF Types, Set
<1>3. \A i, j \in 1 .. Len(q) :
        /\ q[i].from = s /\ q[i].kind \in {"login", "exit", "chat"}
        /\ q[i].kind = "chat" => q[i].n \in 1 .. chats
        /\ q[i].kind # "chat" => q[i].n = 0
        /\ q[i] = q[j] /\ q[i].kind = "chat" => i = j
  BY DEF Requests
<1> HIDE DEF q
<1>4. PICK n \in Nat : n = Len(q) /\ n # 0
  <2>1. PICK n \in Nat : n = Len(q) BY <1>1
  <2> QED BY <2>1, <1>1, EmptySeq
<1>5. Len(Tail(q)) = n - 1 /\ \A i \in 1 .. (n - 1) : Tail(q)[i] = q[i + 1]
  BY <1>1, <1>4
<1>6. \A i \in 1 .. (n - 1) : i + 1 \in 1 .. n BY <1>4
<1> DEFINE r == Tail(q)
<1> HIDE DEF r
<1>7. ASSUME NEW i \in 1 .. (n - 1), NEW j \in 1 .. (n - 1)
      PROVE  /\ r[i].from = s /\ r[i].kind \in {"login", "exit", "chat"}
             /\ r[i].kind = "chat" => r[i].n \in 1 .. chats
             /\ r[i].kind # "chat" => r[i].n = 0
             /\ r[i] = r[j] /\ r[i].kind = "chat" => i = j
  <2>1. i + 1 \in 1 .. n /\ j + 1 \in 1 .. n /\ r[i] = q[i + 1] /\ r[j] = q[j + 1]
    BY <1>5, <1>6 DEF r
  <2>2. i + 1 = j + 1 => i = j OBVIOUS
  <2> QED BY <2>1, <2>2, <1>3, <1>4
<1>8. inbox'[s] = r /\ Len(r) = n - 1 BY <1>2, <1>5 DEF r
<1>9. ASSUME NEW u \in Player, NEW i \in 1 .. Len(inbox'[u]), NEW j \in 1 .. Len(inbox'[u])
      PROVE  LET p == inbox'[u]
             IN  /\ p[i].from = u /\ p[i].kind \in {"login", "exit", "chat"}
                 /\ p[i].kind = "chat" => p[i].n \in 1 .. chats
                 /\ p[i].kind # "chat" => p[i].n = 0
                 /\ p[i] = p[j] /\ p[i].kind = "chat" => i = j
  <2>1. CASE u = s BY <2>1, <1>7, <1>8
  <2>2. CASE u # s
    <3>1. inbox'[u] = inbox[u] BY <2>2, <1>2
    <3> QED BY <3>1 DEF Requests
  <2> QED BY <2>1, <2>2
<1> QED BY <1>9 DEF Requests

(* A request is added.                                                     *)
LEMMA RequestsAdded ==
  ASSUME Types, Requests, NEW s \in Player, NEW kind \in {"login", "exit", "chat"},
         NEW n \in Nat, Request(s, Message(kind, s, n)),
         \/ kind = "chat" /\ chats' = chats + 1 /\ n = chats'
         \/ kind # "chat" /\ chats' = chats /\ n = 0
  PROVE  Requests'
<1> DEFINE q == inbox[s]
           m == Message(kind, s, n)
<1>0. chats \in Nat BY DEF Types
<1>1. q \in Seq(Msg) BY DEF Types
<1>2. inbox'[s] = Append(q, m) /\ \A u \in Player \ {s} : inbox'[u] = inbox[u]
  BY DEF Types, Set, Request
<1>3. \A i, j \in 1 .. Len(q) :
        /\ q[i].from = s /\ q[i].kind \in {"login", "exit", "chat"}
        /\ q[i].kind = "chat" => q[i].n \in 1 .. chats
        /\ q[i].kind # "chat" => q[i].n = 0
        /\ q[i] = q[j] /\ q[i].kind = "chat" => i = j
  BY DEF Requests
<1>4. m.from = s /\ m.kind = kind /\ m.n = n BY DEF Message
<1> HIDE DEF q, m
<1>5. PICK k \in Nat : k = Len(q) BY <1>1
<1> DEFINE r == Append(q, m)
<1>6. Len(r) = k + 1 /\ r[k + 1] = m /\ \A i \in 1 .. k : r[i] = q[i]
  BY <1>1, <1>5
<1> HIDE DEF r
<1>7. \A x : x \in 1 .. chats => x \in 1 .. chats' BY <1>0
<1>8. \A i \in 1 .. (k + 1) : i \in 1 .. k \/ i = k + 1 BY <1>5
<1>9. ASSUME NEW i \in 1 .. k
      PROVE  /\ r[i].from = s /\ r[i].kind \in {"login", "exit", "chat"}
             /\ r[i].kind = "chat" => r[i].n \in 1 .. chats'
             /\ r[i].kind # "chat" => r[i].n = 0
             /\ \A j \in 1 .. k : r[i] = r[j] /\ r[i].kind = "chat" => i = j
             /\ ~ (r[i] = r[k + 1] /\ r[i].kind = "chat")
  <2>1. r[i] = q[i] /\ \A j \in 1 .. k : r[j] = q[j] BY <1>6
  <2>2. ASSUME r[i] = m, r[i].kind = "chat" PROVE FALSE
    <3>1. r[i].n \in 1 .. chats BY <2>1, <2>2, <1>3, <1>5
    <3>2. n = chats + 1 BY <2>2, <1>4
    <3> QED BY <3>1, <3>2, <2>2, <1>0, <1>4
  <2> QED BY <2>1, <2>2, <1>3, <1>5, <1>6, <1>7
<1>10. /\ r[k + 1].from = s /\ r[k + 1].kind \in {"login", "exit", "chat"}
       /\ r[k + 1].kind = "chat" => r[k + 1].n \in 1 .. chats'
       /\ r[k + 1].kind # "chat" => r[k + 1].n = 0
  BY <1>0, <1>4, <1>6
<1>11. \A i, j \in 1 .. (k + 1) :
         /\ r[i].from = s /\ r[i].kind \in {"login", "exit", "chat"}
         /\ r[i].kind = "chat" => r[i].n \in 1 .. chats'
         /\ r[i].kind # "chat" => r[i].n = 0
         /\ r[i] = r[j] /\ r[i].kind = "chat" => i = j
  BY <1>8, <1>9, <1>10
<1>12. inbox'[s] = r /\ Len(r) = k + 1 BY <1>2, <1>6 DEF r
<1>13. ASSUME NEW u \in Player \ {s}, NEW i \in 1 .. Len(inbox'[u]), NEW j \in 1 .. Len(inbox'[u])
       PROVE  /\ inbox'[u][i].from = u /\ inbox'[u][i].kind \in {"login", "exit", "chat"}
              /\ inbox'[u][i].kind = "chat" => inbox'[u][i].n \in 1 .. chats'
              /\ inbox'[u][i].kind # "chat" => inbox'[u][i].n = 0
              /\ inbox'[u][i] = inbox'[u][j] /\ inbox'[u][i].kind = "chat" => i = j
  BY <1>2, <1>7 DEF Requests
<1> QED BY <1>11, <1>12, <1>13 DEF Requests

LEMMA RequestsStep ==
  ASSUME Types, Requests, StepView
  PROVE  Requests'
<1>1. ASSUME NEW t \in Worker, ThreadView(t) PROVE Requests'
  <2>1. ASSUME NEW s \in Player, RecvView(t, s) PROVE Requests'
    BY <2>1, RequestsKept, RequestsTaken DEF RecvView
  <2>2. ASSUME NEW s \in Player, OnReadView(t, s) PROVE Requests'
    BY <2>2, RequestsKept, RequestsTaken DEF OnReadView
  <2>3. Footprint(t) BY <1>1, Footprints
  <2> QED BY <2>1, <2>2, <2>3, RequestsKept DEF Footprint
<1>2. CASE OutsideView
  <2>0. chats \in Nat /\ chats + 1 \in Nat
    <3>1. chats \in Nat BY DEF Types
    <3> QED BY <3>1
  <2>1. ASSUME NEW s \in Player, StartTest(s) PROVE Requests'
    BY <2>1, RequestsAdded DEF StartTest
  <2>2. ASSUME NEW s \in Player, PlayTest(s) PROVE Requests'
    BY <2>0, <2>2, RequestsAdded DEF PlayTest
  <2>3. ASSUME NEW s \in Player, EndTest(s) PROVE Requests'
    BY <2>3, RequestsAdded DEF EndTest
  <2> QED BY <1>2, <2>1, <2>2, <2>3, RequestsKept
          DEF OutsideView, Outsider, InitializeGameLift, OnConnect, KernelSend,
              ClientStep, Reserve, HangUp, world
<1>3. SdkView \/ UNCHANGED vars => UNCHANGED <<inbox, chats>>
  BY DEF SdkView, CallStartView, CallTerminateView, StartGameView, CreateView,
         TerminateView, vars, world
<1> QED BY <1>1, <1>2, <1>3, RequestsKept DEF StepView

-----------------------------------------------------------------------------
(* The beginning, and who holds mLock.                                     *)

LEMMA GamesDiffer ==
  ASSUME NEW S \in SUBSET Player
  PROVE  S # NoGame
  BY GameServerAssumption DEF NoGame

(* A step of an I/O thread comes after the beginning.                      *)
LEMMA ThreadBusy ==
  ASSUME Begun, NEW t \in Worker, ThreadView(t)
  PROVE  gameStatus # "none" /\ Running /\ mActivated
<1>1. Running BY Footprints DEF Footprint
<1>2. ASSUME Untouched PROVE FALSE
  <2>1. Calls(t) = {} /\ \A s \in Player : recv[s] = "off" /\ send[s] = "none"
    BY <1>2 DEF Untouched
  <2>2. \A s \in Player : ~ SendDoneView(t, s) /\ ~ RecvView(t, s)
    BY <2>1 DEF SendDoneView, RecvView
  <2>3. \A f : ~ Tops(t, f) BY <2>1 DEF Tops
  <2>4. \A s \in Player : ~ CompletionView(t, s) /\ ~ PreRecvView(t, s)
    BY <2>1 DEF CompletionView, PreRecvView
  <2> QED
    BY <2>2, <2>3, <2>4
    DEF ThreadView, LoginView, SetIdView, RemoveView, ClearView, DisconnectView,
        OnDisconnectView, CloseView, FlushFailedView, ResultView, OnReadView, PostView,
        PostLockView, BroadcastView, LoopView
<1> QED BY <1>1, <1>2 DEF Begun

LEMMA BegunThread ==
  ASSUME Base, NEW t \in Worker, ThreadView(t)
  PROVE  Begun'
<1> DEFINE Game == mGameSession # NoGame
<1> USE GameServerAssumption DEF Base
<1>1. gameStatus = "active" /\ Running /\ mActivated BY ThreadBusy DEF Types
<1>2. gameStatus' = "active" /\ stack'[Sdk] = stack[Sdk]
  BY <1>1, Footprints DEF Footprint
<1>3. Footprint(t) BY Footprints
<1>4. t # Sdk /\ Nobody # Sdk /\ Nobody # t BY DEF Thread
<1>5. ASSUME NEW s \in Player, LoginView(t, s) PROVE mGameSession # NoGame /\ mGameSession' # NoGame
  <2>1. Calls(t) # {} /\ mLock = Nobody BY <1>5 DEF LoginView, Tops
  <2>2. mGameSession # NoGame BY <1>1, <2>1, LockedGame
  <2>3. mGameSession \in SUBSET Player BY <2>2 DEF Types
  <2>4. mGameSession' \in SUBSET Player BY <1>5, <2>3 DEF LoginView
  <2> QED BY <2>2, <2>4, GamesDiffer
<1>6. ASSUME NEW s \in Player, RemoveView(t, s)
      PROVE  /\ mGameSession # NoGame
             /\ \/ exitCode' = "full"
                \/ mGameSession' # NoGame /\ UNCHANGED <<mActivated, exitCode>>
  <2>1. Calls(t) # {} /\ mLock = Nobody BY <1>6 DEF RemoveView, Tops
  <2>2. mGameSession # NoGame BY <1>1, <2>1, LockedGame
  <2>3. mGameSession \in SUBSET Player BY <2>2 DEF Types
  <2>4. \/ exitCode' = "full"
        \/ mGameSession' \in SUBSET Player /\ UNCHANGED <<mActivated, exitCode>>
    BY <1>6, <2>3 DEF RemoveView, TerminateGameSession
  <2> QED BY <2>2, <2>4, GamesDiffer
<1>7. Running' => mActivated'
  <2>1. CASE UNCHANGED <<mActivated, exitCode>> BY <2>1, <1>1 DEF Running
  <2>2. ASSUME NEW s \in Player, LoginView(t, s) PROVE UNCHANGED <<mActivated, exitCode>>
    BY <2>2 DEF LoginView
  <2>3. ASSUME NEW s \in Player, RemoveView(t, s)
        PROVE  exitCode' = "full" \/ UNCHANGED <<mActivated, exitCode>>
    BY <2>3, <1>6
  <2> QED BY <1>3, <2>1, <2>2, <2>3 DEF Footprint, Running
<1>8. stack[Sdk] = Creating => mLock' = Sdk /\ mGameSession' = NoGame /\ Running'
  <2> SUFFICES ASSUME stack[Sdk] = Creating
               PROVE  mLock' = Sdk /\ mGameSession' = NoGame /\ Running'
    OBVIOUS
  <2>1. mLock = Sdk /\ mGameSession = NoGame BY DEF Begun
  <2>2. mLock' = mLock
    <3>1. ASSUME NEW m \in Msg, NEW todo \in SUBSET Player, LoopView(t, m, todo) PROVE FALSE
      <4>1. mLock = t BY <3>1 DEF LoopView, Tops, Begun
      <4> QED BY <4>1, <2>1, <1>4
    <3>2. ASSUME NEW s \in Player, NEW m \in Msg, BroadcastView(t, s, m) PROVE FALSE
      BY <3>2, <2>1, <1>4 DEF BroadcastView
    <3> QED BY <1>3, <3>1, <3>2 DEF Footprint
  <2>3. UNCHANGED <<mGameSession, exitCode>>
    <3>1. \A s \in Player : ~ LoginView(t, s) BY <2>1, <1>4 DEF LoginView
    <3>2. \A s \in Player : ~ RemoveView(t, s) BY <2>1, <1>4 DEF RemoveView
    <3> QED BY <1>3, <3>1, <3>2 DEF Footprint
  <2> QED BY <1>1, <2>1, <2>2, <2>3 DEF Running
<1>9. Running' /\ stack[Sdk] # Creating => mGameSession' # NoGame
  <2> SUFFICES ASSUME Running', stack[Sdk] # Creating PROVE mGameSession' # NoGame
    OBVIOUS
  <2>1. mGameSession # NoGame BY <1>1 DEF Begun
  <2> QED BY <1>3, <1>5, <1>6, <2>1 DEF Footprint, Running
<1>10. ASSUME NEW u \in Worker, NEW m \in Msg, NEW todo \in SUBSET Player,
              Loop(m, todo) \in Calls(u)'
       PROVE  mLock' = u
  <2>1. CASE Loop(m, todo) \in Calls(u)
    <3>1. mLock = u BY <2>1 DEF Begun
    <3>2. ASSUME NEW n \in Msg, NEW d \in SUBSET Player, LoopView(t, n, d), mLock' # mLock
          PROVE  FALSE
      <4>1. /\ Tops(t, Loop(n, d)) /\ mLock' = Nobody
            /\ Moves(t, Loop(n, d), {})
        BY <3>2 DEF LoopView
      <4>2. mLock = t BY <4>1 DEF Begun, Tops
      <4>3. Loop(m, todo) \in Calls(t) \ {Loop(n, d)}
        BY <4>1, <4>2, <3>1, <1>10 DEF Moves
      <4>4. Level(Loop(n, d)) < Level(Loop(m, todo)) BY <4>1, <4>3 DEF Tops
      <4>5. Level(Loop(n, d)) = 7 /\ Level(Loop(m, todo)) = 7 BY LoopIs DEF Level, LevelOf
      <4> QED BY <4>4, <4>5
    <3>3. ASSUME NEW s \in Player, NEW n \in Msg, BroadcastView(t, s, n) PROVE FALSE
      <4>1. mLock = Nobody BY <3>3 DEF BroadcastView
      <4> QED BY <4>1, <3>1 DEF Thread
    <3> QED BY <1>3, <3>1, <3>2, <3>3 DEF Footprint
  <2>2. CASE Loop(m, todo) \notin Calls(u)
    <3>1. Gains(t) BY GainsLemma
    <3>2. u = t /\ \E s \in Player : MadeLoop(t, s, m, todo)
      BY <1>10, <2>2, <3>1, NewLoop
    <3>3. CASE \E s \in Player : BroadcastView(t, s, m)
      BY <3>2, <3>3 DEF BroadcastView
    <3>4. ASSUME NEW d \in SUBSET Player, LoopView(t, m, d) PROVE mLock' = u
      <4>1. mLock = t BY <3>4 DEF LoopView, Tops, Begun
      <4>2. mLock' = mLock
        <5>1. SUFFICES ASSUME Moves(t, Loop(m, d), {}) PROVE FALSE
          BY <3>4 DEF LoopView
        <5>2. Loop(m, todo) \in Calls(t) BY <5>1, <3>2, <1>10 DEF Moves
        <5> QED BY <5>2, <3>2, <2>2
      <4> QED BY <4>1, <4>2, <3>2
    <3> QED BY <3>2, <3>3, <3>4 DEF MadeLoop
  <2> QED BY <2>1, <2>2
<1> QED BY <1>1, <1>2, <1>7, <1>8, <1>9, <1>10, Scripts DEF Begun

LEMMA BegunStep ==
  ASSUME Base, StepView
  PROVE  Begun'
<1> USE GameServerAssumption DEF Base
<1>0. Sdk # Nobody /\ (\A u \in Worker : u # Sdk /\ u # Nobody) BY DEF Thread
<1>1. ASSUME Still, UNCHANGED <<service, client, recv, send>>, Untouched PROVE Untouched'
  BY <1>1 DEF Untouched, Still
<1>2. ASSUME Still, UNCHANGED mLock
      PROVE  \A u \in Worker, m \in Msg, todo \in SUBSET Player :
               Loop(m, todo) \in Calls(u)' => mLock' = u
  BY <1>2 DEF Still, Begun
<1>3. ASSUME Still, mLock \in {Sdk, Nobody}
      PROVE  \A u \in Worker, m \in Msg, todo \in SUBSET Player : Loop(m, todo) \notin Calls(u)'
  BY <1>0, <1>3 DEF Still, Begun
<1>4. CASE SdkView
  <2>0. Still BY <1>4 DEF SdkView
  <2>1. CASE CallStartView
    BY <2>0, <2>1, <1>1, <1>2, Scripts DEF CallStartView, Begun, manager, sessions, world, Running
  <2>2. CASE CallTerminateView
    BY <2>0, <2>2, <1>1, <1>2, Scripts DEF CallTerminateView, Begun, manager, sessions, world, Running
  <2>3. CASE StartGameView
    BY <2>0, <2>3, <1>0, <1>1, <1>3, Scripts DEF StartGameView, Begun, sessions, Running
  <2>4. CASE CreateView
    <3>1. mLock = Sdk /\ gameStatus = "active" BY <2>4 DEF CreateView, Begun
    <3>2. {} # NoGame BY GamesDiffer
    <3> QED BY <2>0, <2>4, <1>0, <1>1, <1>3, <3>1, <3>2, Scripts
            DEF CreateView, Begun, sessions, world, Running
  <2>5. CASE TerminateView
    <3>1. CASE ~ mActivated /\ UNCHANGED <<mGameSession, mActivated, exitCode>>
      BY <2>0, <2>5, <1>1, <1>2, <3>1, Scripts DEF TerminateView, Begun, sessions, world, Running
    <3>2. CASE mActivated /\ TerminateGameSession("ordered")
      <4>1. /\ mGameSession' = NoGame /\ ~ Running' BY <3>2 DEF TerminateGameSession, Running
      <4> QED BY <2>0, <2>5, <1>1, <1>2, <4>1, Scripts DEF TerminateView, Begun, sessions, world
    <3> QED BY <2>5, <3>1, <3>2 DEF TerminateView
  <2> QED BY <1>4, <2>1, <2>2, <2>3, <2>4, <2>5 DEF SdkView
<1>5. CASE OutsideView
  <2>0. Still /\ stack'[Sdk] = stack[Sdk] BY <1>5 DEF OutsideView
  <2>1. CASE InitializeGameLift
    BY <2>0, <2>1, <1>1, <1>2 DEF InitializeGameLift, Begun, sessions, world, Running
  <2>2. ASSUME NEW s \in Player, OnConnect(s) PROVE Begun'
    <3>1. service[s] = "reserved" /\ mActivated BY <2>2 DEF OnConnect
    <3>2. gameStatus # "none" BY <3>1 DEF Begun
    <3> QED BY <2>0, <2>2, <1>2, <3>1, <3>2 DEF OnConnect, Begun, manager, Running
  <2>3. ASSUME NEW s \in Player, KernelSend(s) PROVE Begun'
    <3>1. send[s] = "flying" BY <2>3 DEF KernelSend
    <3>2. ~ Untouched BY <3>1 DEF Untouched
    <3> QED BY <2>0, <2>3, <1>2, <3>2 DEF KernelSend, Begun, manager, Running
  <2>4. ASSUME NEW s \in Player, Reserve(s) PROVE Begun'
    <3>1. gameStatus # "none" /\ service' = Set(service, s, "reserved") BY <2>4 DEF Reserve
    <3>2. ASSUME Untouched PROVE Untouched'
      <4>1. \A u \in Player : service'[u] \in {"none", "reserved"}
        BY <3>1, <3>2 DEF Untouched, Types, Set
      <4> QED BY <2>0, <2>4, <3>2, <4>1 DEF Untouched, Still, Reserve, sessions
    <3> QED BY <2>0, <2>4, <1>2, <3>1, <3>2 DEF Reserve, Begun, manager, Running
  <2>5. ASSUME NEW s \in Player, StartTest(s) PROVE Begun'
    <3>1. client[s] # "out" BY <2>5 DEF StartTest
    <3>2. ~ Untouched BY <3>1 DEF Untouched
    <3> QED BY <2>0, <2>5, <1>2, <3>2 DEF StartTest, Begun, manager, Running
  <2>6. ASSUME NEW s \in Player, PlayTest(s) PROVE Begun'
    <3>1. client[s] # "out" BY <2>6 DEF PlayTest, LoggedIn
    <3>2. ~ Untouched BY <3>1 DEF Untouched
    <3> QED BY <2>0, <2>6, <1>2, <3>2 DEF PlayTest, Begun, manager, Running
  <2>7. ASSUME NEW s \in Player, EndTest(s) PROVE Begun'
    <3>1. client[s] # "out" BY <2>7 DEF EndTest, LoggedIn
    <3>2. ~ Untouched BY <3>1 DEF Untouched
    <3> QED BY <2>0, <2>7, <1>2, <3>2 DEF EndTest, Begun, manager, Running
  <2>8. ASSUME NEW s \in Player, HangUp(s) PROVE Begun'
    <3>1. client[s] # "out" BY <2>8 DEF HangUp
    <3>2. ~ Untouched BY <3>1 DEF Untouched
    <3> QED BY <2>0, <2>8, <1>2, <3>2 DEF HangUp, Begun, manager, Running
  <2> QED BY <1>5, <2>1, <2>2, <2>3, <2>4, <2>5, <2>6, <2>7, <2>8
          DEF OutsideView, Outsider, ClientStep
<1>6. CASE UNCHANGED vars /\ Still /\ stack'[Sdk] = stack[Sdk]
  BY <1>6, <1>1, <1>2 DEF vars, manager, sessions, world, Begun, Running
<1> QED BY <1>4, <1>5, <1>6, BegunThread DEF StepView

-----------------------------------------------------------------------------
(* The base of the invariant, and a game session for everyone who asks.    *)

LEMMA InitBase == Init => Base
<1> SUFFICES ASSUME Init PROVE Base OBVIOUS
<1> USE GameServerAssumption DEF Init
<1>1. \A u \in Worker : stack[u] = <<>> BY DEF Thread
<1>2. \A u \in Worker : Calls(u) = {} BY <1>1, FramesNone DEF Calls
<1>3. stack[Sdk] = <<>> BY DEF Thread
<1>4. Types
  <2>1. <<>> \in Seq(Msg) OBVIOUS
  <2> QED BY <2>1 DEF Types, Phases
<1>5. Stacks
  <2>1. <<>> \in Seq(Frame) /\ Nested(<<>>) BY DEF Nested
  <2>2. stack \in [Thread -> Seq(Frame) \cup {Starting, Creating, Ending}] BY <2>1
  <2> QED BY <1>1, <1>3, <2>1, <2>2 DEF Stacks
<1>6. Begun BY <1>2, <1>3, Scripts DEF Begun, Untouched, Running
<1>7. Requests BY DEF Requests
<1>8. Fits BY DEF Fits
<1> QED BY <1>4, <1>5, <1>6, <1>7, <1>8 DEF Base

LEMMA StepBase == Base /\ [Next]_vars => Base'
<1> SUFFICES ASSUME Base, [Next]_vars PROVE Base' OBVIOUS
<1>1. Stacks' /\ StepView BY StepViews
<1>2. Types' BY <1>1, TypesStep
<1>3. Begun' BY <1>1, BegunStep
<1>4. Types /\ Requests /\ Fits BY DEF Base
<1>5. Requests' BY <1>1, <1>4, RequestsStep
<1>6. Fits' BY <1>1, <1>4, FitsStep
<1> QED BY <1>1, <1>2, <1>3, <1>5, <1>6 DEF Base

(* A login or a broadcast that gets mLock finds the game session created,  *)
(* although the service sends players as soon as it was told that the game *)
(* session is active: the callback holds mLock from then on.               *)
THEOREM GameSessionIsThere == Spec => []GameSessionThere
<1>1. Base => GameSessionThere
  <2> SUFFICES ASSUME Base, NEW t \in Worker, NEW at, Stands(t, at), mLock = Nobody
               PROVE  mGameSession # NoGame
    BY DEF GameSessionThere
  <2>1. Running /\ stack[t] # <<>> /\ stack[t] \in Seq(Frame) /\ Nested(stack[t])
    BY DEF Stands, Base, Stacks
  <2>2. Calls(t) # {} BY <2>1, FramesTail DEF Calls
  <2> QED BY <2>1, <2>2, LockedGame DEF Base
<1> QED BY <1>1, InitBase, StepBase, PTL DEF Spec

-----------------------------------------------------------------------------
(* The players of the game session.                                        *)

Entered(s) == service[s] \in {"active", "completed"}
Here       == {s \in Player : service[s] = "active"}
Gone       == {s \in Player : service[s] = "completed"}

(* The players of the game session are those the service has active.       *)
Roster ==
  /\ mGameSession # NoGame => mGameSession = Here
  /\ Running /\ mGameSession = NoGame => \A s \in Player : ~ Entered(s)
  /\ ~ Running => mGameSession = NoGame

(* The counters count, and the process ends in time.                       *)
Counts ==
  /\ mAcceptedCount = Cardinality({s \in Player : Entered(s)})
  /\ mRemovedCount = Cardinality(Gone)
  /\ Running => mRemovedCount < MAX_PLAYER_PER_GAME

(* What a login does to the service's view of the game session.            *)
LEMMA LoginEnters ==
  ASSUME Base, Roster, NEW t \in Worker, NEW s \in Player, LoginView(t, s),
         service[s] = "reserved"
  PROVE  /\ mGameSession # NoGame /\ mGameSession = Here /\ s \notin Here /\ s \notin Gone
         /\ Here' = Here \cup {s} /\ Gone' = Gone
         /\ mGameSession' = Here' /\ mGameSession' # NoGame
         /\ {r \in Player : Entered(r)}' = {r \in Player : Entered(r)} \cup {s}
         /\ mAcceptedCount' = mAcceptedCount + 1 /\ UNCHANGED <<mRemovedCount, exitCode>>
<1> USE DEF Base
<1>1. Running /\ mLock = Nobody /\ Calls(t) # {} BY DEF LoginView, Tops
<1>2. mGameSession # NoGame BY <1>1, LockedGame
<1>3. mGameSession = Here BY <1>2 DEF Roster
<1>4. \A r \in Player : service'[r] = IF r = s THEN "active" ELSE service[r]
  BY DEF LoginView, Types, Set
<1>5. Here' = Here \cup {s} /\ Gone' = Gone BY <1>4 DEF Here, Gone
<1>6. {r \in Player : Entered(r)}' = {r \in Player : Entered(r)} \cup {s}
  BY <1>4 DEF Entered
<1>7. mGameSession' = Here' BY <1>3, <1>5 DEF LoginView
<1>8. Here' \in SUBSET Player BY DEF Here
<1>9. mGameSession' # NoGame BY <1>7, <1>8, GamesDiffer
<1> QED BY <1>2, <1>3, <1>5, <1>6, <1>7, <1>9 DEF LoginView, Here, Gone

(* What a removal does to it.                                              *)
LEMMA RemoveLeaves ==
  ASSUME Base, Roster, NEW t \in Worker, NEW s \in Player, RemoveView(t, s),
         service[s] = "active"
  PROVE  /\ mGameSession # NoGame /\ mGameSession = Here /\ s \in Here /\ s \notin Gone
         /\ Here' = Here \ {s} /\ Gone' = Gone \cup {s}
         /\ {r \in Player : Entered(r)}' = {r \in Player : Entered(r)}
         /\ mRemovedCount' = mRemovedCount + 1 /\ mAcceptedCount' = mAcceptedCount
         /\ mActivated
         /\ \/ /\ CheckTerminateGameSession(mAcceptedCount, mRemovedCount')
               /\ mGameSession' = NoGame /\ ~ Running'
            \/ /\ ~ CheckTerminateGameSession(mAcceptedCount, mRemovedCount')
               /\ mGameSession' = Here' /\ mGameSession' # NoGame /\ Running'
<1> USE DEF Base
<1>1. Running /\ mLock = Nobody /\ Calls(t) # {} BY DEF RemoveView, Tops
<1>2. mGameSession # NoGame BY <1>1, LockedGame
<1>3. mGameSession = Here BY <1>2 DEF Roster
<1>4. \A r \in Player : service'[r] = IF r = s THEN "completed" ELSE service[r]
  BY DEF RemoveView, Types, Set
<1>5. Here' = Here \ {s} /\ Gone' = Gone \cup {s} BY <1>4 DEF Here, Gone
<1>6. {r \in Player : Entered(r)}' = {r \in Player : Entered(r)} BY <1>4 DEF Entered
<1>7. Here' \in SUBSET Player BY DEF Here
<1>8. Here' # NoGame BY <1>7, GamesDiffer
<1>9. mActivated BY Busy, <1>1
<1>10. \/ /\ CheckTerminateGameSession(mAcceptedCount, mRemovedCount')
          /\ mGameSession' = NoGame /\ exitCode' = "full"
       \/ /\ ~ CheckTerminateGameSession(mAcceptedCount, mRemovedCount')
          /\ mGameSession' = mGameSession \ {s} /\ exitCode' = exitCode
  BY DEF RemoveView, TerminateGameSession
<1> QED BY <1>1, <1>2, <1>3, <1>5, <1>6, <1>8, <1>9, <1>10 DEF RemoveView, Here, Gone, Running

LEMMA RosterKept ==
  ASSUME Roster, UNCHANGED <<mGameSession, exitCode, service>>
  PROVE  Roster'
  BY DEF Roster, Entered, Here, Running

LEMMA RosterThread ==
  ASSUME Base, Roster, NEW t \in Worker, ThreadView(t)
  PROVE  Roster'
<1>1. ASSUME NEW s \in Player, LoginView(t, s) PROVE Roster'
  <2>1. CASE service[s] = "reserved"
    BY <1>1, <2>1, LoginEnters DEF Roster, Running
  <2>2. CASE service[s] # "reserved" BY <1>1, <2>2, RosterKept DEF LoginView
  <2> QED BY <2>1, <2>2
<1>2. ASSUME NEW s \in Player, RemoveView(t, s) PROVE Roster'
  <2>1. CASE service[s] = "active" BY <1>2, <2>1, RemoveLeaves DEF Roster
  <2>2. CASE service[s] # "active"
    <3>1. service' = service BY <1>2, <2>2 DEF RemoveView
    <3>2. \/ mGameSession' = NoGame /\ ~ Running'
          \/ UNCHANGED <<mGameSession, exitCode>>
      BY <1>2, <2>2 DEF RemoveView, TerminateGameSession, Running
    <3> QED BY <3>1, <3>2, RosterKept DEF Roster
  <2> QED BY <2>1, <2>2
<1>3. Footprint(t) BY Footprints
<1> QED BY <1>1, <1>2, <1>3, RosterKept DEF Footprint

LEMMA RosterSdk ==
  ASSUME Base, Roster, SdkView
  PROVE  Roster'
<1>1. CASE CreateView
  <2>1. mGameSession = NoGame /\ Running BY <1>1 DEF CreateView, Base, Begun
  <2>2. \A s \in Player : ~ Entered(s) BY <2>1 DEF Roster
  <2>3. Here = {} BY <2>2 DEF Here, Entered
  <2>4. Here' = {} BY <1>1, <2>3 DEF Here, CreateView, world
  <2>5. {} # NoGame BY GamesDiffer
  <2> QED BY <1>1, <2>1, <2>4, <2>5 DEF Roster, CreateView, Running
<1>2. CASE TerminateView
  <2>1. CASE TerminateGameSession("ordered")
    BY <2>1 DEF Roster, TerminateGameSession, Running
  <2>2. CASE UNCHANGED <<mGameSession, exitCode>>
    BY <1>2, <2>2, RosterKept DEF TerminateView, world
  <2> QED BY <1>2, <2>1, <2>2 DEF TerminateView
<1>3. CASE CallStartView \/ CallTerminateView \/ StartGameView
  BY <1>3, RosterKept DEF CallStartView, CallTerminateView, StartGameView, manager, world
<1> QED BY <1>1, <1>2, <1>3 DEF SdkView

LEMMA RosterOutside ==
  ASSUME Base, Roster, Outsider
  PROVE  /\ Roster' /\ Here' = Here /\ Gone' = Gone
         /\ \A r \in Player : Entered(r)' <=> Entered(r)
<1>0. service \in [Player -> Phases] BY DEF Base, Types
<1>1. /\ UNCHANGED <<mGameSession, exitCode>>
      /\ \/ service' = service
         \/ \E s \in Player : service[s] = "none" /\ service' = Set(service, s, "reserved")
  BY DEF Outsider, InitializeGameLift, OnConnect, KernelSend, ClientStep, Reserve,
         StartTest, PlayTest, EndTest, HangUp, manager, world
<1>2. \A r \in Player : \/ service'[r] = service[r]
                        \/ service[r] = "none" /\ service'[r] = "reserved"
  BY <1>0, <1>1 DEF Set
<1>3. Here' = Here /\ Gone' = Gone BY <1>2 DEF Here, Gone
<1>4. \A r \in Player : Entered(r)' <=> Entered(r) BY <1>2 DEF Entered
<1> QED BY <1>1, <1>3, <1>4 DEF Roster, Running

LEMMA RosterStep ==
  ASSUME Base, Roster, StepView
  PROVE  Roster'
<1>1. CASE UNCHANGED vars BY <1>1, RosterKept DEF vars, manager, world
<1> QED BY <1>1, RosterThread, RosterSdk, RosterOutside DEF StepView, OutsideView

LEMMA InitRoster == Init => Roster
  BY DEF Init, Roster, Running, Entered

-----------------------------------------------------------------------------
(* The manager implements GameSessionLife.                                 *)

Phase == IF ~ Running THEN "ended"
         ELSE IF mGameSession = NoGame THEN "none" ELSE "active"
LifeVars == <<Phase, Here, Gone>>

(* GameSessionLife counts as FiniteSets does.                              *)
LEMMA LifeCounts ==
  ASSUME NEW S
  PROVE  Life!Cardinality(S) = Cardinality(S)
  BY DEF Life!Cardinality, Cardinality

(* A step that neither the service nor the counters notice.                *)
LEMMA LifeStutters ==
  ASSUME Counts, UNCHANGED <<service, mAcceptedCount, mRemovedCount, exitCode, mGameSession>>
  PROVE  Counts' /\ UNCHANGED LifeVars
  BY DEF Counts, LifeVars, Here, Gone, Phase, Entered, Running

LEMMA LifeEnters ==
  ASSUME Base, Roster, Counts, IsFiniteSet(Player), NEW t \in Worker, NEW s \in Player,
         LoginView(t, s)
  PROVE  Counts' /\ (Life!Next \/ UNCHANGED LifeVars)
<1>1. CASE service[s] # "reserved" BY <1>1, LifeStutters DEF LoginView
<1>2. CASE service[s] = "reserved"
  <2>1. /\ mGameSession # NoGame /\ mGameSession = Here /\ s \notin Here /\ s \notin Gone
        /\ Here' = Here \cup {s} /\ Gone' = Gone
        /\ mGameSession' = Here' /\ mGameSession' # NoGame
        /\ {r \in Player : Entered(r)}' = {r \in Player : Entered(r)} \cup {s}
        /\ mAcceptedCount' = mAcceptedCount + 1 /\ UNCHANGED <<mRemovedCount, exitCode>>
    BY <1>2, LoginEnters
  <2>2. Running BY DEF LoginView
  <2>3. Phase = "active" /\ Phase' = "active" BY <2>1, <2>2 DEF Phase, Running
  <2>4. Life!Enter(s) BY <2>1, <2>3 DEF Life!Enter, Here, Gone, Phase
  <2>5. Life!Next BY <2>4 DEF Life!Next
  <2> DEFINE S == {r \in Player : Entered(r)}
  <2>6. IsFiniteSet(S)
    <3>1. S \in SUBSET Player OBVIOUS
    <3> QED BY <3>1, FS_Subset
  <2>7. s \notin S BY <1>2 DEF Entered
  <2>8. mAcceptedCount = Cardinality(S) BY DEF Counts
  <2>9. S' = S \cup {s} BY <2>1
  <2> HIDE DEF S
  <2>10. Cardinality(S \cup {s}) = Cardinality(S) + 1 BY <2>6, <2>7, FS_AddElement
  <2>11. mAcceptedCount' = Cardinality(S') BY <2>1, <2>8, <2>9, <2>10
  <2>12. Counts' BY <2>1, <2>2, <2>11 DEF Counts, S, Running
  <2> QED BY <2>5, <2>12
<1> QED BY <1>1, <1>2

(* A player is removed, or was not there.                                  *)
LEMMA LifeLeaves ==
  ASSUME Base, Roster, Counts, IsFiniteSet(Player),
         Cardinality(Player) <= MAX_PLAYER_PER_GAME,
         NEW t \in Worker, NEW s \in Player, RemoveView(t, s)
  PROVE  Counts' /\ (Life!Next \/ UNCHANGED LifeVars)
<1> USE GameServerAssumption
<1>0. Running BY DEF RemoveView
<1> DEFINE Known == {r \in Player : Entered(r)}
<1>1. /\ IsFiniteSet(Known) /\ IsFiniteSet(Here) /\ IsFiniteSet(Gone)
      /\ Cardinality(Gone) \in Nat /\ Cardinality(Known) \in Nat
  <2>1. Known \in SUBSET Player /\ Here \in SUBSET Player /\ Gone \in SUBSET Player
    BY DEF Here, Gone
  <2>2. IsFiniteSet(Known) /\ IsFiniteSet(Here) /\ IsFiniteSet(Gone)
    BY <2>1, FS_Subset
  <2> QED BY <2>2, FS_CardinalityType
<1>2. /\ mAcceptedCount = Cardinality(Known) /\ mRemovedCount = Cardinality(Gone)
      /\ mRemovedCount < MAX_PLAYER_PER_GAME
  BY <1>0 DEF Counts
<1>3. CASE service[s] # "active"
  <2>1. ~ CheckTerminateGameSession(mAcceptedCount, mRemovedCount)
    BY <1>1, <1>2 DEF CheckTerminateGameSession
  <2>2. UNCHANGED <<service, mRemovedCount>> BY <1>3 DEF RemoveView
  <2>3. UNCHANGED <<service, mAcceptedCount, mRemovedCount, exitCode, mGameSession>>
    BY <1>3, <2>1, <2>2 DEF RemoveView
  <2> QED BY <2>3, LifeStutters
<1>4. CASE service[s] = "active"
  <2>1. /\ mGameSession # NoGame /\ mGameSession = Here /\ s \in Here /\ s \notin Gone
        /\ Here' = Here \ {s} /\ Gone' = Gone \cup {s}
        /\ {r \in Player : Entered(r)}' = {r \in Player : Entered(r)}
        /\ mRemovedCount' = mRemovedCount + 1 /\ mAcceptedCount' = mAcceptedCount
        /\ mActivated
        /\ \/ /\ CheckTerminateGameSession(mAcceptedCount, mRemovedCount')
              /\ mGameSession' = NoGame /\ ~ Running'
           \/ /\ ~ CheckTerminateGameSession(mAcceptedCount, mRemovedCount')
              /\ mGameSession' = Here' /\ mGameSession' # NoGame /\ Running'
    BY <1>4, RemoveLeaves
  <2>2. Known' = Known BY <2>1
  <2>3. IsFiniteSet(Gone') /\ Cardinality(Gone') = Cardinality(Gone) + 1
    BY <1>1, <2>1, FS_AddElement
  <2>4. Gone' \in SUBSET Known
    <3>1. Gone' \subseteq Known' BY DEF Gone, Entered
    <3> QED BY <3>1, <2>2
  <2> HIDE DEF Known
  <2>5. mRemovedCount' = Cardinality(Gone') BY <1>2, <2>1, <2>3
  <2>6. Cardinality(Gone') <= Cardinality(Known) BY <1>1, <2>4, FS_Subset
  <2>7. CheckTerminateGameSession(mAcceptedCount, mRemovedCount')
          <=> mRemovedCount' >= MAX_PLAYER_PER_GAME
    BY <1>1, <1>2, <2>1, <2>3, <2>5, <2>6 DEF CheckTerminateGameSession
  <2>8. mRemovedCount' >= MAX_PLAYER_PER_GAME => Here' = {}
    <3> SUFFICES ASSUME mRemovedCount' >= MAX_PLAYER_PER_GAME PROVE Here' = {}
      OBVIOUS
    <3>1. Gone' \in SUBSET Player BY DEF Gone
    <3>2. Cardinality(Gone') <= Cardinality(Player) BY <3>1, FS_Subset
    <3>3. Cardinality(Gone') \in Nat /\ Cardinality(Player) \in Nat
      BY <2>3, FS_CardinalityType
    <3>4. Cardinality(Player) = Cardinality(Gone') BY <2>5, <3>2, <3>3
    <3>5. Player = Gone' BY <3>1, <3>4, FS_Subset
    <3> QED BY <3>5 DEF Gone, Here
  <2>9. Phase = "active" BY <1>0, <2>1 DEF Phase
  <2>10. Phase' = IF Here' = {} /\ Cardinality(Gone') >= MAX_PLAYER_PER_GAME
                  THEN "ended" ELSE "active"
    BY <2>1, <2>5, <2>7, <2>8 DEF Phase
  <2>11. Life!Leave(s)
    <3>1. s \in {r \in Player : service[r] = "active"} BY <1>4
    <3>2. /\ {r \in Player : service'[r] = "active"} =
               {r \in Player : service[r] = "active"} \ {s}
          /\ {r \in Player : service'[r] = "completed"} =
               {r \in Player : service[r] = "completed"} \cup {s}
      BY <2>1 DEF Here, Gone
    <3>3. Phase' =
            IF {r \in Player : service'[r] = "active"} = {}
               /\ Cardinality({r \in Player : service'[r] = "completed"})
                    >= MAX_PLAYER_PER_GAME
            THEN "ended" ELSE "active"
      BY <2>10 DEF Here, Gone
    <3> QED BY <2>9, <3>1, <3>2, <3>3, LifeCounts DEF Life!Leave, Phase
  <2>12. Life!Next BY <2>11 DEF Life!Next
  <2>13. Counts'
    <3>1. mAcceptedCount' = Cardinality(Known') BY <1>2, <2>1, <2>2
    <3>2. Running' => mRemovedCount' < MAX_PLAYER_PER_GAME
      BY <1>1, <1>2, <2>1, <2>7
    <3> QED BY <2>5, <3>1, <3>2 DEF Counts, Known
  <2> QED BY <2>12, <2>13
<1> QED BY <1>3, <1>4

LEMMA LifeSdk ==
  ASSUME Base, Roster, Counts, SdkView
  PROVE  Counts' /\ (Life!Next \/ UNCHANGED LifeVars)
<1>1. CASE CreateView
  <2>1. mGameSession = NoGame /\ Running BY <1>1 DEF CreateView, Base, Begun
  <2>2. {} # NoGame BY GamesDiffer
  <2>3. Phase = "none" /\ Phase' = "active" BY <1>1, <2>1, <2>2 DEF Phase, CreateView, Running
  <2>4. UNCHANGED <<service, mAcceptedCount, mRemovedCount, exitCode>>
    BY <1>1 DEF CreateView, world
  <2>5. Counts' BY <2>4 DEF Counts, Running, Entered, Gone
  <2>6. Life!Activate BY <2>3, <2>4 DEF Life!Activate, Phase
  <2> QED BY <2>5, <2>6 DEF Life!Next
<1>2. CASE TerminateView
  <2>1. UNCHANGED <<service, mAcceptedCount, mRemovedCount>> /\ Running
    BY <1>2 DEF TerminateView, world
  <2>2. CASE TerminateGameSession("ordered")
    <3>1. ~ Running' BY <2>2 DEF TerminateGameSession, Running
    <3>2. Phase # "ended" /\ Phase' = "ended" BY <2>1, <3>1 DEF Phase
    <3>3. Counts' BY <2>1, <3>1 DEF Counts, Entered, Gone
    <3>4. Life!Shutdown BY <2>1, <3>2 DEF Life!Shutdown, Phase
    <3> QED BY <3>3, <3>4 DEF Life!Next
  <2>3. CASE UNCHANGED <<mGameSession, exitCode>> BY <2>1, <2>3, LifeStutters
  <2> QED BY <1>2, <2>2, <2>3 DEF TerminateView
<1>3. CASE CallStartView \/ CallTerminateView \/ StartGameView
  <2>1. UNCHANGED <<service, mAcceptedCount, mRemovedCount, exitCode, mGameSession>>
    BY <1>3 DEF CallStartView, CallTerminateView, StartGameView, manager, world
  <2> QED BY <2>1, LifeStutters
<1> QED BY <1>1, <1>2, <1>3 DEF SdkView

LEMMA LifeOutside ==
  ASSUME Base, Roster, Counts, Outsider
  PROVE  Counts' /\ UNCHANGED LifeVars
<1>1. /\ Here' = Here /\ Gone' = Gone
      /\ \A r \in Player : Entered(r)' <=> Entered(r)
  BY RosterOutside
<1>2. {r \in Player : Entered(r)}' = {r \in Player : Entered(r)} BY <1>1
<1>3. CASE InitializeGameLift
  <2>1. Running /\ ~ mActivated BY <1>3 DEF InitializeGameLift
  <2>2. Untouched BY <2>1 DEF Base, Begun
  <2>3. {r \in Player : Entered(r)} = {} /\ Gone = {}
    BY <2>2 DEF Untouched, Entered, Gone
  <2>4. Cardinality({r \in Player : Entered(r)}) = 0 /\ Cardinality(Gone) = 0
    BY <2>3, FS_EmptySet
  <2>5. /\ mAcceptedCount' = 0 /\ mRemovedCount' = 0
        /\ UNCHANGED <<service, mGameSession, exitCode>>
    BY <1>3 DEF InitializeGameLift, world
  <2>6. 0 < MAX_PLAYER_PER_GAME BY GameServerAssumption
  <2>7. Counts' BY <1>1, <1>2, <2>4, <2>5, <2>6 DEF Counts
  <2>8. UNCHANGED LifeVars BY <1>1, <2>5 DEF LifeVars, Phase, Running
  <2> QED BY <2>7, <2>8
<1>4. CASE UNCHANGED <<mAcceptedCount, mRemovedCount, exitCode, mGameSession>>
  <2>1. Counts' BY <1>1, <1>2, <1>4 DEF Counts, Running
  <2>2. UNCHANGED LifeVars BY <1>1, <1>4 DEF LifeVars, Phase, Running
  <2> QED BY <2>1, <2>2
<1> QED BY <1>3, <1>4
        DEF Outsider, OnConnect, KernelSend, ClientStep, Reserve, StartTest, PlayTest,
            EndTest, HangUp, manager

LEMMA LifeStep ==
  ASSUME Base, Roster, Counts, IsFiniteSet(Player),
         Cardinality(Player) <= MAX_PLAYER_PER_GAME, StepView
  PROVE  Counts' /\ (Life!Next \/ UNCHANGED LifeVars)
<1>1. ASSUME NEW t \in Worker, ThreadView(t)
      PROVE  Counts' /\ (Life!Next \/ UNCHANGED LifeVars)
  <2>1. Footprint(t) BY <1>1, Footprints
  <2> QED BY <2>1, LifeEnters, LifeLeaves, LifeStutters DEF Footprint
<1>2. CASE UNCHANGED vars
  <2>1. UNCHANGED <<service, mAcceptedCount, mRemovedCount, exitCode, mGameSession>>
    BY <1>2 DEF vars, manager, world
  <2> QED BY <2>1, LifeStutters
<1> QED BY <1>1, <1>2, LifeSdk, LifeOutside DEF StepView, OutsideView

(* With no more players than MAX_PLAYER_PER_GAME the manager implements    *)
(* GameSessionLife: whatever the order in which handlers, failed sends,    *)
(* closed connections and the service's callbacks get mLock, each player   *)
(* enters and leaves once, and the two counters end the game session       *)
(* exactly when the last of a full house leaves.                           *)
THEOREM ImplementsLife ==
  ASSUME IsFiniteSet(Player), Cardinality(Player) <= MAX_PLAYER_PER_GAME
  PROVE  Spec => LivesAsPromised
<1>1. Init => Life!Init
  BY DEF Init, Life!Init, Running
<1>2. Init => Roster /\ Counts
  <2> SUFFICES ASSUME Init PROVE Counts BY InitRoster
  <2>1. {s \in Player : Entered(s)} = {} /\ Gone = {} BY DEF Init, Entered, Gone
  <2>2. Cardinality({s \in Player : Entered(s)}) = 0 /\ Cardinality(Gone) = 0
    BY <2>1, FS_EmptySet
  <2>3. 0 < MAX_PLAYER_PER_GAME BY GameServerAssumption
  <2>4. mAcceptedCount = 0 /\ mRemovedCount = 0 BY DEF Init
  <2> QED BY <2>2, <2>3, <2>4 DEF Counts
<1>3. Base /\ Roster /\ Counts /\ [Next]_vars => Roster' /\ Counts'
  BY StepViews, RosterStep, LifeStep
<1>4. Base /\ Roster /\ Counts /\ [Next]_vars =>
        [Life!Next]_<<IF ~ Running THEN "ended"
                      ELSE IF mGameSession = NoGame THEN "none" ELSE "active",
                      {s \in Player : service[s] = "active"},
                      {s \in Player : service[s] = "completed"}>>
  BY StepViews, LifeStep DEF LifeVars, Phase, Here, Gone
<1> QED BY <1>1, <1>2, <1>3, <1>4, InitBase, StepBase, PTL
        DEF Spec, LivesAsPromised, Life!Spec

-----------------------------------------------------------------------------
(* Calls that a step leaves alone.                                         *)

(* A thread has at most one call of each level.                            *)
LEMMA OneOfALevel ==
  ASSUME Stacks, NEW t \in Worker, NEW f \in Calls(t), NEW g \in Calls(t),
         Level(f) = Level(g)
  PROVE  f = g
<1>1. PICK n \in Nat : n = Len(stack[t]) BY DEF Stacks
<1>2. PICK i \in 1 .. n, j \in 1 .. n : f = stack[t][i] /\ g = stack[t][j]
  BY <1>1 DEF Calls, Frames
<1>3. \A k, l \in 1 .. n : k < l => Level(stack[t][k]) < Level(stack[t][l])
  BY <1>1 DEF Stacks, Nested
<1>4. Level(f) \in Nat BY LevelNat
<1>5. ~ (i < j) /\ ~ (j < i) BY <1>2, <1>3, <1>4
<1> QED BY <1>2, <1>5

LEMMA LoseTops ==
  ASSUME NEW t \in Worker, NEW f, Lose(t, f)
  PROVE  Tops(t, f)
<1>1. ASSUME NEW g, Calls(t) = {g} PROVE Tops(t, g) BY <1>1 DEF Tops
<1> QED BY <1>1
        DEF Lose, LoginView, SetIdView, RemoveView, ClearView, DisconnectView,
            OnDisconnectView, CloseView, FlushFailedView, ResultView, CompletionView,
            OnReadView, PreRecvView, PostView, PostLockView, BroadcastView, LoopView

(* A call that waits for another stays.                                    *)
LEMMA Deeper ==
  ASSUME NEW t \in Worker, Loses(t), NEW u \in Worker, NEW f \in Calls(u),
         NEW g \in Calls(u), Level(g) < Level(f)
  PROVE  f \in Calls(u)'
<1> SUFFICES ASSUME f \notin Calls(u)' PROVE FALSE OBVIOUS
<1>1. u = t /\ Tops(t, f) BY LoseTops DEF Loses
<1>2. g # f /\ Level(f) \in Nat /\ Level(g) \in Nat BY LevelNat
<1>3. Level(f) < Level(g) BY <1>1, <1>2 DEF Tops
<1> QED BY <1>2, <1>3

LEMMA Levels ==
  /\ \A at, s : Level(On(at, s)) = LevelOf(at)
  /\ \A at, s, m : Level(Packet(at, s, m)) = LevelOf(at)
  /\ \A m, d : Level(Loop(m, d)) = 7
  BY Ats DEF Level, LevelOf

(* A leaf that is called runs.                                             *)
LEMMA LeafRuns ==
  ASSUME NEW t, NEW f, NEW g, Tops(t, f), g \in Calls(t), g.at \in Leaf
  PROVE  f = g
  BY DEF Tops

-----------------------------------------------------------------------------
(* What is broadcast, and to whom packets are posted.                      *)

Chats == {m \in Msg : m.kind = "chat"}

Carried ==
  \A t \in Worker, m \in Msg :
    /\ \A s \in Player : Packet("BroadcastMessage", s, m) \in Calls(t) => m \in Chats /\ s = m.from
    /\ \A d \in SUBSET Player : Loop(m, d) \in Calls(t) => m \in Chats
    /\ \A s \in Player, at \in {"PostSend", "PostSendLock"} :
         Packet(at, s, m) \in Calls(t) => m \in Chats \/ m = Answer(s)

LEMMA CarriedThread ==
  ASSUME Types, Stacks, Requests, Carried, NEW t \in Worker, ThreadView(t)
  PROVE  Carried'
<1>0. Gains(t) BY GainsLemma
<1>1. ASSUME NEW u \in Worker, NEW m \in Msg, NEW s \in Player,
             Packet("BroadcastMessage", s, m) \in Calls(u)'
      PROVE  m \in Chats /\ s = m.from
  <2>1. CASE Packet("BroadcastMessage", s, m) \in Calls(u) BY <2>1 DEF Carried
  <2>2. CASE Packet("BroadcastMessage", s, m) \notin Calls(u)
    <3>1. MadePacket(t, "BroadcastMessage", s, m) BY <1>0, <1>1, <2>2, NewPacket
    <3>2. m = inbox[s][1] /\ m.kind = "chat" /\ inbox[s] # <<>>
      BY <3>1 DEF MadePacket, Handles
    <3>3. inbox[s][1].from = s
      <4>1. inbox[s] \in Seq(Msg) BY DEF Types
      <4>2. PICK n \in Nat : n = Len(inbox[s]) BY <4>1
      <4>3. 1 \in 1 .. Len(inbox[s]) BY <4>1, <4>2, <3>2, EmptySeq
      <4> QED BY <4>3 DEF Requests
    <3> QED BY <3>2, <3>3 DEF Chats
  <2> QED BY <2>1, <2>2
<1>2. ASSUME NEW u \in Worker, NEW m \in Msg, NEW d \in SUBSET Player,
             Loop(m, d) \in Calls(u)'
      PROVE  m \in Chats
  <2>1. CASE Loop(m, d) \in Calls(u) BY <2>1 DEF Carried
  <2>2. CASE Loop(m, d) \notin Calls(u)
    <3>1. PICK s \in Player : MadeLoop(t, s, m, d) BY <1>0, <1>2, <2>2, NewLoop
    <3>2. CASE BroadcastView(t, s, m)
      <4>1. Packet("BroadcastMessage", s, m) \in Calls(t) BY <3>2 DEF BroadcastView, Tops
      <4> QED BY <4>1 DEF Carried
    <3>3. CASE \E e \in SUBSET Player : LoopView(t, m, e)
      <4>1. PICK e \in SUBSET Player : Loop(m, e) \in Calls(t) BY <3>3 DEF LoopView, Tops
      <4> QED BY <4>1 DEF Carried
    <3> QED BY <3>1, <3>2, <3>3 DEF MadeLoop
  <2> QED BY <2>1, <2>2
<1>3. ASSUME NEW u \in Worker, NEW m \in Msg, NEW s \in Player,
             NEW at \in {"PostSend", "PostSendLock"}, Packet(at, s, m) \in Calls(u)'
      PROVE  m \in Chats \/ m = Answer(s)
  <2>1. CASE Packet(at, s, m) \in Calls(u) BY <2>1 DEF Carried
  <2>2. CASE Packet(at, s, m) \notin Calls(u)
    <3>1. MadePacket(t, at, s, m) BY <1>0, <1>3, <2>2, NewPacket
    <3>2. CASE at = "PostSendLock"
      <4>1. Packet("PostSend", s, m) \in Calls(t)
        BY <3>1, <3>2 DEF MadePacket, PostView, Tops
      <4> QED BY <4>1 DEF Carried
    <3>3. ASSUME NEW e \in SUBSET Player, LoopView(t, m, e) PROVE m \in Chats
      <4>1. Loop(m, e) \in Calls(t) BY <3>3 DEF LoopView, Tops
      <4> QED BY <4>1 DEF Carried
    <3> QED BY <3>1, <3>2, <3>3 DEF MadePacket
  <2> QED BY <2>1, <2>2
<1> QED BY <1>1, <1>2, <1>3 DEF Carried

LEMMA CarriedStep ==
  ASSUME Types, Stacks, Requests, Carried, StepView
  PROVE  Carried'
<1>1. CASE Still BY <1>1 DEF Still, Carried
<1> QED BY <1>1, CarriedThread DEF StepView, SdkView, OutsideView

-----------------------------------------------------------------------------
(* The chain of receives: at most one thread handles the requests of s,    *)
(* and it is there while the answer to a login is on its way.              *)
LoginCalls(s) ==
  {On("PlayerLogin", s), On("SetPlayerId", s), Packet("PostSend", s, Answer(s)),
   Packet("PostSendLock", s, Answer(s))}

Chain ==
  \A s \in Player :
    /\ client[s] = "out" => recv[s] = "off"
    /\ \A t \in Worker :
         /\ On("PreRecv", s) \in Calls(t) => recv[s] = "busy"
         /\ On("OnRead", s) \in Calls(t) => On("PreRecv", s) \in Calls(t)
         /\ LoginCalls(s) \cap Calls(t) # {} => On("OnRead", s) \in Calls(t)
    /\ \A t, u \in Worker :
         On("PreRecv", s) \in Calls(t) /\ On("PreRecv", s) \in Calls(u) => t = u

(* The first request of a receive, or the next one.                        *)
LEMMA HandlerReads ==
  ASSUME NEW t \in Worker, NEW s \in Player, RecvView(t, s) \/ OnReadView(t, s),
         NEW f, f \in Calls(t)', f \notin Calls(t), f # On("Disconnect", s)
  PROVE  /\ On("OnRead", s) \in Calls(t)' /\ inbox[s] # <<>>
         /\ RecvView(t, s) => On("PreRecv", s) \in Calls(t)' /\ recv' = Set(recv, s, "busy")
<1>1. CASE RecvView(t, s)
  <2>1. ~ Begins(t, {On("Disconnect", s)}) BY DEF Begins
  <2> QED BY <1>1, <2>1 DEF RecvView, Begins
<1>2. CASE OnReadView(t, s)
  <2>1. ~ Moves(t, On("OnRead", s), {}) BY DEF Moves
  <2> QED BY <1>2, <2>1 DEF OnReadView, Moves, RecvView, Begins, Tops
<1> QED BY <1>1, <1>2

LEMMA ChainReads ==
  ASSUME Types, Stacks, Chain, NEW t \in Worker, Gains(t), Loses(t), ThreadView(t),
         NEW s \in Player, NEW u \in Worker, On("PreRecv", s) \in Calls(u)'
  PROVE  recv'[s] = "busy"
<1>0. recv \in [Player -> {"off", "posted", "busy"}] BY DEF Types
<1>1. CASE On("PreRecv", s) \notin Calls(u)
  <2>1. u = t /\ MadeOn(t, "PreRecv", s) BY <1>1, NewOn
  <2>2. RecvView(t, s) BY <2>1 DEF MadeOn
  <2>3. On("PreRecv", s) # On("Disconnect", s) BY Apart
  <2>4. recv' = Set(recv, s, "busy") BY <1>1, <2>1, <2>2, <2>3, HandlerReads
  <2> QED BY <1>0, <2>4 DEF Set
<1>2. CASE On("PreRecv", s) \in Calls(u)
  <2>1. recv[s] = "busy" BY <1>2 DEF Chain
  <2>2. ASSUME NEW v \in Player, RecvView(t, v) PROVE recv'[s] = recv[s]
    <3>1. v # s BY <2>1, <2>2 DEF RecvView
    <3>2. recv' = Set(recv, v, "busy") \/ recv' = Set(recv, v, "off") BY <2>2 DEF RecvView
    <3> QED BY <3>1, <3>2, <1>0 DEF Set
  <2>3. ASSUME NEW v \in Player, PreRecvView(t, v) PROVE recv'[s] = recv[s]
    <3>1. Calls(t) = {On("PreRecv", v)} /\ On("PreRecv", v) \notin Calls(t)'
      BY <2>3, Apart DEF PreRecvView, Moves
    <3>2. v # s
      <4> SUFFICES ASSUME v = s PROVE FALSE OBVIOUS
      <4>1. u = t BY <1>2, <3>1 DEF Chain
      <4> QED BY <3>1, <4>1
    <3>3. recv' = Set(recv, v, "posted") \/ recv' = Set(recv, v, "off") BY <2>3 DEF PreRecvView
    <3> QED BY <3>2, <3>3, <1>0 DEF Set
  <2>4. Footprint(t) BY Footprints
  <2> QED BY <2>1, <2>2, <2>3, <2>4 DEF Footprint
<1> QED BY <1>1, <1>2

LEMMA ChainHandles ==
  ASSUME Types, Stacks, Carried, Chain, NEW t \in Worker, Gains(t), Loses(t), ThreadView(t),
         NEW s \in Player, NEW u \in Worker
  PROVE  /\ On("OnRead", s) \in Calls(u)' => On("PreRecv", s) \in Calls(u)'
         /\ LoginCalls(s) \cap Calls(u)' # {} => On("OnRead", s) \in Calls(u)'
<1>1. ASSUME On("OnRead", s) \in Calls(u)' PROVE On("PreRecv", s) \in Calls(u)'
  <2>1. CASE On("OnRead", s) \in Calls(u)
    <3>1. On("PreRecv", s) \in Calls(u) BY <2>1 DEF Chain
    <3>2. Level(On("OnRead", s)) < Level(On("PreRecv", s)) BY Levels DEF LevelOf
    <3> QED BY <2>1, <3>1, <3>2, Deeper
  <2>2. CASE On("OnRead", s) \notin Calls(u)
    <3>1. u = t /\ MadeOn(t, "OnRead", s) BY <1>1, <2>2, NewOn
    <3>2. RecvView(t, s) BY <3>1 DEF MadeOn
    <3>3. On("OnRead", s) # On("Disconnect", s) BY Apart
    <3> QED BY <1>1, <2>2, <3>1, <3>2, <3>3, HandlerReads
  <2> QED BY <2>1, <2>2
<1>2. ASSUME NEW f \in LoginCalls(s), f \in Calls(u) PROVE On("OnRead", s) \in Calls(u)'
  <2>1. On("OnRead", s) \in Calls(u) BY <1>2 DEF Chain
  <2>2. Level(f) < Level(On("OnRead", s)) BY Levels DEF LevelOf, LoginCalls
  <2> QED BY <1>2, <2>1, <2>2, Deeper
<1>3. ASSUME NEW f, f \in Calls(u)', u = t, NEW g \in LoginCalls(s), Tops(t, g)
      PROVE  On("OnRead", s) \in Calls(u)'
  BY <1>2, <1>3 DEF Tops
<1>4. ASSUME On("PlayerLogin", s) \in Calls(u)', On("PlayerLogin", s) \notin Calls(u)
      PROVE  On("OnRead", s) \in Calls(u)'
  <2>1. u = t /\ MadeOn(t, "PlayerLogin", s) BY <1>4, NewOn
  <2>2. RecvView(t, s) \/ OnReadView(t, s) BY <2>1 DEF MadeOn, Handles
  <2>3. On("PlayerLogin", s) # On("Disconnect", s) BY Apart
  <2> QED BY <1>4, <2>1, <2>2, <2>3, HandlerReads
<1>5. ASSUME On("SetPlayerId", s) \in Calls(u)', On("SetPlayerId", s) \notin Calls(u)
      PROVE  On("OnRead", s) \in Calls(u)'
  <2>1. u = t /\ MadeOn(t, "SetPlayerId", s) BY <1>5, NewOn
  <2>2. Tops(t, On("PlayerLogin", s)) BY <2>1 DEF MadeOn, LoginView
  <2> QED BY <1>3, <1>5, <2>1, <2>2 DEF LoginCalls
<1>6. Answer(s) \in Msg /\ Answer(s) \notin Chats
  <2>1. 0 \in Nat OBVIOUS
  <2> QED BY <2>1 DEF Answer, Message, Msg, Chats
<1>7. ASSUME Packet("PostSend", s, Answer(s)) \in Calls(u)',
             Packet("PostSend", s, Answer(s)) \notin Calls(u)
      PROVE  On("OnRead", s) \in Calls(u)'
  <2>1. u = t /\ MadePacket(t, "PostSend", s, Answer(s)) BY <1>7, NewPacket
  <2>2. ASSUME NEW d \in SUBSET Player, LoopView(t, Answer(s), d) PROVE FALSE
    <3>1. Loop(Answer(s), d) \in Calls(t) BY <2>2 DEF LoopView, Tops
    <3> QED BY <3>1, <1>6 DEF Carried
  <2>3. SetIdView(t, s) BY <2>1, <2>2 DEF MadePacket
  <2>4. Tops(t, On("SetPlayerId", s)) BY <2>3 DEF SetIdView
  <2> QED BY <1>3, <1>7, <2>1, <2>4 DEF LoginCalls
<1>8. ASSUME Packet("PostSendLock", s, Answer(s)) \in Calls(u)',
             Packet("PostSendLock", s, Answer(s)) \notin Calls(u)
      PROVE  On("OnRead", s) \in Calls(u)'
  <2>1. u = t /\ MadePacket(t, "PostSendLock", s, Answer(s)) BY <1>8, NewPacket
  <2>2. Tops(t, Packet("PostSend", s, Answer(s))) BY <2>1 DEF MadePacket, PostView
  <2> QED BY <1>3, <1>8, <2>1, <2>2 DEF LoginCalls
<1>9. ASSUME NEW f \in LoginCalls(s), f \in Calls(u)' PROVE On("OnRead", s) \in Calls(u)'
  <2>1. f \in {On("PlayerLogin", s), On("SetPlayerId", s), Packet("PostSend", s, Answer(s)),
               Packet("PostSendLock", s, Answer(s))}
    BY DEF LoginCalls
  <2> QED BY <1>2, <1>4, <1>5, <1>7, <1>8, <1>9, <2>1
<1> QED BY <1>1, <1>9

LEMMA ChainFresh ==
  ASSUME Types, Chain, NEW t \in Worker, ThreadView(t), NEW s \in Player, client'[s] = "out"
  PROVE  recv'[s] = "off"
<1>0. recv \in [Player -> {"off", "posted", "busy"}] BY DEF Types
<1>1. Footprint(t) BY Footprints
<1>2. client[s] = "out" /\ recv[s] = "off" BY <1>1 DEF Footprint, Chain
<1>3. ASSUME NEW v \in Player, RecvView(t, v) PROVE recv'[s] = recv[s]
  <2>1. v # s BY <1>2, <1>3 DEF RecvView
  <2>2. recv' = Set(recv, v, "busy") \/ recv' = Set(recv, v, "off") BY <1>3 DEF RecvView
  <2> QED BY <2>1, <2>2, <1>0 DEF Set
<1>4. ASSUME NEW v \in Player, PreRecvView(t, v) PROVE recv'[s] = recv[s]
  <2>1. On("PreRecv", v) \in Calls(t) BY <1>4 DEF PreRecvView
  <2>2. v # s BY <1>2, <2>1 DEF Chain
  <2>3. recv' = Set(recv, v, "posted") \/ recv' = Set(recv, v, "off") BY <1>4 DEF PreRecvView
  <2> QED BY <2>2, <2>3, <1>0 DEF Set
<1> QED BY <1>1, <1>2, <1>3, <1>4 DEF Footprint

LEMMA ChainThread ==
  ASSUME Types, Stacks, Requests, Carried, Chain, NEW t \in Worker, ThreadView(t)
  PROVE  Chain'
<1>1. Gains(t) BY GainsLemma
<1>2. Loses(t) BY LosesLemma
<1>3. ASSUME NEW s \in Player, NEW u \in Worker, NEW v \in Worker,
             On("PreRecv", s) \in Calls(u)', On("PreRecv", s) \in Calls(v)'
      PROVE  u = v
  <2>1. ASSUME NEW w \in Worker, On("PreRecv", s) \in Calls(w)', On("PreRecv", s) \notin Calls(w)
        PROVE  w = t /\ \A x \in Worker : On("PreRecv", s) \notin Calls(x)
    <3>1. w = t /\ MadeOn(t, "PreRecv", s) BY <1>1, <2>1, NewOn
    <3>2. recv[s] = "posted" BY <3>1 DEF MadeOn, RecvView
    <3> QED BY <3>1, <3>2 DEF Chain
  <2> QED BY <1>3, <2>1 DEF Chain
<1>4. \A s \in Player, u \in Worker :
        /\ On("PreRecv", s) \in Calls(u)' => recv'[s] = "busy"
        /\ On("OnRead", s) \in Calls(u)' => On("PreRecv", s) \in Calls(u)'
        /\ LoginCalls(s) \cap Calls(u)' # {} => On("OnRead", s) \in Calls(u)'
  BY <1>1, <1>2, ChainReads, ChainHandles
<1>5. \A s \in Player : client'[s] = "out" => recv'[s] = "off" BY ChainFresh
<1> QED BY <1>3, <1>4, <1>5 DEF Chain, LoginCalls

LEMMA ChainStep ==
  ASSUME Types, Stacks, Requests, Carried, Chain, StepView
  PROVE  Chain'
<1>0. recv \in [Player -> {"off", "posted", "busy"}] BY DEF Types
<1>c. client \in [Player -> {"out", "connected", "asked", "hung up", "left"}] BY DEF Types
<1>1. ASSUME Still, recv' = recv, \A s \in Player : client'[s] = "out" => client[s] = "out"
      PROVE  Chain'
  BY <1>1 DEF Still, Chain, LoginCalls
<1>2. ASSUME Still, NEW v \in Player, OnConnect(v) PROVE Chain'
  <2>1. recv' = Set(recv, v, "posted") /\ client[v] = "out" /\ client' = Set(client, v, "connected")
    BY <1>2 DEF OnConnect
  <2>2. recv[v] = "off" BY <2>1 DEF Chain
  <2>3. ASSUME NEW s \in Player, NEW t \in Worker, On("PreRecv", s) \in Calls(t)
        PROVE  recv'[s] = "busy"
    <3>1. recv[s] = "busy" /\ s # v BY <2>2, <2>3 DEF Chain
    <3> QED BY <2>1, <1>0, <3>1 DEF Set
  <2>4. ASSUME NEW s \in Player, client'[s] = "out" PROVE recv'[s] = "off"
    <3>1. s # v /\ client[s] = "out" BY <2>1, <2>4, <1>c DEF Set
    <3> QED BY <2>1, <3>1, <1>0 DEF Set, Chain
  <2> QED BY <1>2, <2>3, <2>4 DEF Still, Chain, LoginCalls
<1>3. ASSUME Outsider, \A v \in Player : ~ OnConnect(v)
      PROVE  recv' = recv /\ \A s \in Player : client'[s] = "out" => client[s] = "out"
  <2>1. \/ client' = client
        \/ \E v \in Player : \E x \in {"asked", "left", "hung up"} : client' = Set(client, v, x)
    BY <1>3 DEF Outsider, InitializeGameLift, KernelSend, ClientStep, Reserve, StartTest,
                PlayTest, EndTest, HangUp, world
  <2>2. recv' = recv
    BY <1>3 DEF Outsider, InitializeGameLift, KernelSend, ClientStep, Reserve, StartTest,
                PlayTest, EndTest, HangUp, sessions
  <2> QED BY <2>1, <2>2, <1>c DEF Set
<1>4. SdkView \/ UNCHANGED vars => UNCHANGED <<recv, client>>
  BY DEF SdkView, CallStartView, CallTerminateView, StartGameView, CreateView,
         TerminateView, vars, sessions, world
<1> QED BY <1>1, <1>2, <1>3, <1>4, ChainThread DEF StepView, SdkView, OutsideView

-----------------------------------------------------------------------------
(* Players that have not entered, to whom nothing was ever sent.           *)

LEMMA EnteredStays ==
  ASSUME Base, Roster, StepView, NEW s \in Player, Entered(s)
  PROVE  Entered(s)'
<1>0. service \in [Player -> Phases] BY DEF Base, Types
<1>1. CASE service' = service BY <1>1 DEF Entered
<1>2. ASSUME NEW t \in Worker, ThreadView(t) PROVE Entered(s)'
  <2>1. ASSUME NEW v \in Player, LoginView(t, v) PROVE Entered(s)'
    <3>1. service' = service \/ service' = Set(service, v, "active") BY <2>1 DEF LoginView
    <3> QED BY <1>0, <1>1, <3>1 DEF Set, Entered
  <2>2. ASSUME NEW v \in Player, RemoveView(t, v) PROVE Entered(s)'
    <3>1. service' = service \/ service' = Set(service, v, "completed") BY <2>2 DEF RemoveView
    <3> QED BY <1>0, <1>1, <3>1 DEF Set, Entered
  <2> QED BY <1>1, <1>2, <2>1, <2>2, Footprints DEF Footprint
<1>3. SdkView \/ UNCHANGED vars => service' = service
  BY DEF SdkView, CallStartView, CallTerminateView, StartGameView, CreateView,
         TerminateView, vars, world
<1> QED BY <1>1, <1>2, <1>3, RosterOutside DEF StepView, OutsideView

(* The calls that send something to s.                                     *)
Quiet(s) ==
  /\ send[s] = "none" /\ outbox[s] = <<>> /\ got[s] = <<>>
  /\ \A t \in Worker :
       /\ On("SetPlayerId", s) \notin Calls(t) /\ On("SendCompletion", s) \notin Calls(t)
       /\ \A m \in Msg :
            /\ Packet("PostSend", s, m) \notin Calls(t)
            /\ Packet("PostSendLock", s, m) \notin Calls(t)
            /\ \A d \in SUBSET Player : Loop(m, d) \in Calls(t) => s \notin d
Unsent == \A s \in Player : ~ Entered(s) => Quiet(s)

(* A broadcast posts to a player that is still to be served.               *)
LEMMA LoopPosts ==
  ASSUME NEW t \in Worker, NEW s \in Player, NEW m \in Msg, NEW d \in SUBSET Player,
         LoopView(t, m, d), Packet("PostSend", s, m) \in Calls(t)',
         Packet("PostSend", s, m) \notin Calls(t)
  PROVE  /\ s \in d /\ Loop(m, d) \in Calls(t) /\ Loop(m, d \ {s}) \in Calls(t)'
         /\ On("BroadcastResult", s) \in Calls(t)'
<1>1. ~ Moves(t, Loop(m, d), {}) BY DEF Moves
<1>2. PICK v \in d : Moves(t, Loop(m, d), {Packet("PostSend", v, m), On("BroadcastResult", v),
                                           Loop(m, d \ {v})})
  BY <1>1 DEF LoopView
<1>3. Packet("PostSend", s, m) \in {Packet("PostSend", v, m), On("BroadcastResult", v),
                                    Loop(m, d \ {v})}
  BY <1>2 DEF Moves
<1>4. s = v BY <1>3, Apart
<1> QED BY <1>2, <1>4 DEF Moves, LoopView, Tops

LEMMA UnsentThread ==
  ASSUME Base, Roster, Unsent, NEW t \in Worker, ThreadView(t), NEW s \in Player, ~ Entered(s)'
  PROVE  Quiet(s)'
<1> USE DEF Base
<1>0. Gains(t) /\ Footprint(t) BY GainsLemma, Footprints
<1>1. ~ Entered(s) BY EnteredStays DEF StepView
<1>2. Quiet(s) BY <1>1 DEF Unsent
<1>3. /\ send \in [Player -> {"none", "flying", "done", "failed", "handled"}]
      /\ outbox \in [Player -> Seq(Msg)] /\ service \in [Player -> Phases]
  BY DEF Types
<1>4. ASSUME NEW v \in Player, NEW m \in Msg, PostLockView(t, v, m)
      PROVE  send'[s] = send[s] /\ outbox'[s] = outbox[s]
  <2>1. v # s BY <1>2, <1>4 DEF PostLockView, Tops, Quiet
  <2>2. /\ outbox' = outbox \/ outbox' = Set(outbox, v, Append(outbox[v], m))
        /\ send' = send \/ send' = Set(send, v, "flying") \/ send' = Set(send, v, "none")
    BY <1>4 DEF PostLockView, SendFlies, SendBreaks
  <2> QED BY <2>1, <2>2, <1>3 DEF Set
<1>5. ASSUME NEW v \in Player, CompletionView(t, v)
      PROVE  send'[s] = send[s] /\ outbox'[s] = outbox[s]
  <2>1. v # s BY <1>2, <1>5 DEF CompletionView, Quiet
  <2>2. /\ \E q : outbox' = Set(outbox, v, q)
        /\ send' = send \/ send' = Set(send, v, "flying") \/ send' = Set(send, v, "none")
    BY <1>5 DEF CompletionView, SendFlies, SendBreaks
  <2> QED BY <2>1, <2>2, <1>3 DEF Set
<1>6. ASSUME NEW v \in Player, SendDoneView(t, v) PROVE send'[s] = send[s]
  <2>1. v # s BY <1>2, <1>6 DEF SendDoneView, Quiet
  <2> QED BY <2>1, <1>3, <1>6 DEF Set, SendDoneView
<1>7. send'[s] = "none" /\ outbox'[s] = <<>> /\ got'[s] = <<>>
  BY <1>0, <1>2, <1>4, <1>5, <1>6 DEF Footprint, Quiet
<1>8. ASSUME NEW u \in Worker, On("SetPlayerId", s) \in Calls(u)' PROVE FALSE
  <2>1. On("SetPlayerId", s) \notin Calls(u) BY <1>2 DEF Quiet
  <2>2. u = t /\ LoginView(t, s) BY <1>0, <1>8, <2>1, NewOn DEF MadeOn
  <2>3. service' # Set(service, s, "active")
    <3>1. Set(service, s, "active")[s] = "active" BY <1>3 DEF Set
    <3> QED BY <3>1, <1>1 DEF Entered
  <2>4. Moves(t, On("PlayerLogin", s), {On("Disconnect", s)}) BY <2>2, <2>3 DEF LoginView
  <2>5. On("SetPlayerId", s) # On("Disconnect", s) BY Apart
  <2> QED BY <1>8, <2>1, <2>2, <2>4, <2>5 DEF Moves
<1>9. ASSUME NEW u \in Worker, On("SendCompletion", s) \in Calls(u)' PROVE FALSE
  <2>1. On("SendCompletion", s) \notin Calls(u) BY <1>2 DEF Quiet
  <2>2. SendDoneView(t, s) BY <1>0, <1>9, <2>1, NewOn DEF MadeOn
  <2> QED BY <2>2, <1>2 DEF SendDoneView, Quiet
<1>10. ASSUME NEW u \in Worker, NEW m \in Msg, Packet("PostSend", s, m) \in Calls(u)' PROVE FALSE
  <2>1. Packet("PostSend", s, m) \notin Calls(u) BY <1>2 DEF Quiet
  <2>2. u = t /\ MadePacket(t, "PostSend", s, m) BY <1>0, <1>10, <2>1, NewPacket
  <2>3. ~ SetIdView(t, s) BY <1>2 DEF SetIdView, Tops, Quiet
  <2>4. PICK d \in SUBSET Player : LoopView(t, m, d) BY <2>2, <2>3 DEF MadePacket
  <2>5. s \in d /\ Loop(m, d) \in Calls(t) BY <1>10, <2>1, <2>2, <2>4, LoopPosts
  <2> QED BY <2>5, <1>2 DEF Quiet
<1>11. ASSUME NEW u \in Worker, NEW m \in Msg, Packet("PostSendLock", s, m) \in Calls(u)' PROVE FALSE
  <2>1. Packet("PostSendLock", s, m) \notin Calls(u) BY <1>2 DEF Quiet
  <2>2. PostView(t, s, m) BY <1>0, <1>11, <2>1, NewPacket DEF MadePacket
  <2> QED BY <2>2, <1>2 DEF PostView, Tops, Quiet
<1>12. ASSUME NEW u \in Worker, NEW m \in Msg, NEW d \in SUBSET Player,
              Loop(m, d) \in Calls(u)'
       PROVE  s \notin d
  <2>1. CASE Loop(m, d) \in Calls(u) BY <2>1, <1>2 DEF Quiet
  <2>2. CASE Loop(m, d) \notin Calls(u)
    <3>1. PICK v \in Player : MadeLoop(t, v, m, d) BY <1>0, <1>12, <2>2, NewLoop
    <3>2. CASE BroadcastView(t, v, m) /\ d = mGameSession
      <4>1. d # NoGame BY GamesDiffer
      <4>2. d = Here BY <3>2, <4>1 DEF Roster
      <4> QED BY <4>2, <1>1 DEF Here, Entered
    <3>3. CASE \E e \in SUBSET Player : LoopView(t, m, e) /\ d = e \ {v}
      <4>1. PICK e \in SUBSET Player : Loop(m, e) \in Calls(t) /\ d = e \ {v}
        BY <3>3 DEF LoopView, Tops
      <4> QED BY <4>1, <1>2 DEF Quiet
    <3> QED BY <3>1, <3>2, <3>3 DEF MadeLoop
  <2> QED BY <2>1, <2>2
<1> QED BY <1>7, <1>8, <1>9, <1>10, <1>11, <1>12 DEF Quiet

LEMMA UnsentStep ==
  ASSUME Base, Roster, Unsent, StepView
  PROVE  Unsent'
<1>1. ASSUME Still, NEW s \in Player, ~ Entered(s)', send'[s] = send[s], outbox' = outbox,
             got'[s] = got[s]
      PROVE  Quiet(s)'
  <2>1. Quiet(s) BY <1>1, EnteredStays DEF Unsent
  <2> QED BY <1>1, <2>1 DEF Still, Quiet
<1>2. ASSUME Outsider, NEW s \in Player, ~ Entered(s)'
      PROVE  send'[s] = send[s] /\ outbox' = outbox /\ got'[s] = got[s]
  <2>1. Quiet(s) BY <1>2, RosterOutside DEF Unsent
  <2>2. ASSUME NEW v \in Player, KernelSend(v) PROVE send'[s] = send[s] /\ got'[s] = got[s]
    <3>1. v # s BY <2>1, <2>2 DEF KernelSend, Quiet
    <3>2. /\ \E x : send' = Set(send, v, x)
          /\ got' = got \/ \E x : got' = Set(got, v, x)
      BY <2>2 DEF KernelSend
    <3> QED BY <3>1, <3>2 DEF Set, Base, Types
  <2>3. outbox' = outbox
    BY <1>2 DEF Outsider, InitializeGameLift, OnConnect, KernelSend, ClientStep, Reserve,
                StartTest, PlayTest, EndTest, HangUp, sessions
  <2>4. UNCHANGED <<send, got>> \/ \E v \in Player : KernelSend(v)
    BY <1>2 DEF Outsider, InitializeGameLift, OnConnect, ClientStep, Reserve,
                StartTest, PlayTest, EndTest, HangUp, sessions, world
  <2> QED BY <2>2, <2>3, <2>4
<1>3. SdkView \/ UNCHANGED vars => UNCHANGED <<send, outbox, got>>
  BY DEF SdkView, CallStartView, CallTerminateView, StartGameView, CreateView,
         TerminateView, vars, sessions, world
<1> QED BY <1>1, <1>2, <1>3, UnsentThread DEF Unsent, StepView, SdkView, OutsideView

-----------------------------------------------------------------------------
(* A completed send is handled by one thread.                              *)
Sends ==
  \A s \in Player, t \in Worker : On("SendCompletion", s) \in Calls(t) =>
    /\ send[s] = "handled"
    /\ \A u \in Worker : On("SendCompletion", s) \in Calls(u) => t = u

LEMMA SendsThread ==
  ASSUME Types, Requests, Sends, NEW t \in Worker, ThreadView(t)
  PROVE  Sends'
<1>0. Gains(t) /\ Loses(t) /\ Footprint(t) BY GainsLemma, LosesLemma, Footprints
<1>1. send \in [Player -> {"none", "flying", "done", "failed", "handled"}] BY DEF Types
<1>2. ASSUME NEW s \in Player, NEW u \in Worker, On("SendCompletion", s) \in Calls(u)',
             On("SendCompletion", s) \notin Calls(u)
      PROVE  u = t /\ SendDoneView(t, s) /\ \A v \in Worker : On("SendCompletion", s) \notin Calls(v)
  <2>1. u = t /\ SendDoneView(t, s) BY <1>0, <1>2, NewOn DEF MadeOn
  <2>2. send[s] # "handled" BY <2>1 DEF SendDoneView
  <2> QED BY <2>1, <2>2 DEF Sends
<1>3. ASSUME NEW s \in Player, NEW u \in Worker, On("SendCompletion", s) \in Calls(u),
             On("SendCompletion", s) \in Calls(u)'
      PROVE  send'[s] = "handled"
  <2>1. send[s] = "handled" BY <1>3 DEF Sends
  <2>2. ASSUME NEW v \in Player, NEW m \in Msg, PostLockView(t, v, m) PROVE send'[s] = send[s]
    <3>1. \/ send' = send
          \/ send[v] = "none" /\ (send' = Set(send, v, "flying") \/ send' = Set(send, v, "none"))
      BY <2>2 DEF PostLockView, SendFlies, SendBreaks
    <3> QED BY <2>1, <3>1, <1>1 DEF Set
  <2>3. ASSUME NEW v \in Player, CompletionView(t, v) PROVE send'[s] = send[s]
    <3>1. Calls(t) = {On("SendCompletion", v)} /\ On("SendCompletion", v) \notin Calls(t)'
      BY <2>3, Apart DEF CompletionView, SendFlies, SendBreaks, Moves
    <3>2. v # s
      <4> SUFFICES ASSUME v = s PROVE FALSE OBVIOUS
      <4>1. u = t BY <1>3, <3>1 DEF Sends
      <4> QED BY <1>3, <3>1, <4>1
    <3>3. send' = Set(send, v, "flying") \/ send' = Set(send, v, "none")
      BY <2>3 DEF CompletionView, SendFlies, SendBreaks
    <3> QED BY <3>2, <3>3, <1>1 DEF Set
  <2>4. ASSUME NEW v \in Player, SendDoneView(t, v) PROVE send'[s] = send[s]
    <3>1. v # s BY <2>1, <2>4 DEF SendDoneView
    <3> QED BY <3>1, <2>4, <1>1 DEF Set, SendDoneView
  <2> QED BY <1>0, <2>1, <2>2, <2>3, <2>4 DEF Footprint
<1>4. ASSUME NEW s \in Player, SendDoneView(t, s) PROVE send'[s] = "handled"
  BY <1>1, <1>4 DEF SendDoneView, Set
<1> QED BY <1>2, <1>3, <1>4 DEF Sends

LEMMA SendsStep ==
  ASSUME Types, Requests, Sends, StepView
  PROVE  Sends'
<1>0. send \in [Player -> {"none", "flying", "done", "failed", "handled"}] BY DEF Types
<1>1. CASE Still /\ send' = send BY <1>1 DEF Still, Sends
<1>2. ASSUME Still, NEW v \in Player, KernelSend(v) PROVE Sends'
  <2>1. send[v] = "flying" /\ \E x : send' = Set(send, v, x) BY <1>2 DEF KernelSend
  <2>2. \A s \in Player : send[s] = "handled" => send'[s] = "handled" BY <2>1, <1>0 DEF Set
  <2> QED BY <1>2, <2>2 DEF Still, Sends
<1>3. OutsideView => send' = send \/ \E v \in Player : KernelSend(v)
  BY DEF OutsideView, Outsider, InitializeGameLift, OnConnect, ClientStep, Reserve,
         StartTest, PlayTest, EndTest, HangUp, sessions
<1>4. SdkView \/ UNCHANGED vars => send' = send
  BY DEF SdkView, CallStartView, CallTerminateView, StartGameView, CreateView,
         TerminateView, vars, sessions
<1> QED BY <1>1, <1>2, <1>3, <1>4, SendsThread DEF StepView, SdkView, OutsideView

-----------------------------------------------------------------------------
(* What was posted to a player, and in which order.                        *)

Precedes(q, x, y) == \E i, j \in 1 .. Len(q) : i < j /\ q[i] = x /\ q[j] = y

LEMMA JoinIs ==
  ASSUME NEW p \in Seq(Msg), NEW q \in Seq(Msg)
  PROVE  /\ p \o q \in Seq(Msg) /\ Len(p \o q) = Len(p) + Len(q)
         /\ Len(p) \in Nat /\ Len(q) \in Nat
         /\ \A i \in 1 .. Len(p) : (p \o q)[i] = p[i] /\ i \in 1 .. (Len(p) + Len(q))
         /\ \A i \in 1 .. Len(q) : /\ (p \o q)[Len(p) + i] = q[i]
                                   /\ Len(p) + i \in 1 .. (Len(p) + Len(q))
         /\ \A i \in 1 .. (Len(p) + Len(q)) :
              i \in 1 .. Len(p) \/ \E j \in 1 .. Len(q) : i = Len(p) + j
<1>1. PICK m \in Nat, n \in Nat : m = Len(p) /\ n = Len(q) OBVIOUS
<1>2. /\ p \o q \in Seq(Msg) /\ Len(p \o q) = m + n
      /\ \A i \in 1 .. m : (p \o q)[i] = p[i]
      /\ \A i \in 1 .. n : (p \o q)[m + i] = q[i]
  BY <1>1
<1>3. /\ \A i \in 1 .. m : i \in 1 .. (m + n)
      /\ \A i \in 1 .. n : m + i \in 1 .. (m + n)
  OBVIOUS
<1>4. ASSUME NEW i \in 1 .. (m + n), i \notin 1 .. m
      PROVE  \E j \in 1 .. n : i = m + j
  <2>1. i - m \in 1 .. n /\ i = m + (i - m) BY <1>4
  <2> QED BY <2>1
<1> QED BY <1>1, <1>2, <1>3, <1>4

LEMMA SubSeqIs ==
  ASSUME NEW q \in Seq(Msg), NEW k \in Nat, k <= Len(q)
  PROVE  LET r == SubSeq(q, k + 1, Len(q))
         IN  /\ r \in Seq(Msg) /\ Len(r) = Len(q) - k
             /\ \A i \in 1 .. Len(r) : r[i] = q[k + i] /\ k + i \in 1 .. Len(q)
<1>1. PICK n \in Nat : n = Len(q) OBVIOUS
<1>2. /\ SubSeq(q, k + 1, n) \in Seq(Msg) /\ Len(SubSeq(q, k + 1, n)) = n - k
      /\ \A i \in 1 .. (n - k) : SubSeq(q, k + 1, n)[i] = q[k + i]
  <2>1. \A i \in (k + 1) .. n : q[i] \in Msg BY <1>1
  <2>2. Len(SubSeq(q, k + 1, n)) = n - k BY <1>1
  <2>3. \A i \in 1 .. (n - k) : SubSeq(q, k + 1, n)[i] = q[k + 1 + i - 1] BY <1>1
  <2>4. \A i \in 1 .. (n - k) : k + 1 + i - 1 = k + i OBVIOUS
  <2>5. SubSeq(q, k + 1, n) \in Seq(Msg) BY <1>1
  <2> QED BY <2>2, <2>3, <2>4, <2>5
<1>3. \A i \in 1 .. (n - k) : k + i \in 1 .. n OBVIOUS
<1> QED BY <1>1, <1>2, <1>3

LEMMA PrefixIs ==
  ASSUME NEW q \in Seq(Msg), NEW k \in Nat, k <= Len(q)
  PROVE  LET r == SubSeq(q, 1, k)
         IN  /\ r \in Seq(Msg) /\ Len(r) = k
             /\ \A i \in 1 .. k : r[i] = q[i] /\ i \in 1 .. Len(q)
<1>1. PICK n \in Nat : n = Len(q) OBVIOUS
<1>2. /\ SubSeq(q, 1, k) \in Seq(Msg) /\ Len(SubSeq(q, 1, k)) = k
      /\ \A i \in 1 .. k : SubSeq(q, 1, k)[i] = q[i]
  BY <1>1
<1>3. \A i \in 1 .. k : i \in 1 .. n BY <1>1
<1> QED BY <1>1, <1>2, <1>3

(* A buffer cut in two.                                                    *)
LEMMA CutIs ==
  ASSUME NEW q \in Seq(Msg), NEW k \in Nat, k <= Len(q)
  PROVE  SubSeq(q, 1, k) \o SubSeq(q, k + 1, Len(q)) = q
<1>1. PICK a \in Seq(Msg) : /\ a = SubSeq(q, 1, k) /\ Len(a) = k
                            /\ \A i \in 1 .. k : a[i] = q[i]
  BY PrefixIs
<1>2. PICK b \in Seq(Msg) : /\ b = SubSeq(q, k + 1, Len(q)) /\ Len(b) = Len(q) - k
                            /\ \A i \in 1 .. Len(b) : b[i] = q[k + i]
  BY SubSeqIs
<1>3. PICK n \in Nat : n = Len(q) OBVIOUS
<1>4. Len(a) = k /\ Len(b) = n - k /\ n - k \in Nat /\ k + (n - k) = n BY <1>1, <1>2, <1>3
<1>5. PICK c : c = a \o b OBVIOUS
<1>6. /\ c \in Seq(Msg) /\ Len(c) = Len(a) + Len(b)
      /\ \A i \in 1 .. Len(a) : c[i] = a[i]
      /\ \A i \in 1 .. Len(b) : c[Len(a) + i] = b[i]
      /\ \A i \in 1 .. (Len(a) + Len(b)) :
           i \in 1 .. Len(a) \/ \E j \in 1 .. Len(b) : i = Len(a) + j
  BY <1>5, JoinIs
<1>7. /\ Len(c) = n
      /\ \A i \in 1 .. k : c[i] = a[i]
      /\ \A i \in 1 .. (n - k) : c[k + i] = b[i]
      /\ \A i \in 1 .. n : i \in 1 .. k \/ \E j \in 1 .. (n - k) : i = k + j
  BY <1>4, <1>6
<1>8. (\A i \in 1 .. k : a[i] = q[i]) /\ \A i \in 1 .. (n - k) : b[i] = q[k + i]
  BY <1>1, <1>2, <1>4
<1>9. ASSUME NEW i \in 1 .. n PROVE c[i] = q[i]
  <2>1. CASE i \in 1 .. k BY <2>1, <1>7, <1>8
  <2>2. ASSUME NEW j \in 1 .. (n - k), i = k + j PROVE c[i] = q[i]
    <3>1. c[k + j] = b[j] BY <1>7
    <3>2. b[j] = q[k + j] BY <1>8
    <3> QED BY <3>1, <3>2, <2>2
  <2> QED BY <1>7, <2>1, <2>2
<1>10. c = q BY <1>3, <1>6, <1>7, <1>9, SeqEqual
<1> QED BY <1>1, <1>2, <1>5, <1>10

LEMMA JoinFrames ==
  ASSUME NEW p \in Seq(Msg), NEW q \in Seq(Msg)
  PROVE  Frames(p \o q) = Frames(p) \cup Frames(q)
<1>1. PICK c : c = p \o q OBVIOUS
<1>2. PICK m \in Nat, n \in Nat : m = Len(p) /\ n = Len(q) OBVIOUS
<1>3. /\ Len(c) = m + n
      /\ \A i \in 1 .. m : c[i] = p[i] /\ i \in 1 .. (m + n)
      /\ \A i \in 1 .. n : c[m + i] = q[i] /\ m + i \in 1 .. (m + n)
      /\ \A i \in 1 .. (m + n) : i \in 1 .. m \/ \E j \in 1 .. n : i = m + j
  BY <1>1, <1>2, JoinIs
<1>4. Frames(c) \subseteq Frames(p) \cup Frames(q)
  <2> SUFFICES ASSUME NEW i \in 1 .. (m + n) PROVE c[i] \in Frames(p) \cup Frames(q)
    BY <1>3 DEF Frames
  <2>1. CASE i \in 1 .. m BY <2>1, <1>2, <1>3 DEF Frames
  <2>2. CASE \E j \in 1 .. n : i = m + j BY <2>2, <1>2, <1>3 DEF Frames
  <2> QED BY <1>3, <2>1, <2>2
<1>5. \A i \in 1 .. m : p[i] \in Frames(c) BY <1>3 DEF Frames
<1>6. ASSUME NEW i \in 1 .. n PROVE q[i] \in Frames(c)
  <2>1. c[m + i] = q[i] /\ m + i \in 1 .. Len(c) BY <1>3
  <2> QED BY <2>1 DEF Frames
<1>7. Frames(p) \subseteq Frames(c) /\ Frames(q) \subseteq Frames(c)
  BY <1>2, <1>5, <1>6 DEF Frames
<1> QED BY <1>1, <1>4, <1>7

LEMMA RestFrames ==
  ASSUME NEW q \in Seq(Msg), NEW k \in Nat, k <= Len(q)
  PROVE  Frames(SubSeq(q, k + 1, Len(q))) \subseteq Frames(q)
<1>1. PICK r : r = SubSeq(q, k + 1, Len(q)) OBVIOUS
<1>2. \A i \in 1 .. Len(r) : r[i] = q[k + i] /\ k + i \in 1 .. Len(q) BY <1>1, SubSeqIs
<1>3. Frames(r) \subseteq Frames(q) BY <1>2 DEF Frames
<1> QED BY <1>1, <1>3

LEMMA PrefixFrames ==
  ASSUME NEW q \in Seq(Msg), NEW k \in Nat, k <= Len(q)
  PROVE  Frames(SubSeq(q, 1, k)) \subseteq Frames(q)
<1>1. PICK r : r = SubSeq(q, 1, k) OBVIOUS
<1>2. Len(r) = k /\ \A i \in 1 .. k : r[i] = q[i] /\ i \in 1 .. Len(q) BY <1>1, PrefixIs
<1>3. Frames(r) \subseteq Frames(q) BY <1>2 DEF Frames
<1> QED BY <1>1, <1>3

LEMMA AppendFrames ==
  ASSUME NEW q \in Seq(Msg), NEW m \in Msg
  PROVE  /\ Append(q, m) \in Seq(Msg) /\ Frames(Append(q, m)) = Frames(q) \cup {m}
         /\ Append(q, m) = q \o <<m>>
<1>1. <<m>> \in Seq(Msg) /\ Len(<<m>>) = 1 /\ <<m>>[1] = m OBVIOUS
<1>2. Append(q, m) = q \o <<m>> /\ Append(q, m) \in Seq(Msg) OBVIOUS
<1>3. Frames(<<m>>) = {m} BY <1>1 DEF Frames
<1> QED BY <1>1, <1>2, <1>3, JoinFrames

LEMMA PrecedesFrames ==
  ASSUME NEW q, NEW x, NEW y, Precedes(q, x, y)
  PROVE  x \in Frames(q) /\ y \in Frames(q)
  BY DEF Precedes, Frames

LEMMA PrecedesAppend ==
  ASSUME NEW q \in Seq(Msg), NEW m \in Msg, NEW x, NEW y, Precedes(Append(q, m), x, y)
  PROVE  Precedes(q, x, y) \/ (y = m /\ x \in Frames(q))
<1>1. PICK n \in Nat : n = Len(q) OBVIOUS
<1>2. PICK r : r = Append(q, m) OBVIOUS
<1>3. Len(r) = n + 1 /\ r[n + 1] = m /\ \A i \in 1 .. n : r[i] = q[i] BY <1>1, <1>2
<1>4. PICK i \in 1 .. (n + 1), j \in 1 .. (n + 1) : i < j /\ r[i] = x /\ r[j] = y
  BY <1>2, <1>3 DEF Precedes
<1>5. i \in 1 .. n /\ q[i] = x BY <1>3, <1>4
<1>6. CASE j \in 1 .. n
  <2>1. q[j] = y BY <1>6, <1>3, <1>4
  <2> QED BY <1>1, <1>4, <1>5, <1>6, <2>1 DEF Precedes
<1>7. CASE j = n + 1 BY <1>1, <1>3, <1>4, <1>5, <1>7 DEF Frames
<1> QED BY <1>6, <1>7

(* Dropping packets from the middle does not change the order of the rest. *)
LEMMA PrecedesCut ==
  ASSUME NEW p \in Seq(Msg), NEW q \in Seq(Msg), NEW k \in Nat, k <= Len(q), NEW x, NEW y,
         Precedes(p \o SubSeq(q, k + 1, Len(q)), x, y)
  PROVE  Precedes(p \o q, x, y)
<1>1. PICK m \in Nat, n \in Nat : m = Len(p) /\ n = Len(q) OBVIOUS
<1>2. PICK r \in Seq(Msg) : /\ r = SubSeq(q, k + 1, Len(q)) /\ Len(r) = n - k
                            /\ \A i \in 1 .. (n - k) : r[i] = q[k + i] /\ k + i \in 1 .. n
  <2>1. PICK r \in Seq(Msg) : /\ r = SubSeq(q, k + 1, Len(q)) /\ Len(r) = Len(q) - k
                            /\ \A i \in 1 .. Len(r) : r[i] = q[k + i] /\ k + i \in 1 .. Len(q)
    BY SubSeqIs
  <2>2. Len(r) = n - k BY <2>1, <1>1
  <2>3. \A i \in 1 .. (n - k) : r[i] = q[k + i] /\ k + i \in 1 .. n BY <2>1, <2>2, <1>1
  <2> QED BY <2>1, <2>2, <2>3
<1>3. n - k \in Nat BY <1>1
<1>4. PICK c : c = p \o r OBVIOUS
<1>5. PICK d : d = p \o q OBVIOUS
<1>6. /\ Len(c) = m + (n - k)
      /\ \A i \in 1 .. m : c[i] = p[i]
      /\ \A i \in 1 .. (n - k) : c[m + i] = r[i]
      /\ \A i \in 1 .. (m + (n - k)) : i \in 1 .. m \/ \E j \in 1 .. (n - k) : i = m + j
  <2>1. /\ Len(c) = Len(p) + Len(r)
        /\ \A i \in 1 .. Len(p) : c[i] = p[i]
        /\ \A i \in 1 .. Len(r) : c[Len(p) + i] = r[i]
        /\ \A i \in 1 .. (Len(p) + Len(r)) :
             i \in 1 .. Len(p) \/ \E j \in 1 .. Len(r) : i = Len(p) + j
    BY <1>4, JoinIs
  <2>2. Len(p) = m /\ Len(r) = n - k BY <1>1, <1>2
  <2> QED BY <2>1, <2>2
<1>7. /\ Len(d) = m + n
      /\ \A i \in 1 .. m : d[i] = p[i] /\ i \in 1 .. (m + n)
      /\ \A i \in 1 .. n : d[m + i] = q[i] /\ m + i \in 1 .. (m + n)
  BY <1>1, <1>5, JoinIs
<1> DEFINE f(i) == IF i <= m THEN i ELSE i + k
<1>8. ASSUME NEW i \in 1 .. (m + (n - k)) PROVE f(i) \in 1 .. (m + n) /\ d[f(i)] = c[i]
  <2>1. CASE i \in 1 .. m BY <2>1, <1>6, <1>7
  <2>2. ASSUME NEW j \in 1 .. (n - k), i = m + j PROVE f(i) \in 1 .. (m + n) /\ d[f(i)] = c[i]
    <3>1. f(i) = m + (k + j) BY <2>2
    <3>2. k + j \in 1 .. n /\ r[j] = q[k + j] BY <1>2
    <3>3. d[m + (k + j)] = q[k + j] /\ m + (k + j) \in 1 .. (m + n) BY <1>7, <3>2
    <3> QED BY <2>2, <3>1, <3>2, <3>3, <1>6
  <2> QED BY <1>6, <2>1, <2>2
<1>9. \A i, j \in 1 .. (m + (n - k)) : i < j => f(i) < f(j) OBVIOUS
<1>10. PICK i \in 1 .. (m + (n - k)), j \in 1 .. (m + (n - k)) : i < j /\ c[i] = x /\ c[j] = y
  BY <1>2, <1>4, <1>6 DEF Precedes
<1>11. f(i) < f(j) /\ f(i) \in 1 .. Len(d) /\ f(j) \in 1 .. Len(d) /\ d[f(i)] = x /\ d[f(j)] = y
  BY <1>7, <1>8, <1>9, <1>10
<1> HIDE DEF f
<1> QED BY <1>5, <1>11 DEF Precedes

LEMMA PrecedesJoin ==
  ASSUME NEW p \in Seq(Msg), NEW q \in Seq(Msg), NEW x, NEW y, Precedes(p, x, y)
  PROVE  Precedes(p \o q, x, y)
<1>1. PICK d : d = p \o q OBVIOUS
<1>2. \A i \in 1 .. Len(p) : d[i] = p[i] /\ i \in 1 .. Len(d) BY <1>1, JoinIs
<1> QED BY <1>1, <1>2 DEF Precedes

LEMMA CutAppend ==
  ASSUME NEW q \in Seq(Msg), NEW m \in Msg, NEW k \in Nat, k <= Len(q)
  PROVE  SubSeq(Append(q, m), k + 1, Len(Append(q, m))) =
           Append(SubSeq(q, k + 1, Len(q)), m)
<1>1. PICK n \in Nat : n = Len(q) OBVIOUS
<1>2. PICK a \in Seq(Msg) : a = Append(q, m)
  <2>1. Append(q, m) \in Seq(Msg) OBVIOUS
  <2> QED BY <2>1
<1>3. Len(a) = n + 1 /\ a[n + 1] = m /\ \A i \in 1 .. n : a[i] = q[i] BY <1>1, <1>2
<1>4. k <= Len(a) BY <1>1, <1>3
<1>5. PICK r \in Seq(Msg) : /\ r = SubSeq(a, k + 1, Len(a)) /\ Len(r) = Len(a) - k
                            /\ \A i \in 1 .. Len(r) : r[i] = a[k + i]
  BY <1>4, SubSeqIs
<1>6. PICK p \in Seq(Msg) : /\ p = SubSeq(q, k + 1, Len(q)) /\ Len(p) = Len(q) - k
                            /\ \A i \in 1 .. Len(p) : p[i] = q[k + i] /\ k + i \in 1 .. Len(q)
  BY SubSeqIs
<1>7. PICK l \in Nat : l = Len(p) /\ k + l = n /\ Len(r) = l + 1
  BY <1>1, <1>3, <1>5, <1>6
<1>8. PICK b \in Seq(Msg) : b = Append(p, m)
  <2>1. Append(p, m) \in Seq(Msg) OBVIOUS
  <2> QED BY <2>1
<1>9. Len(b) = l + 1 /\ b[l + 1] = m /\ \A i \in 1 .. l : b[i] = p[i] BY <1>7, <1>8
<1>10. ASSUME NEW i \in 1 .. (l + 1) PROVE r[i] = b[i]
  <2>1. r[i] = a[k + i] BY <1>5, <1>7
  <2>2. CASE i \in 1 .. l
    <3>1. b[i] = q[k + i] /\ k + i \in 1 .. n BY <2>2, <1>1, <1>6, <1>7, <1>9
    <3> QED BY <2>1, <3>1, <1>3
  <2>3. CASE i = l + 1
    <3>1. k + i = n + 1 BY <2>3, <1>7
    <3>2. r[i] = m BY <2>1, <3>1, <1>3
    <3> QED BY <3>2, <2>3, <1>9
  <2> QED BY <2>2, <2>3
<1>11. r = b
  <2>1. Len(r) = Len(b) /\ \A i \in 1 .. Len(r) : r[i] = b[i] BY <1>7, <1>9, <1>10
  <2> QED BY <2>1, SeqEqual
<1> QED BY <1>2, <1>5, <1>6, <1>8, <1>11

(* The packets posted to s, in order: those it has received, then those    *)
(* that are still to come.                                                 *)
Rest(s) ==
  IF send[s] \in {"done", "handled"}
  THEN SubSeq(outbox[s], sending[s] + 1, Len(outbox[s])) ELSE outbox[s]
Posted(s) == got[s] \o Rest(s)
Before(s, x, y) == Precedes(Posted(s), x, y)
Sent(s, m) == m \in Frames(got[s]) \cup Frames(outbox[s])

LEMMA PostedIs ==
  ASSUME Types, Fits, NEW s \in Player
  PROVE  /\ got[s] \in Seq(Msg) /\ outbox[s] \in Seq(Msg) /\ sending[s] \in Nat
         /\ Rest(s) \in Seq(Msg) /\ Posted(s) \in Seq(Msg)
         /\ Frames(Posted(s)) \subseteq Frames(got[s]) \cup Frames(outbox[s])
         /\ \A x, y : Before(s, x, y) => Sent(s, x) /\ Sent(s, y)
<1>1. got[s] \in Seq(Msg) /\ outbox[s] \in Seq(Msg) /\ sending[s] \in Nat
      /\ sending[s] <= Len(outbox[s])
  BY DEF Types, Fits
<1>2. PICK r : r = Rest(s) OBVIOUS
<1>3. r \in Seq(Msg) /\ Frames(r) \subseteq Frames(outbox[s])
  BY <1>1, <1>2, SubSeqIs, RestFrames DEF Rest
<1>4. got[s] \o r \in Seq(Msg) /\ Frames(got[s] \o r) = Frames(got[s]) \cup Frames(r)
  BY <1>1, <1>3, JoinIs, JoinFrames
<1>5. Frames(Posted(s)) \subseteq Frames(got[s]) \cup Frames(outbox[s])
  BY <1>2, <1>3, <1>4 DEF Posted
<1>6. \A x, y : Before(s, x, y) => Sent(s, x) /\ Sent(s, y)
  BY <1>5, PrecedesFrames DEF Before, Sent
<1> QED BY <1>1, <1>2, <1>3, <1>4, <1>5, <1>6 DEF Posted

(* What a step may do to the packets of s: nothing new, or m at the end.   *)
Shrinks(s) ==
  \A x, y \in Msg : /\ Sent(s, x)' => Sent(s, x)
                    /\ Before(s, x, y)' => Before(s, x, y)
Adds(s, m) ==
  \A x, y \in Msg : /\ Sent(s, x)' => Sent(s, x) \/ x = m
                    /\ Before(s, x, y)' => Before(s, x, y) \/ (y = m /\ Sent(s, x))

LEMMA SameShrinks ==
  ASSUME NEW s \in Player, got'[s] = got[s], outbox'[s] = outbox[s], send'[s] = send[s],
         sending'[s] = sending[s]
  PROVE  Shrinks(s)
<1>1. Posted(s)' = Posted(s) BY DEF Posted, Rest
<1> QED BY <1>1 DEF Shrinks, Before, Sent

LEMMA KernelShrinks ==
  ASSUME Types, Fits, NEW s \in Player, KernelSend(s)
  PROVE  \A v \in Player : Shrinks(v)
<1>0. got \in [Player -> Seq(Msg)] /\ send \in [Player -> {"none", "flying", "done", "failed", "handled"}]
  BY DEF Types
<1>1. got[s] \in Seq(Msg) /\ outbox[s] \in Seq(Msg) /\ sending[s] \in Nat
      /\ sending[s] <= Len(outbox[s])
  BY DEF Types, Fits
<1>2. send[s] = "flying" /\ UNCHANGED <<outbox, sending>> BY DEF KernelSend
<1>3. ASSUME NEW v \in Player, v # s PROVE Shrinks(v)
  <2>1. got'[v] = got[v] /\ send'[v] = send[v] BY <1>0, <1>3 DEF KernelSend, Set
  <2> QED BY <2>1, <1>2, SameShrinks
<1>4. CASE send' = Set(send, s, "failed") /\ got' = got
  <2>1. send'[s] = "failed" BY <1>0, <1>4 DEF Set
  <2>2. Posted(s)' = Posted(s) BY <2>1, <1>2, <1>4 DEF Posted, Rest
  <2> QED BY <2>2, <1>2, <1>3, <1>4 DEF Shrinks, Before, Sent
<1>5. CASE send' = Set(send, s, "done") /\ got' = Set(got, s, got[s] \o SubSeq(outbox[s], 1, sending[s]))
  <2>1. PICK a \in Seq(Msg) : a = SubSeq(outbox[s], 1, sending[s]) BY <1>1, PrefixIs
  <2>2. PICK b \in Seq(Msg) : b = SubSeq(outbox[s], sending[s] + 1, Len(outbox[s]))
    BY <1>1, SubSeqIs
  <2>3. a \o b = outbox[s] BY <1>1, <2>1, <2>2, CutIs
  <2>4. send'[s] = "done" /\ got'[s] = got[s] \o a BY <1>0, <1>5, <2>1 DEF Set
  <2>5. Posted(s)' = (got[s] \o a) \o b BY <2>2, <2>4, <1>2 DEF Posted, Rest
  <2>6. (got[s] \o a) \o b = got[s] \o (a \o b)
    <3>1. PICK g \in Seq(Msg) : g = got[s] BY <1>1
    <3>2. (g \o a) \o b = g \o (a \o b) BY ConcatAssociative
    <3> QED BY <3>1, <3>2
  <2>7. Posted(s) = got[s] \o outbox[s] BY <1>2 DEF Posted, Rest
  <2>8. Posted(s)' = Posted(s) BY <2>3, <2>5, <2>6, <2>7
  <2>9. Frames(got'[s]) \subseteq Frames(got[s]) \cup Frames(outbox[s])
    <3>1. Frames(got[s] \o a) = Frames(got[s]) \cup Frames(a) BY <1>1, JoinFrames
    <3>2. Frames(a) \subseteq Frames(outbox[s]) BY <1>1, <2>1, PrefixFrames
    <3> QED BY <3>1, <3>2, <2>4
  <2>10. Shrinks(s) BY <2>8, <2>9, <1>2 DEF Shrinks, Before, Sent
  <2> QED BY <2>10, <1>3
<1> QED BY <1>4, <1>5 DEF KernelSend

LEMMA SendDoneShrinks ==
  ASSUME Types, Fits, NEW t \in Worker, NEW s \in Player, SendDoneView(t, s)
  PROVE  \A v \in Player : Shrinks(v)
<1>0. send \in [Player -> {"none", "flying", "done", "failed", "handled"}] BY DEF Types
<1>1. got[s] \in Seq(Msg) /\ outbox[s] \in Seq(Msg) /\ sending[s] \in Nat
      /\ sending[s] <= Len(outbox[s])
  BY DEF Types, Fits
<1>2. UNCHANGED <<outbox, sending, got>> /\ send' = Set(send, s, "handled")
  BY DEF SendDoneView, world
<1>3. ASSUME NEW v \in Player, v # s PROVE Shrinks(v)
  <2>1. send'[v] = send[v] BY <1>0, <1>2, <1>3 DEF Set
  <2> QED BY <2>1, <1>2, SameShrinks
<1>4. send'[s] = "handled" BY <1>0, <1>2 DEF Set
<1>5. Posted(s)' = got[s] \o SubSeq(outbox[s], sending[s] + 1, Len(outbox[s]))
  BY <1>2, <1>4 DEF Posted, Rest
<1>6. CASE send[s] = "done"
  <2>1. Posted(s)' = Posted(s) BY <1>5, <1>6 DEF Posted, Rest
  <2> QED BY <2>1, <1>2, <1>3 DEF Shrinks, Before, Sent
<1>7. CASE send[s] = "failed"
  <2>1. Posted(s) = got[s] \o outbox[s] BY <1>7 DEF Posted, Rest
  <2>2. \A x, y : Precedes(Posted(s)', x, y) => Precedes(Posted(s), x, y)
    BY <2>1, <1>1, <1>5, PrecedesCut
  <2> QED BY <2>2, <1>2, <1>3 DEF Shrinks, Before, Sent
<1> QED BY <1>6, <1>7 DEF SendDoneView

LEMMA CompletionShrinks ==
  ASSUME Types, Fits, Sends, NEW t \in Worker, NEW s \in Player, CompletionView(t, s)
  PROVE  \A v \in Player : Shrinks(v)
<1>0. /\ send \in [Player -> {"none", "flying", "done", "failed", "handled"}]
      /\ outbox \in [Player -> Seq(Msg)] /\ sending \in [Player -> Nat]
  BY DEF Types
<1>1. got[s] \in Seq(Msg) /\ outbox[s] \in Seq(Msg) /\ sending[s] \in Nat
      /\ sending[s] <= Len(outbox[s])
  BY DEF Types, Fits
<1>2. send[s] = "handled" BY DEF CompletionView, Sends
<1>3. PICK rest \in Seq(Msg) : rest = SubSeq(outbox[s], sending[s] + 1, Len(outbox[s]))
  BY <1>1, SubSeqIs
<1>4. /\ outbox' = Set(outbox, s, rest) /\ got' = got
      /\ \E x \in {"flying", "none"} : send' = Set(send, s, x)
      /\ \E k : sending' = Set(sending, s, k)
  BY <1>3 DEF CompletionView, SendFlies, SendBreaks, world
<1>5. ASSUME NEW v \in Player, v # s PROVE Shrinks(v)
  <2>1. got'[v] = got[v] /\ outbox'[v] = outbox[v] /\ send'[v] = send[v] /\ sending'[v] = sending[v]
    BY <1>0, <1>4, <1>5 DEF Set
  <2> QED BY <2>1, SameShrinks
<1>6. outbox'[s] = rest /\ send'[s] \in {"flying", "none"} BY <1>0, <1>4 DEF Set
<1>7. Posted(s)' = Posted(s) BY <1>2, <1>3, <1>4, <1>6 DEF Posted, Rest
<1>8. Frames(outbox'[s]) \subseteq Frames(outbox[s]) BY <1>1, <1>3, <1>6, RestFrames
<1>9. Shrinks(s) BY <1>4, <1>7, <1>8 DEF Shrinks, Before, Sent
<1> QED BY <1>5, <1>9

LEMMA PostLockAdds ==
  ASSUME Types, Fits, NEW t \in Worker, NEW s \in Player, NEW m \in Msg, PostLockView(t, s, m)
  PROVE  Adds(s, m) /\ \A v \in Player \ {s} : Shrinks(v)
<1>0. /\ send \in [Player -> {"none", "flying", "done", "failed", "handled"}]
      /\ outbox \in [Player -> Seq(Msg)] /\ sending \in [Player -> Nat]
  BY DEF Types
<1>1. got[s] \in Seq(Msg) /\ outbox[s] \in Seq(Msg) /\ sending[s] \in Nat
      /\ sending[s] <= Len(outbox[s])
  BY DEF Types, Fits
<1>2. got' = got BY DEF PostLockView, world
<1>3. /\ outbox' = outbox \/ outbox' = Set(outbox, s, Append(outbox[s], m))
      /\ send' = send \/ \E x : send' = Set(send, s, x)
      /\ sending' = sending \/ \E x : sending' = Set(sending, s, x)
  BY DEF PostLockView, SendFlies, SendBreaks
<1>4. ASSUME NEW v \in Player \ {s} PROVE Shrinks(v)
  <2>1. outbox'[v] = outbox[v] /\ send'[v] = send[v] /\ sending'[v] = sending[v]
    BY <1>0, <1>3 DEF Set
  <2> QED BY <2>1, <1>2, SameShrinks
<1>5. CASE UNCHANGED <<outbox, send, sending>>
  BY <1>2, <1>4, <1>5, SameShrinks DEF Shrinks, Adds
<1>6. CASE Posted(s)' = Append(Posted(s), m) /\ outbox'[s] = Append(outbox[s], m)
  <2>1. Posted(s) \in Seq(Msg) /\ Frames(Posted(s)) \subseteq Frames(got[s]) \cup Frames(outbox[s])
    BY PostedIs
  <2>2. \A x, y : Precedes(Posted(s)', x, y) =>
                    Precedes(Posted(s), x, y) \/ (y = m /\ x \in Frames(Posted(s)))
    BY <2>1, <1>6, PrecedesAppend
  <2>3. Frames(outbox'[s]) = Frames(outbox[s]) \cup {m} BY <1>1, <1>6, AppendFrames
  <2>4. Adds(s, m) BY <2>1, <2>2, <2>3, <1>2 DEF Adds, Before, Sent
  <2> QED BY <2>4, <1>4
<1>7. ASSUME outbox' = Set(outbox, s, Append(outbox[s], m)),
             Rest(s)' = Append(Rest(s), m)
      PROVE  Posted(s)' = Append(Posted(s), m) /\ outbox'[s] = Append(outbox[s], m)
  <2>1. PICK r \in Seq(Msg) : r = Rest(s) BY PostedIs
  <2>2. Append(r, m) = r \o <<m>> /\ <<m>> \in Seq(Msg) OBVIOUS
  <2>3. got[s] \o (r \o <<m>>) = (got[s] \o r) \o <<m>>
    <3>1. PICK g \in Seq(Msg) : g = got[s] BY <1>1
    <3>2. (g \o r) \o <<m>> = g \o (r \o <<m>>) BY <2>2, ConcatAssociative
    <3> QED BY <3>1, <3>2
  <2>4. got[s] \o r \in Seq(Msg) BY <1>1
  <2>5. Append(got[s] \o r, m) = (got[s] \o r) \o <<m>> BY <2>4
  <2>6. Posted(s)' = got[s] \o Append(r, m) BY <1>2, <1>7, <2>1 DEF Posted
  <2>7. Posted(s) = got[s] \o r BY <2>1 DEF Posted
  <2> QED BY <1>0, <1>7, <2>2, <2>3, <2>5, <2>6, <2>7 DEF Set
<1>8. CASE outbox' = Set(outbox, s, Append(outbox[s], m)) /\ UNCHANGED <<send, sending>>
  <2>1. outbox'[s] = Append(outbox[s], m) BY <1>0, <1>8 DEF Set
  <2>2. SubSeq(Append(outbox[s], m), sending[s] + 1, Len(Append(outbox[s], m))) =
          Append(SubSeq(outbox[s], sending[s] + 1, Len(outbox[s])), m)
    BY <1>1, CutAppend
  <2>3. Rest(s)' = Append(Rest(s), m) BY <1>8, <2>1, <2>2 DEF Rest
  <2> QED BY <1>6, <1>7, <1>8, <2>3
<1>9. CASE /\ outbox' = Set(outbox, s, Append(outbox[s], m)) /\ send[s] = "none"
           /\ \E x \in {"flying", "none"} : send' = Set(send, s, x)
  <2>1. outbox'[s] = Append(outbox[s], m) /\ send'[s] \in {"flying", "none"}
    BY <1>0, <1>9 DEF Set
  <2>2. Rest(s)' = Append(Rest(s), m) BY <1>9, <2>1 DEF Rest
  <2> QED BY <1>6, <1>7, <1>9, <2>2
<1> QED BY <1>5, <1>8, <1>9 DEF PostLockView, SendFlies, SendBreaks

(* All steps.                                                              *)
LEMMA ThreadShrinks ==
  ASSUME Types, Fits, Sends, NEW t \in Worker, ThreadView(t)
  PROVE  \/ \A v \in Player : Shrinks(v)
         \/ \E s \in Player, m \in Msg :
              PostLockView(t, s, m) /\ Adds(s, m) /\ \A v \in Player \ {s} : Shrinks(v)
<1>1. Footprint(t) BY Footprints
<1>2. CASE UNCHANGED <<outbox, sending, send>>
  BY <1>1, <1>2, SameShrinks DEF Footprint
<1>3. ASSUME NEW s \in Player, NEW m \in Msg, PostLockView(t, s, m)
      PROVE  Adds(s, m) /\ \A v \in Player \ {s} : Shrinks(v)
  BY <1>3, PostLockAdds
<1> QED BY <1>1, <1>2, <1>3, CompletionShrinks, SendDoneShrinks DEF Footprint

LEMMA OthersShrink ==
  ASSUME Types, Fits, SdkView \/ OutsideView \/ UNCHANGED vars
  PROVE  \A v \in Player : Shrinks(v)
<1>1. CASE UNCHANGED <<got, outbox, sending, send>> BY <1>1, SameShrinks
<1>2. SdkView \/ UNCHANGED vars => UNCHANGED <<got, outbox, sending, send>>
  BY DEF SdkView, CallStartView, CallTerminateView, StartGameView, CreateView,
         TerminateView, vars, sessions, world
<1>3. OutsideView => \/ UNCHANGED <<got, outbox, sending, send>>
                     \/ \E s \in Player : KernelSend(s)
  BY DEF OutsideView, Outsider, InitializeGameLift, OnConnect, ClientStep, Reserve,
         StartTest, PlayTest, EndTest, HangUp, sessions, world
<1> QED BY <1>1, <1>2, <1>3, KernelShrinks

-----------------------------------------------------------------------------
(* Where a chat request is: waiting to be handled, about to be broadcast,  *)
(* or broadcast.                                                           *)
Waits(m)     == m \in Frames(inbox[m.from])
Held(t, m)   == Packet("BroadcastMessage", m.from, m) \in Calls(t)
Spread(t, m) == \E d \in SUBSET Player : Loop(m, d) \in Calls(t)

(* It is in one place only, and is counted.                                *)
Once ==
  \A m \in Chats :
    /\ Waits(m) => \A t \in Worker, s \in Player : ~ Held(t, m) /\ ~ Spread(t, m) /\ ~ Sent(s, m)
    /\ \A t \in Worker : Held(t, m) =>
         /\ \A u \in Worker : ~ Spread(u, m) /\ (Held(u, m) => u = t)
         /\ \A s \in Player : ~ Sent(s, m)
    /\ \A t \in Worker, s \in Player : Held(t, m) \/ Spread(t, m) \/ Sent(s, m) => m.n \in 1 .. chats

Posting(t, s, m) ==
  Packet("PostSend", s, m) \in Calls(t) \/ Packet("PostSendLock", s, m) \in Calls(t)

(* A packet is posted once to each player.                                 *)
Unsaid ==
  \A t \in Worker, s \in Player :
    /\ On("SetPlayerId", s) \in Calls(t) => ~ Sent(s, Answer(s))
    /\ \A m \in Msg :
         /\ Posting(t, s, m) =>
              /\ ~ Sent(s, m)
              /\ m \in Chats => \E d \in SUBSET Player : Loop(m, d) \in Calls(t) /\ s \notin d
         /\ \A d \in SUBSET Player : Loop(m, d) \in Calls(t) /\ s \in d => ~ Sent(s, m)
         /\ Sent(s, m) => m \in Chats \/ m = Answer(s)

LEMMA ChatIs ==
  ASSUME NEW m \in Chats
  PROVE  m \in Msg /\ m.from \in Player /\ m.n \in Nat /\ m.kind = "chat"
  BY DEF Chats, Msg

LEMMA AnswerIs ==
  ASSUME NEW s \in Player
  PROVE  Answer(s) \in Msg /\ Answer(s) \notin Chats /\ Answer(s).from = s
<1>1. 0 \in Nat OBVIOUS
<1> QED BY <1>1 DEF Answer, Message, Msg, Chats

(* mLock lets one broadcast go on.                                         *)
LEMMA SpreadOne ==
  ASSUME Stacks, Begun, NEW t \in Worker, NEW u \in Worker, NEW m \in Msg, NEW n \in Msg,
         NEW d \in SUBSET Player, NEW e \in SUBSET Player,
         Loop(m, d) \in Calls(t), Loop(n, e) \in Calls(u)
  PROVE  t = u /\ m = n /\ d = e
<1>1. mLock = t /\ mLock = u BY DEF Begun
<1>2. Level(Loop(m, d)) = Level(Loop(n, e)) BY Levels
<1>3. Loop(m, d) = Loop(n, e) BY <1>1, <1>2, OneOfALevel
<1> QED BY <1>1, <1>3, Apart

(* What posting to the buffer does to the calls.                           *)
LEMMA PostCalls ==
  ASSUME NEW t \in Worker, NEW s \in Player, NEW m \in Msg, PostLockView(t, s, m)
  PROVE  /\ Packet("PostSendLock", s, m) \in Calls(t)
         /\ Packet("PostSendLock", s, m) \notin Calls(t)'
         /\ \A u \in Worker : Calls(u)' \subseteq Calls(u) \cup {On("Disconnect", s), On("FlushFailed", s)}
         /\ UNCHANGED <<inbox, chats>>
<1>1. \E G \in {{}, {On("Disconnect", s), On("FlushFailed", s)}} :
        Moves(t, Packet("PostSendLock", s, m), G)
  BY DEF PostLockView, SendFlies, SendBreaks
<1>2. PICK G : /\ G \subseteq {On("Disconnect", s), On("FlushFailed", s)}
               /\ Moves(t, Packet("PostSendLock", s, m), G)
  BY <1>1
<1>3. Packet("PostSendLock", s, m) \notin G BY <1>2, Apart
<1> QED BY <1>2, <1>3 DEF PostLockView, Tops, Moves, Others, world

(* A chat request that is taken from its queue is not there any more.      *)
LEMMA HeldNew ==
  ASSUME Types, Requests, Carried, NEW t \in Worker, ThreadView(t), NEW u \in Worker,
         NEW m \in Chats, Held(u, m)', ~ Held(u, m)
  PROVE  u = t /\ Waits(m) /\ ~ Waits(m)' /\ m.n \in 1 .. chats
<1> DEFINE s == m.from
<1>1. Gains(t) BY GainsLemma
<1>2. m \in Msg /\ s \in Player BY ChatIs
<1>3. u = t /\ m = inbox[s][1] /\ Handles(t, s, "chat")
  BY <1>1, <1>2, NewPacket DEF Held, MadePacket
<1>4. inbox[s] \in Seq(Msg) /\ inbox[s] # <<>> BY <1>2, <1>3 DEF Types, Handles
<1>5. PICK q \in Seq(Msg) : q = inbox[s] BY <1>4
<1>6. PICK n \in Nat : n = Len(q) /\ n # 0
  <2>1. PICK n \in Nat : n = Len(q) BY <1>5
  <2> QED BY <2>1, <1>4, <1>5, EmptySeq
<1>7. 1 \in 1 .. n BY <1>6
<1>8. Waits(m) BY <1>3, <1>5, <1>6, <1>7 DEF Waits, Frames
<1>9. m.n \in 1 .. chats BY <1>2, <1>3, <1>5, <1>6, <1>7, ChatIs DEF Requests
<1>10. inbox'[s] = Tail(q) BY <1>2, <1>3, <1>5 DEF Handles, Types, Set
<1>11. Len(Tail(q)) = n - 1 /\ \A i \in 1 .. (n - 1) : Tail(q)[i] = q[i + 1] /\ i + 1 \in 1 .. n
  BY <1>4, <1>5, <1>6
<1>12. \A i \in 1 .. n : q[1] = q[i] => i = 1
  BY <1>2, <1>3, <1>5, <1>6, <1>7, ChatIs DEF Requests
<1>13. ASSUME NEW i \in 1 .. (n - 1) PROVE Tail(q)[i] # m
  <2>1. Tail(q)[i] = q[i + 1] /\ i + 1 \in 1 .. n /\ i + 1 # 1 BY <1>11
  <2> QED BY <2>1, <1>3, <1>5, <1>12
<1>14. ~ Waits(m)' BY <1>10, <1>11, <1>13 DEF Waits, Frames
<1> QED BY <1>3, <1>8, <1>9, <1>14

LEMMA SpreadNew ==
  ASSUME Types, Requests, Carried, NEW t \in Worker, ThreadView(t), NEW u \in Worker,
         NEW m \in Msg, Spread(u, m)', ~ Spread(u, m)
  PROVE  u = t /\ m \in Chats /\ Held(t, m) /\ ~ Held(t, m)'
<1>1. Gains(t) BY GainsLemma
<1>2. PICK d \in SUBSET Player : Loop(m, d) \in Calls(u)' BY DEF Spread
<1>3. Loop(m, d) \notin Calls(u) BY DEF Spread
<1>4. PICK s \in Player : u = t /\ MadeLoop(t, s, m, d) BY <1>1, <1>2, <1>3, NewLoop
<1>5. \A e \in SUBSET Player : ~ LoopView(t, m, e) BY <1>4 DEF LoopView, Tops, Spread
<1>6. BroadcastView(t, s, m) BY <1>4, <1>5 DEF MadeLoop
<1>7. Packet("BroadcastMessage", s, m) \in Calls(t) BY <1>6 DEF BroadcastView, Tops
<1>8. m \in Chats /\ s = m.from BY <1>7 DEF Carried
<1>9. Packet("BroadcastMessage", s, m) \notin Calls(t)'
  <2>1. \A e : Packet("BroadcastMessage", s, m) # Loop(m, e) BY Apart
  <2>2. Moves(t, Packet("BroadcastMessage", s, m), {Loop(m, mGameSession)}) BY <1>6 DEF BroadcastView
  <2> QED BY <2>1, <2>2 DEF Moves
<1> QED BY <1>4, <1>7, <1>8, <1>9 DEF Held

LEMMA WaitsStays ==
  ASSUME Types, NEW t \in Worker, ThreadView(t), NEW m \in Chats, Waits(m)'
  PROVE  Waits(m)
<1>1. m.from \in Player BY ChatIs
<1>2. CASE inbox' = inbox BY <1>2 DEF Waits
<1>3. ASSUME NEW s \in Player, inbox[s] # <<>>, inbox' = Set(inbox, s, Tail(inbox[s]))
      PROVE  Waits(m)
  <2>1. CASE s # m.from
    <3>1. inbox'[m.from] = inbox[m.from] BY <1>1, <1>3, <2>1 DEF Set, Types
    <3> QED BY <3>1 DEF Waits
  <2>2. CASE s = m.from
    <3>1. PICK q \in Seq(Msg) : q = inbox[s] BY DEF Types
    <3>2. PICK n \in Nat : n = Len(q) /\ n # 0
      <4>1. PICK n \in Nat : n = Len(q) BY <3>1
      <4> QED BY <4>1, <1>3, <3>1, EmptySeq
    <3>3. Len(Tail(q)) = n - 1 /\ \A i \in 1 .. (n - 1) : Tail(q)[i] = q[i + 1] /\ i + 1 \in 1 .. n
      BY <3>1, <3>2, <1>3
    <3>4. inbox'[m.from] = Tail(q) BY <1>1, <1>3, <2>2, <3>1 DEF Set, Types
    <3> QED BY <3>1, <3>2, <3>3, <3>4, <2>2 DEF Waits, Frames
  <2> QED BY <2>1, <2>2
<1>4. Footprint(t) BY Footprints
<1> QED BY <1>2, <1>3, <1>4 DEF Footprint, RecvView, OnReadView

(* Packets reach the buffer of a session through PostSendLock only.        *)
LEMMA SentNew ==
  ASSUME Types, Fits, Sends, NEW t \in Worker, ThreadView(t), NEW s \in Player, NEW m \in Msg,
         Sent(s, m)', ~ Sent(s, m)
  PROVE  PostLockView(t, s, m)
<1>1. ~ \A v \in Player : Shrinks(v) BY DEF Shrinks
<1>2. PICK v \in Player, n \in Msg :
        PostLockView(t, v, n) /\ Adds(v, n) /\ \A w \in Player \ {v} : Shrinks(w)
  BY <1>1, ThreadShrinks
<1>3. s = v BY <1>2 DEF Shrinks
<1>4. m = n BY <1>2, <1>3 DEF Adds
<1> QED BY <1>2, <1>3, <1>4

LEMMA OnceThread ==
  ASSUME Base, Carried, Sends, Once, Unsaid, NEW t \in Worker, ThreadView(t), NEW m \in Chats
  PROVE  /\ Waits(m)' => \A u \in Worker, s \in Player :
                           ~ Held(u, m)' /\ ~ Spread(u, m)' /\ ~ Sent(s, m)'
         /\ \A u \in Worker : Held(u, m)' =>
              /\ \A v \in Worker : ~ Spread(v, m)' /\ (Held(v, m)' => v = u)
              /\ \A s \in Player : ~ Sent(s, m)'
         /\ \A u \in Worker, s \in Player :
              Held(u, m)' \/ Spread(u, m)' \/ Sent(s, m)' => m.n \in 1 .. chats'
<1> USE DEF Base
<1>0. m \in Msg /\ chats' = chats BY ChatIs, Footprints DEF Footprint
<1>f. m.from \in Player BY ChatIs
<1>1. ASSUME NEW s \in Player, Sent(s, m)', ~ Sent(s, m)
      PROVE  /\ \E u \in Worker : Spread(u, m)
             /\ \A u \in Worker : ~ Held(u, m)' /\ (Spread(u, m)' => Spread(u, m))
             /\ ~ Waits(m)'
  <2>4. PostLockView(t, s, m) BY <1>0, <1>1, SentNew
  <2>5. /\ Packet("PostSendLock", s, m) \in Calls(t) /\ UNCHANGED inbox
        /\ \A u \in Worker : Calls(u)' \subseteq Calls(u) \cup {On("Disconnect", s), On("FlushFailed", s)}
    BY <1>0, <2>4, PostCalls
  <2>6. PICK d \in SUBSET Player : Loop(m, d) \in Calls(t)
    BY <1>0, <2>5 DEF Unsaid, Posting
  <2>7. Spread(t, m) BY <2>6 DEF Spread
  <2>8. ~ Waits(m)' BY <2>5, <2>7 DEF Waits, Once
  <2>9. ASSUME NEW u \in Worker PROVE ~ Held(u, m)' /\ (Spread(u, m)' => Spread(u, m))
    <3>1. Held(u, m)' => Held(u, m) BY <2>5, Apart DEF Held
    <3>2. Spread(u, m)' => Spread(u, m) BY <2>5, Apart DEF Spread
    <3> QED BY <3>1, <3>2, <2>7 DEF Once
  <2> QED BY <2>7, <2>8, <2>9
<1>2. ASSUME Waits(m)', NEW u \in Worker, NEW s \in Player
      PROVE  ~ Held(u, m)' /\ ~ Spread(u, m)' /\ ~ Sent(s, m)'
  <2>1. Waits(m) BY <1>2, WaitsStays
  <2>2. ~ Held(u, m) /\ ~ Spread(u, m) /\ ~ Sent(s, m) /\ ~ Held(t, m) BY <2>1 DEF Once
  <2>3. ~ Held(u, m)' BY <1>2, <2>2, HeldNew
  <2>4. ~ Spread(u, m)' BY <1>0, <2>2, SpreadNew
  <2>5. ~ Sent(s, m)' BY <1>1, <1>2, <2>2
  <2> QED BY <2>3, <2>4, <2>5
<1>3. ASSUME NEW u \in Worker, Held(u, m)', ~ Held(u, m)
      PROVE  /\ u = t /\ m.n \in 1 .. chats
             /\ \A v \in Worker : ~ Held(v, m) /\ ~ Spread(v, m)
             /\ \A s \in Player : ~ Sent(s, m)
  <2>1. u = t /\ Waits(m) /\ m.n \in 1 .. chats BY <1>3, HeldNew
  <2> QED BY <2>1, <1>f DEF Once
<1>4. ASSUME NEW u \in Worker, Held(u, m)'
      PROVE  /\ \A v \in Worker : ~ Spread(v, m)' /\ (Held(v, m)' => v = u)
             /\ \A s \in Player : ~ Sent(s, m)'
  <2>1. ASSUME NEW v \in Worker PROVE ~ Spread(v, m)
    BY <2>1, <1>3, <1>4 DEF Once
  <2>2. ASSUME NEW v \in Worker, Spread(v, m)' PROVE FALSE
    <3>1. Held(t, m) /\ ~ Held(t, m)' BY <1>0, <2>1, <2>2, SpreadNew
    <3>2. u # t BY <1>4, <3>1
    <3>3. Held(u, m) BY <3>2, <1>3, <1>4
    <3> QED BY <3>1, <3>2, <3>3 DEF Once
  <2>3. ASSUME NEW v \in Worker, Held(v, m)' PROVE v = u
    BY <1>3, <1>4, <2>3 DEF Once
  <2>4. ASSUME NEW s \in Player PROVE ~ Sent(s, m)'
    <3>1. ~ Sent(s, m) BY <1>3, <1>4 DEF Once
    <3> QED BY <3>1, <1>1, <1>4
  <2> QED BY <2>2, <2>3, <2>4
<1>5. ASSUME NEW u \in Worker, Spread(u, m)' PROVE m.n \in 1 .. chats
  <2>1. Spread(u, m) \/ Held(t, m) BY <1>0, <1>5, SpreadNew
  <2> QED BY <2>1, <1>f DEF Once
<1>6. ASSUME NEW u \in Worker, Held(u, m)' PROVE m.n \in 1 .. chats
  BY <1>f, <1>3, <1>6 DEF Once
<1>7. ASSUME NEW s \in Player, Sent(s, m)' PROVE m.n \in 1 .. chats
  BY <1>1, <1>7 DEF Once
<1> QED BY <1>0, <1>2, <1>4, <1>5, <1>6, <1>7

LEMMA LoginQuiet ==
  ASSUME Types, Unsent, NEW t \in Worker, NEW s \in Player, LoginView(t, s),
         On("SetPlayerId", s) \in Calls(t)', On("SetPlayerId", s) \notin Calls(t)
  PROVE  service[s] = "reserved" /\ service' = Set(service, s, "active") /\ \A m : ~ Sent(s, m)
<1>1. On("SetPlayerId", s) # On("Disconnect", s) BY Apart
<1>2. ~ Moves(t, On("PlayerLogin", s), {On("Disconnect", s)}) BY <1>1 DEF Moves
<1>3. service[s] = "reserved" /\ service' = Set(service, s, "active") BY <1>2 DEF LoginView
<1>4. Quiet(s) BY <1>3 DEF Unsent, Entered
<1> QED BY <1>3, <1>4, FramesNone DEF Quiet, Sent

(* Two threads do not post the same packet to a player.                    *)
LEMMA PostingOne ==
  ASSUME Stacks, Begun, Carried, Chain, Unsaid, NEW t \in Worker, NEW u \in Worker,
         NEW s \in Player, NEW m \in Msg, NEW f \in Calls(t), NEW g \in Calls(u),
         f \in {Packet("PostSend", s, m), Packet("PostSendLock", s, m)},
         g \in {Packet("PostSend", s, m), Packet("PostSendLock", s, m)}
  PROVE  t = u /\ f = g
<1>1. Posting(t, s, m) /\ Posting(u, s, m) BY DEF Posting
<1>2. m \in Chats \/ m = Answer(s) BY DEF Carried
<1>3. ASSUME m \in Chats PROVE t = u
  <2>1. PICK d \in SUBSET Player : Loop(m, d) \in Calls(t) BY <1>1, <1>3 DEF Unsaid
  <2>2. PICK e \in SUBSET Player : Loop(m, e) \in Calls(u) BY <1>1, <1>3 DEF Unsaid
  <2> QED BY <2>1, <2>2, SpreadOne
<1>4. ASSUME m = Answer(s) PROVE t = u
  <2>1. f \in LoginCalls(s) /\ g \in LoginCalls(s) BY <1>4 DEF LoginCalls
  <2>2. On("OnRead", s) \in Calls(t) /\ On("OnRead", s) \in Calls(u) BY <2>1 DEF Chain
  <2> QED BY <2>2 DEF Chain
<1>5. t = u BY <1>2, <1>3, <1>4
<1>6. Level(f) = Level(g) BY Levels DEF LevelOf
<1> QED BY <1>5, <1>6, OneOfALevel

LEMMA UnsaidThread ==
  ASSUME Base, Carried, Chain, Unsent, Sends, Once, Unsaid, NEW t \in Worker, ThreadView(t),
         NEW u \in Worker, NEW s \in Player, NEW m \in Msg
  PROVE  /\ On("SetPlayerId", s) \in Calls(u)' => ~ Sent(s, Answer(s))'
         /\ Posting(u, s, m)' =>
              /\ ~ Sent(s, m)'
              /\ m \in Chats => \E d \in SUBSET Player : Loop(m, d) \in Calls(u)' /\ s \notin d
         /\ \A d \in SUBSET Player : Loop(m, d) \in Calls(u)' /\ s \in d => ~ Sent(s, m)'
         /\ Sent(s, m)' => m \in Chats \/ m = Answer(s)
<1> USE DEF Base
<1>1. Gains(t) BY GainsLemma
<1>2. Loses(t) BY LosesLemma
<1>3. Answer(s) \in Msg /\ Answer(s) \notin Chats BY AnswerIs
<1>4. ASSUME On("SetPlayerId", s) \in Calls(u)' PROVE ~ Sent(s, Answer(s))'
  <2>1. ~ Sent(s, Answer(s))
    <3>1. CASE On("SetPlayerId", s) \in Calls(u) BY <3>1 DEF Unsaid
    <3>2. CASE On("SetPlayerId", s) \notin Calls(u)
      <4>1. u = t /\ LoginView(t, s) BY <1>1, <1>4, <3>2, NewOn DEF MadeOn
      <4> QED BY <1>4, <3>2, <4>1, LoginQuiet
    <3> QED BY <3>1, <3>2
  <2>2. ASSUME PostLockView(t, s, Answer(s)) PROVE FALSE
    <3>1. Packet("PostSendLock", s, Answer(s)) \in Calls(t) BY <1>3, <2>2, PostCalls
    <3>2. On("SetPlayerId", s) \in Calls(u)
      <4>1. On("SetPlayerId", s) \in Calls(u) \cup {On("Disconnect", s), On("FlushFailed", s)}
        BY <1>3, <1>4, <2>2, PostCalls
      <4> QED BY <4>1, Apart
    <3>3. On("OnRead", s) \in Calls(t) /\ On("OnRead", s) \in Calls(u)
      BY <3>1, <3>2 DEF Chain, LoginCalls
    <3>4. u = t BY <3>3 DEF Chain
    <3>5. On("SetPlayerId", s).at \in Leaf BY Ats DEF Leaf
    <3>6. Tops(t, Packet("PostSendLock", s, Answer(s))) BY <2>2 DEF PostLockView
    <3>7. On("SetPlayerId", s) = Packet("PostSendLock", s, Answer(s))
      BY <3>2, <3>4, <3>5, <3>6, LeafRuns
    <3> QED BY <3>7, Apart
  <2> QED BY <1>3, <2>1, <2>2, SentNew
<1>5. ASSUME NEW v \in Worker, Posting(v, s, m), m \in Chats
      PROVE  \E d \in SUBSET Player : Loop(m, d) \in Calls(v)' /\ s \notin d
  <2>1. PICK d \in SUBSET Player : Loop(m, d) \in Calls(v) /\ s \notin d BY <1>5 DEF Unsaid
  <2>2. PICK f \in Calls(v) : f = Packet("PostSend", s, m) \/ f = Packet("PostSendLock", s, m)
    BY <1>5 DEF Posting
  <2>3. Level(f) < Level(Loop(m, d)) BY <2>2, Levels DEF LevelOf
  <2>4. Loop(m, d) \in Calls(v)' BY <1>2, <2>1, <2>3, Deeper
  <2> QED BY <2>1, <2>4
<1>6. ASSUME Posting(u, s, m)', ~ Posting(u, s, m)
      PROVE  /\ ~ Sent(s, m)
             /\ m \in Chats => \E d \in SUBSET Player : Loop(m, d) \in Calls(u)' /\ s \notin d
  <2>1. CASE Packet("PostSendLock", s, m) \in Calls(u)'
    <3>1. Packet("PostSendLock", s, m) \notin Calls(u) BY <1>6 DEF Posting
    <3>2. u = t /\ PostView(t, s, m) BY <1>1, <2>1, <3>1, NewPacket DEF MadePacket
    <3> QED BY <1>6, <3>2 DEF PostView, Tops, Posting
  <2>2. CASE Packet("PostSend", s, m) \in Calls(u)'
    <3>1. Packet("PostSend", s, m) \notin Calls(u) BY <1>6 DEF Posting
    <3>2. u = t /\ MadePacket(t, "PostSend", s, m) BY <1>1, <2>2, <3>1, NewPacket
    <3>3. CASE m = Answer(s) /\ SetIdView(t, s)
      BY <3>3, <1>3 DEF SetIdView, Tops, Unsaid
    <3>4. ASSUME NEW d \in SUBSET Player, LoopView(t, m, d)
          PROVE  /\ ~ Sent(s, m)
                 /\ \E e \in SUBSET Player : Loop(m, e) \in Calls(u)' /\ s \notin e
      <4>1. s \in d /\ Loop(m, d) \in Calls(t) /\ Loop(m, d \ {s}) \in Calls(t)'
        BY <2>2, <3>1, <3>2, <3>4, LoopPosts
      <4>2. d \ {s} \in SUBSET Player /\ s \notin d \ {s} OBVIOUS
      <4> QED BY <3>2, <4>1, <4>2 DEF Unsaid
    <3> QED BY <3>2, <3>3, <3>4 DEF MadePacket
  <2> QED BY <1>6, <2>1, <2>2 DEF Posting
<1>7. ASSUME Posting(u, s, m)' PROVE ~ Sent(s, m)'
  <2>1. ~ Sent(s, m) BY <1>6, <1>7 DEF Unsaid
  <2>2. ASSUME PostLockView(t, s, m) PROVE FALSE
    <3>1. PICK f : /\ f \in {Packet("PostSend", s, m), Packet("PostSendLock", s, m)}
                   /\ f \in Calls(u)'
      BY <1>7 DEF Posting
    <3>2. /\ Packet("PostSendLock", s, m) \in Calls(t)
          /\ Packet("PostSendLock", s, m) \notin Calls(t)'
          /\ f \in Calls(u) \cup {On("Disconnect", s), On("FlushFailed", s)}
      BY <2>2, <3>1, PostCalls
    <3>3. f \in Calls(u) BY <3>1, <3>2, Apart
    <3>4. u = t /\ f = Packet("PostSendLock", s, m)
      BY <3>1, <3>2, <3>3, PostingOne
    <3> QED BY <3>1, <3>2, <3>4
  <2> QED BY <2>1, <2>2, SentNew
<1>8. ASSUME NEW d \in SUBSET Player, Loop(m, d) \in Calls(u)', s \in d PROVE ~ Sent(s, m)'
  <2>1. ~ Sent(s, m)
    <3>1. CASE Loop(m, d) \in Calls(u) BY <1>8, <3>1 DEF Unsaid
    <3>2. CASE Loop(m, d) \notin Calls(u)
      <4>1. PICK v \in Player : MadeLoop(t, v, m, d) BY <1>1, <1>8, <3>2, NewLoop
      <4>2. CASE BroadcastView(t, v, m)
        <5>1. Packet("BroadcastMessage", v, m) \in Calls(t) BY <4>2 DEF BroadcastView, Tops
        <5>2. m \in Chats /\ v = m.from BY <5>1 DEF Carried
        <5>3. Held(t, m) BY <5>1, <5>2 DEF Held
        <5> QED BY <5>2, <5>3 DEF Once
      <4>3. CASE \E e \in SUBSET Player : LoopView(t, m, e) /\ d = e \ {v}
        <5>1. PICK e \in SUBSET Player : Loop(m, e) \in Calls(t) /\ d = e \ {v}
          BY <4>3 DEF LoopView, Tops
        <5> QED BY <5>1, <1>8 DEF Unsaid
      <4> QED BY <4>1, <4>2, <4>3 DEF MadeLoop
    <3> QED BY <3>1, <3>2
  <2>2. ASSUME PostLockView(t, s, m) PROVE FALSE
    <3>1. Packet("PostSendLock", s, m) \in Calls(t) BY <2>2, PostCalls
    <3>2. Loop(m, d) \in Calls(u)
      <4>1. Loop(m, d) \in Calls(u) \cup {On("Disconnect", s), On("FlushFailed", s)}
        BY <1>8, <2>2, PostCalls
      <4> QED BY <4>1, Apart
    <3>3. m \in Chats BY <3>2 DEF Carried
    <3>4. PICK e \in SUBSET Player : Loop(m, e) \in Calls(t) /\ s \notin e
      BY <3>1, <3>3 DEF Unsaid, Posting
    <3>5. d = e BY <3>2, <3>4, SpreadOne
    <3> QED BY <1>8, <3>4, <3>5
  <2> QED BY <2>1, <2>2, SentNew
<1>9. ASSUME Sent(s, m)' PROVE m \in Chats \/ m = Answer(s)
  <2>1. CASE Sent(s, m) BY <2>1 DEF Unsaid
  <2>2. CASE ~ Sent(s, m)
    <3>1. PostLockView(t, s, m) BY <1>9, <2>2, SentNew
    <3>2. Packet("PostSendLock", s, m) \in Calls(t) BY <3>1, PostCalls
    <3> QED BY <3>2 DEF Carried
  <2> QED BY <2>1, <2>2
<1>10. Posting(u, s, m)' /\ m \in Chats =>
         \E d \in SUBSET Player : Loop(m, d) \in Calls(u)' /\ s \notin d
  BY <1>5, <1>6
<1> QED BY <1>4, <1>7, <1>8, <1>9, <1>10

(* The steps of the others.                                                *)
LEMMA RequestWaits ==
  ASSUME Types, NEW s \in Player, NEW r \in Msg, Request(s, r), NEW m \in Chats, Waits(m)'
  PROVE  Waits(m) \/ m = r
<1>1. m.from \in Player /\ inbox \in [Player -> Seq(Msg)] BY ChatIs DEF Types
<1>2. CASE m.from # s
  <2>1. inbox'[m.from] = inbox[m.from] BY <1>1, <1>2 DEF Request, Set
  <2> QED BY <2>1 DEF Waits
<1>3. CASE m.from = s
  <2>1. inbox'[m.from] = Append(inbox[m.from], r) BY <1>1, <1>3 DEF Request, Set
  <2>2. Frames(Append(inbox[m.from], r)) = Frames(inbox[m.from]) \cup {r}
    BY <1>1, AppendFrames
  <2> QED BY <2>1, <2>2 DEF Waits
<1> QED BY <1>2, <1>3

(* The requests the clients make: the n-th chat request bears number n.    *)
ChatAsked(k) ==
  /\ k = chats /\ chats' = k + 1 /\ k < MaxChats
  /\ \E r \in Chats : r.n = k + 1 /\ \A m \in Chats : Waits(m)' => Waits(m) \/ m = r

LEMMA OthersAsk ==
  ASSUME Types, SdkView \/ OutsideView \/ (UNCHANGED vars /\ Still)
  PROVE  \/ chats' = chats /\ \A m \in Chats : Waits(m)' => Waits(m)
         \/ \E k \in Nat : ChatAsked(k)
<1>1. ASSUME NEW s \in Player, PlayTest(s) PROVE \E k \in Nat : ChatAsked(k)
  <2>1. PICK k \in Nat : k = chats /\ chats' = k + 1 /\ k < MaxChats
    BY <1>1 DEF PlayTest, Types
  <2>2. PICK r : r = Message("chat", s, k + 1) OBVIOUS
  <2>3. r \in Msg /\ r \in Chats /\ r.n = k + 1 BY <2>2 DEF Message, Msg, Chats
  <2>4. Request(s, r) BY <1>1, <2>1, <2>2 DEF PlayTest
  <2>5. \A m \in Chats : Waits(m)' => Waits(m) \/ m = r BY <2>3, <2>4, RequestWaits
  <2> QED BY <2>1, <2>3, <2>5 DEF ChatAsked
<1>2. ASSUME NEW s \in Player, StartTest(s) \/ EndTest(s)
      PROVE  chats' = chats /\ \A m \in Chats : Waits(m)' => Waits(m)
  <2>1. PICK r : /\ r = Message("login", s, 0) \/ r = Message("exit", s, 0)
                 /\ Request(s, r) /\ chats' = chats
    BY <1>2 DEF StartTest, EndTest
  <2>2. r \in Msg /\ r \notin Chats
    <3>1. 0 \in Nat OBVIOUS
    <3> QED BY <2>1, <3>1 DEF Message, Msg, Chats
  <2> QED BY <2>1, <2>2, RequestWaits
<1>3. CASE UNCHANGED <<inbox, chats>> BY <1>3 DEF Waits
<1>4. SdkView \/ UNCHANGED vars => UNCHANGED <<inbox, chats>>
  BY DEF SdkView, CallStartView, CallTerminateView, StartGameView, CreateView,
         TerminateView, vars, world
<1>5. OutsideView => \/ UNCHANGED <<inbox, chats>>
                     \/ \E s \in Player : PlayTest(s) \/ StartTest(s) \/ EndTest(s)
  BY DEF OutsideView, Outsider, InitializeGameLift, OnConnect, KernelSend, ClientStep,
         Reserve, HangUp, world
<1> QED BY <1>1, <1>2, <1>3, <1>4, <1>5

LEMMA OnceOthers ==
  ASSUME Types, Fits, Once, SdkView \/ OutsideView \/ (UNCHANGED vars /\ Still)
  PROVE  Once'
<1>1. Still BY DEF SdkView, OutsideView
<1>2. \A s \in Player, m \in Msg : Sent(s, m)' => Sent(s, m)
  <2>1. \A v \in Player : Shrinks(v) BY OthersShrink
  <2> QED BY <2>1 DEF Shrinks
<1>3. \A t \in Worker, m \in Msg : Held(t, m)' = Held(t, m) /\ Spread(t, m)' = Spread(t, m)
  BY <1>1 DEF Still, Held, Spread
<1>4. ASSUME chats' = chats, \A m \in Chats : Waits(m)' => Waits(m) PROVE Once'
  <2> SUFFICES ASSUME NEW m \in Chats
      PROVE  /\ Waits(m)' => \A t \in Worker, s \in Player :
                               ~ Held(t, m)' /\ ~ Spread(t, m)' /\ ~ Sent(s, m)'
             /\ \A t \in Worker : Held(t, m)' =>
                  /\ \A u \in Worker : ~ Spread(u, m)' /\ (Held(u, m)' => u = t)
                  /\ \A s \in Player : ~ Sent(s, m)'
             /\ \A t \in Worker, s \in Player :
                  Held(t, m)' \/ Spread(t, m)' \/ Sent(s, m)' => m.n \in 1 .. chats'
    BY DEF Once
  <2>1. m \in Msg BY ChatIs
  <2>2. Waits(m)' => \A t \in Worker, s \in Player :
                       ~ Held(t, m)' /\ ~ Spread(t, m)' /\ ~ Sent(s, m)'
    BY <1>2, <1>3, <1>4, <2>1 DEF Once
  <2>3. \A t \in Worker : Held(t, m)' =>
          /\ \A u \in Worker : ~ Spread(u, m)' /\ (Held(u, m)' => u = t)
          /\ \A s \in Player : ~ Sent(s, m)'
    BY <1>2, <1>3, <2>1 DEF Once
  <2>4. \A t \in Worker, s \in Player :
          Held(t, m)' \/ Spread(t, m)' \/ Sent(s, m)' => m.n \in 1 .. chats'
    BY <1>2, <1>3, <1>4, <2>1 DEF Once
  <2> QED BY <2>2, <2>3, <2>4
<1>5. ASSUME NEW k \in Nat, ChatAsked(k) PROVE Once'
  <2>1. k = chats /\ chats' = k + 1 BY <1>5 DEF ChatAsked
  <2>2. PICK r \in Chats : r.n = k + 1 /\ \A m \in Chats : Waits(m)' => Waits(m) \/ m = r
    BY <1>5 DEF ChatAsked
  <2>5. \A x : x \in 1 .. k => x \in 1 .. (k + 1) BY <2>1
  <2>6. k + 1 \notin 1 .. k BY <2>1
  <2> SUFFICES ASSUME NEW m \in Chats
      PROVE  /\ Waits(m)' => \A t \in Worker, v \in Player :
                               ~ Held(t, m)' /\ ~ Spread(t, m)' /\ ~ Sent(v, m)'
             /\ \A t \in Worker : Held(t, m)' =>
                  /\ \A u \in Worker : ~ Spread(u, m)' /\ (Held(u, m)' => u = t)
                  /\ \A v \in Player : ~ Sent(v, m)'
             /\ \A t \in Worker, v \in Player :
                  Held(t, m)' \/ Spread(t, m)' \/ Sent(v, m)' => m.n \in 1 .. chats'
    BY DEF Once
  <2>7. m \in Msg BY ChatIs
  <2>8. ASSUME Waits(m)', NEW t \in Worker, NEW v \in Player
        PROVE  ~ Held(t, m) /\ ~ Spread(t, m) /\ ~ Sent(v, m)
    <3>1. Waits(m) \/ m = r BY <2>2, <2>8
    <3>2. CASE m = r
      <4>1. m.n \notin 1 .. chats BY <3>2, <2>1, <2>2, <2>6
      <4> QED BY <4>1 DEF Once
    <3> QED BY <3>1, <3>2 DEF Once
  <2>9. \A t \in Worker : Held(t, m)' =>
          /\ \A u \in Worker : ~ Spread(u, m)' /\ (Held(u, m)' => u = t)
          /\ \A v \in Player : ~ Sent(v, m)'
    BY <1>2, <1>3, <2>7 DEF Once
  <2>10. \A t \in Worker, v \in Player :
          Held(t, m)' \/ Spread(t, m)' \/ Sent(v, m)' => m.n \in 1 .. chats
    BY <1>2, <1>3, <2>7 DEF Once
  <2>11. \A x : x \in 1 .. chats => x \in 1 .. chats' BY <2>1, <2>5
  <2>12. Waits(m)' => \A t \in Worker, v \in Player :
                       ~ Held(t, m)' /\ ~ Spread(t, m)' /\ ~ Sent(v, m)'
    BY <1>2, <1>3, <2>7, <2>8
  <2> QED BY <2>9, <2>10, <2>11, <2>12
<1> QED BY <1>4, <1>5, OthersAsk

LEMMA UnsaidOthers ==
  ASSUME Types, Fits, Unsaid, SdkView \/ OutsideView \/ (UNCHANGED vars /\ Still)
  PROVE  Unsaid'
<1>1. Still BY DEF SdkView, OutsideView
<1>2. \A s \in Player, m \in Msg : Sent(s, m)' => Sent(s, m)
  <2>1. \A v \in Player : Shrinks(v) BY OthersShrink
  <2> QED BY <2>1 DEF Shrinks
<1>3. \A t \in Worker, s \in Player, m \in Msg : Posting(t, s, m)' = Posting(t, s, m)
  BY <1>1 DEF Still, Posting
<1> SUFFICES ASSUME NEW t \in Worker, NEW s \in Player, NEW m \in Msg
    PROVE  /\ On("SetPlayerId", s) \in Calls(t)' => ~ Sent(s, Answer(s))'
           /\ Posting(t, s, m)' =>
                /\ ~ Sent(s, m)'
                /\ m \in Chats => \E d \in SUBSET Player : Loop(m, d) \in Calls(t)' /\ s \notin d
           /\ \A d \in SUBSET Player : Loop(m, d) \in Calls(t)' /\ s \in d => ~ Sent(s, m)'
           /\ Sent(s, m)' => m \in Chats \/ m = Answer(s)
  <2>1. \A v \in Player : Answer(v) \in Msg BY AnswerIs
  <2> QED BY <2>1 DEF Unsaid
<1>4. Answer(s) \in Msg BY AnswerIs
<1>5. Calls(t)' = Calls(t) BY <1>1 DEF Still
<1>6. On("SetPlayerId", s) \in Calls(t)' => ~ Sent(s, Answer(s))'
  BY <1>2, <1>4, <1>5 DEF Unsaid
<1>7. Posting(t, s, m)' =>
        /\ ~ Sent(s, m)'
        /\ m \in Chats => \E d \in SUBSET Player : Loop(m, d) \in Calls(t)' /\ s \notin d
  BY <1>2, <1>3, <1>5 DEF Unsaid
<1>8. \A d \in SUBSET Player : Loop(m, d) \in Calls(t)' /\ s \in d => ~ Sent(s, m)'
  BY <1>2, <1>5 DEF Unsaid
<1>9. Sent(s, m)' => m \in Chats \/ m = Answer(s) BY <1>2 DEF Unsaid
<1> QED BY <1>6, <1>7, <1>8, <1>9

LEMMA OnceStep ==
  ASSUME Base, Carried, Chain, Unsent, Sends, Once, Unsaid, StepView
  PROVE  Once' /\ Unsaid'
<1>1. ASSUME NEW t \in Worker, ThreadView(t) PROVE Once' /\ Unsaid'
  <2>1. Once' BY <1>1, OnceThread DEF Once
  <2>2. \A u \in Worker, s \in Player, m \in Msg :
          /\ On("SetPlayerId", s) \in Calls(u)' => ~ Sent(s, Answer(s))'
          /\ Posting(u, s, m)' =>
               /\ ~ Sent(s, m)'
               /\ m \in Chats => \E d \in SUBSET Player : Loop(m, d) \in Calls(u)' /\ s \notin d
          /\ \A d \in SUBSET Player : Loop(m, d) \in Calls(u)' /\ s \in d => ~ Sent(s, m)'
          /\ Sent(s, m)' => m \in Chats \/ m = Answer(s)
    BY <1>1, UnsaidThread
  <2>3. Unsaid'
    <3>1. \A u \in Worker, s \in Player :
            On("SetPlayerId", s) \in Calls(u)' => ~ Sent(s, Answer(s))'
      BY <2>2, AnswerIs
    <3> QED BY <2>2, <3>1 DEF Unsaid
  <2> QED BY <2>1, <2>3
<1>2. CASE SdkView \/ OutsideView \/ (UNCHANGED vars /\ Still)
  BY <1>2, OnceOthers, UnsaidOthers DEF Base
<1> QED BY <1>1, <1>2 DEF StepView

-----------------------------------------------------------------------------
(* The order of the broadcasts.                                            *)

(* No two players are posted two packets in opposite orders, and of a      *)
(* broadcast that goes on nothing but a login's answer can come later.     *)
Ordered ==
  \A s, u \in Player, x, y \in Msg : Before(s, x, y) => ~ Before(u, y, x)
Latest ==
  \A t \in Worker, s \in Player, m, y \in Msg :
    Spread(t, m) /\ Before(s, m, y) => y = Answer(s)

LEMMA OrderedThread ==
  ASSUME Base, Carried, Sends, Unsaid, Ordered, Latest, NEW t \in Worker, ThreadView(t)
  PROVE  Ordered'
<1> USE DEF Base
<1>1. CASE \A v \in Player : Shrinks(v) BY <1>1 DEF Shrinks, Ordered
<1>2. ASSUME NEW s \in Player, NEW m \in Msg, PostLockView(t, s, m), Adds(s, m),
             \A v \in Player \ {s} : Shrinks(v)
      PROVE  Ordered'
  <2>0. Packet("PostSendLock", s, m) \in Calls(t) BY <1>2, PostCalls
  <2>1. ~ Sent(s, m) BY <2>0 DEF Unsaid, Posting
  <2>2. m \in Chats \/ m = Answer(s) BY <2>0 DEF Carried
  <2>3. ASSUME NEW v \in Player, NEW x \in Msg, NEW y \in Msg, Before(v, x, y)'
        PROVE  Before(v, x, y) \/ (v = s /\ y = m /\ Sent(s, x))
    BY <1>2, <2>3 DEF Adds, Shrinks
  <2>4. ASSUME NEW x \in Msg, Sent(s, x), NEW u \in Player, Before(u, m, x)' PROVE FALSE
    <3>1. x # m BY <2>1, <2>4
    <3>2. Before(u, m, x) BY <2>3, <2>4, <3>1
    <3>3. Sent(u, m) BY <3>2, PostedIs
    <3>4. u # s BY <2>1, <3>3
    <3>5. m # Answer(s)
      <4>1. m \in Chats \/ m = Answer(u) BY <3>3 DEF Unsaid
      <4> QED BY <4>1, <3>4, AnswerIs
    <3>6. m \in Chats BY <2>2, <3>5
    <3>7. Spread(t, m) BY <2>0, <3>6 DEF Unsaid, Posting, Spread
    <3>8. x = Answer(u) BY <3>2, <3>7 DEF Latest
    <3>9. x \in Chats \/ x = Answer(s) BY <2>4 DEF Unsaid
    <3> QED BY <3>4, <3>8, <3>9, AnswerIs
  <2>5. ASSUME NEW v \in Player, NEW u \in Player, NEW x \in Msg, NEW y \in Msg,
               Before(v, x, y)', Before(u, y, x)'
        PROVE  FALSE
    <3>1. Before(v, x, y) \/ (v = s /\ y = m /\ Sent(s, x)) BY <2>3, <2>5
    <3>2. Before(u, y, x) \/ (u = s /\ x = m /\ Sent(s, y)) BY <2>3, <2>5
    <3>3. ~ (y = m /\ Sent(s, x)) BY <2>4, <2>5
    <3>4. ~ (x = m /\ Sent(s, y)) BY <2>4, <2>5
    <3> QED BY <3>1, <3>2, <3>3, <3>4 DEF Ordered
  <2> QED BY <2>5 DEF Ordered
<1> QED BY <1>1, <1>2, ThreadShrinks

LEMMA LatestThread ==
  ASSUME Base, Carried, Sends, Once, Unsaid, Latest, NEW t \in Worker, ThreadView(t)
  PROVE  Latest'
<1> USE DEF Base
<1> SUFFICES ASSUME NEW u \in Worker, NEW s \in Player, NEW x \in Msg, NEW y \in Msg,
                    Spread(u, x)', Before(s, x, y)'
             PROVE  y = Answer(s)
  BY DEF Latest
<1>1. CASE Before(s, x, y)
  <2>1. Sent(s, x) BY <1>1, PostedIs
  <2>2. Spread(u, x)
    <3> SUFFICES ASSUME ~ Spread(u, x) PROVE FALSE OBVIOUS
    <3>1. x \in Chats /\ Held(t, x) BY SpreadNew
    <3> QED BY <2>1, <3>1 DEF Once
  <2> QED BY <1>1, <2>2 DEF Latest
<1>2. CASE ~ Before(s, x, y)
  <2>1. ~ Shrinks(s) BY <1>2 DEF Shrinks
  <2>2. PICK v \in Player, m \in Msg :
          PostLockView(t, v, m) /\ Adds(v, m) /\ \A w \in Player \ {v} : Shrinks(w)
    BY <2>1, ThreadShrinks
  <2>3. s = v /\ y = m /\ Sent(s, x) BY <1>2, <2>1, <2>2 DEF Adds
  <2>4. /\ Packet("PostSendLock", s, m) \in Calls(t)
        /\ \A w \in Worker : Calls(w)' \subseteq Calls(w) \cup {On("Disconnect", s), On("FlushFailed", s)}
    BY <2>2, <2>3, PostCalls
  <2>5. ~ Sent(s, m) BY <2>4 DEF Unsaid, Posting
  <2>6. ASSUME m \in Chats PROVE FALSE
    <3>1. PICK d \in SUBSET Player : Loop(m, d) \in Calls(t)
      BY <2>4, <2>6 DEF Unsaid, Posting
    <3>2. PICK e \in SUBSET Player : Loop(x, e) \in Calls(u)' BY DEF Spread
    <3>3. Loop(x, e) \in Calls(u)
      <4>1. Loop(x, e) \in Calls(u) \cup {On("Disconnect", s), On("FlushFailed", s)}
        BY <2>4, <3>2
      <4> QED BY <4>1, Apart
    <3>4. x = m BY <3>1, <3>3, SpreadOne
    <3> QED BY <2>3, <2>5, <3>4
  <2> QED BY <2>3, <2>4, <2>6 DEF Carried
<1> QED BY <1>1, <1>2

LEMMA OrderStep ==
  ASSUME Base, Carried, Sends, Once, Unsaid, Ordered, Latest, StepView
  PROVE  Ordered' /\ Latest'
<1>1. CASE SdkView \/ OutsideView \/ (UNCHANGED vars /\ Still)
  <2>1. \A v \in Player : Shrinks(v) BY <1>1, OthersShrink DEF Base
  <2>2. \A t \in Worker, m \in Msg : Spread(t, m)' = Spread(t, m)
    BY <1>1 DEF SdkView, OutsideView, Still, Spread
  <2>3. Ordered' BY <2>1 DEF Shrinks, Ordered
  <2>4. Latest' BY <2>1, <2>2 DEF Shrinks, Latest
  <2> QED BY <2>3, <2>4
<1> QED BY <1>1, OrderedThread, LatestThread DEF StepView

-----------------------------------------------------------------------------
(* Any two clients see broadcasts in the same order.                       *)

Delivery ==
  /\ Base /\ Roster /\ Carried /\ Chain /\ Unsent /\ Sends /\ Once /\ Unsaid
  /\ Ordered /\ Latest

LEMMA InitCalls == Init => \A t \in Worker : Calls(t) = {}
  BY FramesNone DEF Init, Calls, Thread

LEMMA InitDelivery == Init => Delivery
<1> SUFFICES ASSUME Init PROVE Delivery OBVIOUS
<1>1. Base /\ Roster BY InitBase, InitRoster
<1>2. \A t \in Worker : Calls(t) = {} BY InitCalls
<1>3. \A s \in Player : /\ inbox[s] = <<>> /\ outbox[s] = <<>> /\ got[s] = <<>>
                        /\ send[s] = "none" /\ recv[s] = "off"
  BY DEF Init
<1>4. \A s \in Player : \A m : ~ Sent(s, m) BY <1>3, FramesNone DEF Sent
<1>5. \A m \in Chats : ~ Waits(m) BY <1>3, FramesNone, ChatIs DEF Waits
<1>6. \A s \in Player : \A x, y : ~ Before(s, x, y)
  <2>1. Types /\ Fits BY <1>1 DEF Base
  <2> QED BY <2>1, <1>4, PostedIs
<1>7. Carried /\ Sends BY <1>2 DEF Carried, Sends
<1>8. Chain BY <1>2, <1>3 DEF Chain
<1>9. Unsent BY <1>2, <1>3 DEF Unsent, Quiet
<1>10. Once BY <1>2, <1>4, <1>5 DEF Once, Held, Spread
<1>11. Unsaid BY <1>2, <1>4 DEF Unsaid, Posting
<1>12. Ordered /\ Latest BY <1>6 DEF Ordered, Latest
<1> QED BY <1>1, <1>7, <1>8, <1>9, <1>10, <1>11, <1>12 DEF Delivery

LEMMA StepDelivery == Delivery /\ [Next]_vars => Delivery'
<1> SUFFICES ASSUME Delivery, [Next]_vars PROVE Delivery' OBVIOUS
<1>1. Base /\ Roster /\ Carried /\ Chain /\ Unsent /\ Sends /\ Once /\ Unsaid /\ Ordered /\ Latest
  BY DEF Delivery
<1>2. Types /\ Stacks /\ Requests BY <1>1 DEF Base
<1>3. StepView BY <1>1, StepViews
<1>4. Base' BY <1>1, StepBase
<1>5. Roster' BY <1>1, <1>3, RosterStep
<1>6. Carried' BY <1>1, <1>2, <1>3, CarriedStep
<1>7. Chain' BY <1>1, <1>2, <1>3, ChainStep
<1>8. Unsent' BY <1>1, <1>3, UnsentStep
<1>9. Sends' BY <1>1, <1>2, <1>3, SendsStep
<1>10. Once' /\ Unsaid' BY <1>1, <1>3, OnceStep
<1>11. Ordered' /\ Latest' BY <1>1, <1>3, OrderStep
<1> QED BY <1>4, <1>5, <1>6, <1>7, <1>8, <1>9, <1>10, <1>11 DEF Delivery

(* Two packets received by one client were posted to it in that order.     *)
LEMMA GotBefore ==
  ASSUME Types, Fits, NEW s \in Player, NEW i \in 1 .. Len(got[s]), NEW j \in 1 .. Len(got[s]),
         i < j
  PROVE  Before(s, got[s][i], got[s][j]) /\ got[s][i] \in Msg /\ got[s][j] \in Msg
<1>1. got[s] \in Seq(Msg) /\ Rest(s) \in Seq(Msg) BY PostedIs
<1>2. Precedes(got[s], got[s][i], got[s][j]) BY DEF Precedes
<1>3. Precedes(got[s] \o Rest(s), got[s][i], got[s][j]) BY <1>1, <1>2, PrecedesJoin
<1> QED BY <1>1, <1>3 DEF Before, Posted

(* However the I/O threads, the completions of the sends and the kernel    *)
(* interleave, mLock, held over a broadcast, and the single pending send   *)
(* of a session keep the broadcasts in one order for all clients: packets  *)
(* that a full buffer or a broken connection loses leave gaps, never a     *)
(* swap.  So no client ever sees two packets in the order opposite to what *)
(* another one, or it itself, saw.                                         *)
THEOREM ClientsAgree == Spec => []SameOrder
<1>1. Delivery => SameOrder
  <2> SUFFICES ASSUME Types, Fits, Ordered, NEW s \in Player, NEW u \in Player,
                      NEW i \in 1 .. Len(got[s]), NEW j \in 1 .. Len(got[s]),
                      NEW k \in 1 .. Len(got[u]), NEW l \in 1 .. Len(got[u]),
                      i < j, got[s][i] = got[u][k], got[s][j] = got[u][l]
               PROVE  k < l
    BY DEF SameOrder, Delivery, Base
  <2>1. PICK x \in Msg, y \in Msg : x = got[s][i] /\ y = got[s][j] /\ Before(s, x, y)
    BY GotBefore
  <2>2. ~ Before(u, y, x) BY <2>1 DEF Ordered
  <2>3. ~ (l < k)
    <3> SUFFICES ASSUME l < k PROVE FALSE OBVIOUS
    <3>1. Before(u, got[u][l], got[u][k]) BY GotBefore
    <3> QED BY <2>1, <2>2, <3>1
  <2>4. k # l
    <3> SUFFICES ASSUME k = l PROVE FALSE OBVIOUS
    <3>1. Before(s, x, x) BY <2>1
    <3> QED BY <3>1 DEF Ordered
  <2> QED BY <2>3, <2>4
<1> QED BY <1>1, InitDelivery, StepDelivery, PTL DEF Spec

-----------------------------------------------------------------------------
(* Before a player has entered: nobody disconnects it, and its login, if   *)
(* it has asked for one, is on its way.                                    *)

Partings == {"RemovePlayerSession", "ClearPlayerId", "Disconnect", "OnDisconnect",
             "closesocket", "FlushFailed", "BroadcastResult"}
Login(s) == Message("login", s, 0)

Early(s) == \A t \in Worker, at \in Partings : On(at, s) \notin Calls(t)
Outside(s) ==
  /\ Early(s)
  /\ client[s] = "out" => inbox[s] = <<>>
  /\ client[s] # "out" => service[s] = "reserved" /\ mConnected[s] /\ socketOpen[s]
  /\ client[s] = "connected" => recv[s] = "posted" /\ inbox[s] = <<>>
  /\ client[s] \notin {"out", "connected"} =>
       \/ recv[s] = "posted" /\ inbox[s] = <<Login(s)>>
       \/ /\ recv[s] = "busy" /\ inbox[s] = <<>>
          /\ \E t \in Worker : On("PlayerLogin", s) \in Calls(t)
Doors == \A s \in Player : ~ Entered(s) => Outside(s)

LEMMA LoginIs ==
  ASSUME NEW s
  PROVE  /\ Login(s).kind = "login" /\ <<Login(s)>> # <<>>
         /\ <<Login(s)>>[1] = Login(s) /\ Tail(<<Login(s)>>) = <<>>
  BY TailOne, EmptySeq DEF Login, Message

(* While the receive of such a player is handled, its login is.            *)
LEMMA LoginPending ==
  ASSUME Chain, NEW s \in Player, Outside(s), NEW t \in Worker, On("PreRecv", s) \in Calls(t)
  PROVE  On("PlayerLogin", s) \in Calls(t)
<1>1. recv[s] = "busy" /\ client[s] \notin {"out", "connected"} BY DEF Chain, Outside
<1>2. PICK u \in Worker : On("PlayerLogin", s) \in Calls(u) BY <1>1 DEF Outside
<1>3. On("PreRecv", s) \in Calls(u) BY <1>2 DEF Chain, LoginCalls
<1>4. u = t BY <1>3 DEF Chain
<1> QED BY <1>2, <1>4

LEMMA NothingRead ==
  ASSUME Chain, NEW s \in Player, Outside(s), NEW t \in Worker
  PROVE  ~ OnReadView(t, s) /\ ~ PreRecvView(t, s)
<1>0. On("PlayerLogin", s).at \in Leaf BY Ats DEF Leaf
<1>1. ASSUME OnReadView(t, s) PROVE FALSE
  <2>1. Tops(t, On("OnRead", s)) BY <1>1 DEF OnReadView
  <2>2. On("PreRecv", s) \in Calls(t) BY <2>1 DEF Chain, Tops
  <2>3. On("PlayerLogin", s) \in Calls(t) BY <2>2, LoginPending
  <2>4. On("OnRead", s) = On("PlayerLogin", s) BY <1>0, <2>1, <2>3, LeafRuns
  <2> QED BY <2>4, Apart
<1>2. ASSUME PreRecvView(t, s) PROVE FALSE
  <2>1. Calls(t) = {On("PreRecv", s)} BY <1>2 DEF PreRecvView
  <2>2. On("PlayerLogin", s) \in Calls(t) BY <2>1, LoginPending
  <2> QED BY <2>1, <2>2, Apart
<1> QED BY <1>1, <1>2

(* Its first receive brings the login.                                     *)
LEMMA LoginReceived ==
  ASSUME Types, Chain, NEW s \in Player, Outside(s), NEW t \in Worker, RecvView(t, s)
  PROVE  /\ inbox[s] = <<Login(s)>> /\ recv'[s] = "busy" /\ inbox'[s] = <<>>
         /\ Calls(t) = {}
         /\ Calls(t)' = {On("PlayerLogin", s), On("OnRead", s), On("PreRecv", s)}
<1>1. recv[s] = "posted" BY DEF RecvView
<1>2. client[s] # "out" BY <1>1 DEF Chain
<1>3. mConnected[s] /\ socketOpen[s] BY <1>2 DEF Outside
<1>4. inbox[s] = <<>> \/ inbox[s] = <<Login(s)>> BY <1>2 DEF Outside
<1>5. inbox[s] = <<>> => client[s] = "connected" BY <1>1, <1>2 DEF Outside
<1>6. /\ inbox[s] # <<>> /\ recv' = Set(recv, s, "busy")
      /\ inbox' = Set(inbox, s, Tail(inbox[s]))
      /\ Begins(t, HandlerCalls(s, inbox[s][1]) \cup {On("OnRead", s), On("PreRecv", s)})
  BY <1>3, <1>5 DEF RecvView
<1>7. inbox[s] = <<Login(s)>> BY <1>4, <1>6
<1>8. inbox[s][1].kind = "login" /\ Tail(inbox[s]) = <<>> BY <1>7, LoginIs
<1>9. HandlerCalls(s, inbox[s][1]) = {On("PlayerLogin", s)} BY <1>8 DEF HandlerCalls
<1> QED BY <1>6, <1>7, <1>8, <1>9 DEF Types, Set, Begins

LEMMA EarlyThread ==
  ASSUME Base, Roster, Chain, Unsent, NEW t \in Worker, ThreadView(t), Gains(t),
         NEW s \in Player, ~ Entered(s)', Quiet(s), Outside(s)
  PROVE  Early(s)'
<1> USE DEF Base
<1> SUFFICES ASSUME NEW u \in Worker, NEW at \in Partings, On(at, s) \in Calls(u)' PROVE FALSE
  BY DEF Early
<1>1. \A w \in Worker, b \in Partings : On(b, s) \notin Calls(w) BY DEF Outside, Early
<1>2. u = t /\ MadeOn(t, at, s) BY <1>1, NewOn
<1>3. ~ OnReadView(t, s) /\ ~ PreRecvView(t, s) BY NothingRead
<1>4. ~ RecvView(t, s)
  <2> SUFFICES ASSUME RecvView(t, s) PROVE FALSE OBVIOUS
  <2>1. On(at, s) \in {On("PlayerLogin", s), On("OnRead", s), On("PreRecv", s)}
    BY <1>2, LoginReceived
  <2> QED BY <2>1, Apart DEF Partings
<1>5. ~ Handles(t, s, "exit") BY <1>3, <1>4 DEF Handles
<1>6. ~ LoginView(t, s)
  <2> SUFFICES ASSUME LoginView(t, s) PROVE FALSE OBVIOUS
  <2>1. On("PlayerLogin", s) \in Calls(t) BY DEF LoginView, Tops
  <2>2. On("PreRecv", s) \in Calls(t) BY <2>1 DEF Chain, LoginCalls
  <2>3. client[s] # "out" BY <2>2 DEF Chain
  <2>4. service[s] = "reserved" BY <2>3 DEF Outside
  <2>5. service' = Set(service, s, "active") BY <2>4 DEF LoginView
  <2>6. service'[s] = "active" BY <2>5 DEF Types, Set
  <2> QED BY <2>6 DEF Entered
<1>7. ~ OnDisconnectView(t, s) /\ ~ DisconnectView(t, s) /\ ~ ResultView(t, s)
  BY <1>1 DEF OnDisconnectView, DisconnectView, ResultView, Tops, Partings
<1>8. ~ CompletionView(t, s) /\ ~ SendDoneView(t, s) BY DEF CompletionView, SendDoneView, Quiet
<1>9. \A m \in Msg : ~ PostLockView(t, s, m) BY DEF PostLockView, Tops, Quiet
<1>10. ASSUME at = "BroadcastResult" PROVE FALSE
  <2>1. PICK m \in Msg, d \in SUBSET Player : LoopView(t, m, d) BY <1>2, <1>10 DEF MadeOn
  <2>2. Loop(m, d) \in Calls(t) BY <2>1 DEF LoopView, Tops
  <2>3. s \notin d BY <2>2 DEF Quiet
  <2>4. ~ Moves(t, Loop(m, d), {}) BY <1>1, <1>2, <1>10 DEF Moves
  <2>5. PICK v \in d : Moves(t, Loop(m, d), {Packet("PostSend", v, m), On("BroadcastResult", v),
                                             Loop(m, d \ {v})})
    BY <2>1, <2>4 DEF LoopView
  <2>6. On(at, s) \in {Packet("PostSend", v, m), On("BroadcastResult", v), Loop(m, d \ {v})}
    BY <1>1, <1>2, <2>5 DEF Moves
  <2> QED BY <2>3, <2>6, Apart
<1> QED BY <1>2, <1>3, <1>4, <1>5, <1>6, <1>7, <1>8, <1>9, <1>10 DEF MadeOn, Partings

(* Before the player has entered, no thread touches the rest either.       *)
LEMMA OutsideKept ==
  ASSUME Base, Roster, Chain, Unsent, NEW t \in Worker, ThreadView(t),
         NEW s \in Player, ~ Entered(s)', Quiet(s), Outside(s)
  PROVE  /\ client' = client /\ service'[s] = service[s]
         /\ mConnected'[s] = mConnected[s] /\ socketOpen'[s] = socketOpen[s]
         /\ RecvView(t, s) \/ (recv'[s] = recv[s] /\ inbox'[s] = inbox[s])
<1> USE DEF Base
<1>1. Footprint(t) BY Footprints
<1>2. \A at \in Partings : On(at, s) \notin Calls(t) BY DEF Outside, Early
<1>3. /\ recv \in [Player -> {"off", "posted", "busy"}] /\ inbox \in [Player -> Seq(Msg)]
      /\ mConnected \in [Player -> BOOLEAN] /\ socketOpen \in [Player -> BOOLEAN]
      /\ service \in [Player -> Phases]
  BY DEF Types
<1>4. ASSUME NEW v \in Player, DisconnectView(t, v) PROVE mConnected'[s] = mConnected[s]
  <2>1. v # s BY <1>2, <1>4 DEF DisconnectView, Tops, Partings
  <2> QED BY <2>1, <1>3, <1>4 DEF DisconnectView, Set
<1>5. ASSUME NEW v \in Player, CloseView(t, v) PROVE socketOpen'[s] = socketOpen[s]
  <2>1. v # s BY <1>2, <1>5 DEF CloseView, Tops, Partings
  <2> QED BY <2>1, <1>3, <1>5 DEF CloseView, Set
<1>6. ASSUME NEW v \in Player, LoginView(t, v) \/ RemoveView(t, v) PROVE service'[s] = service[s]
  <2>1. \/ service' = service \/ service' = Set(service, v, "active")
        \/ service' = Set(service, v, "completed")
    BY <1>6 DEF LoginView, RemoveView
  <2> QED BY <2>1, <1>3 DEF Set, Entered
<1>7. \A v \in Player : OnReadView(t, v) \/ PreRecvView(t, v) => v # s BY NothingRead
<1>8. ASSUME ~ RecvView(t, s) PROVE recv'[s] = recv[s] /\ inbox'[s] = inbox[s]
  <2>1. ASSUME NEW v \in Player, RecvView(t, v) \/ OnReadView(t, v) \/ PreRecvView(t, v)
        PROVE  recv'[s] = recv[s] /\ inbox'[s] = inbox[s]
    <3>1. v # s BY <1>7, <1>8, <2>1
    <3>2. /\ recv' = recv \/ \E x : recv' = Set(recv, v, x)
          /\ inbox' = inbox \/ \E x : inbox' = Set(inbox, v, x)
      BY <2>1 DEF RecvView, OnReadView, PreRecvView, sessions, world
    <3> QED BY <3>1, <3>2, <1>3 DEF Set
  <2> QED BY <1>1, <2>1 DEF Footprint
<1> QED BY <1>1, <1>4, <1>5, <1>6, <1>8 DEF Footprint

LEMMA DoorsThread ==
  ASSUME Base, Roster, Chain, Unsent, Doors, NEW t \in Worker, ThreadView(t),
         NEW s \in Player, ~ Entered(s)'
  PROVE  Outside(s)'
<1> USE DEF Base
<1>1. Gains(t) /\ Loses(t) BY GainsLemma, LosesLemma
<1>2. ~ Entered(s) BY EnteredStays DEF StepView
<1>3. Quiet(s) /\ Outside(s) BY <1>2 DEF Unsent, Doors
<1>4. Early(s)' BY <1>1, <1>3, EarlyThread
<1>5. /\ client' = client /\ service'[s] = service[s]
      /\ mConnected'[s] = mConnected[s] /\ socketOpen'[s] = socketOpen[s]
      /\ RecvView(t, s) \/ (recv'[s] = recv[s] /\ inbox'[s] = inbox[s])
  BY <1>3, OutsideKept
<1>6. CASE RecvView(t, s)
  <2>1. /\ recv'[s] = "busy" /\ inbox'[s] = <<>>
        /\ On("PlayerLogin", s) \in Calls(t)' /\ inbox[s] = <<Login(s)>>
    BY <1>3, <1>6, LoginReceived
  <2>2. <<Login(s)>> # <<>> BY LoginIs
  <2>3. client[s] \notin {"out", "connected"} BY <1>3, <2>1, <2>2 DEF Outside
  <2>4. (recv[s] = "busy")' BY <2>1
  <2> QED BY <1>3, <1>4, <1>5, <2>1, <2>3, <2>4 DEF Outside
<1>7. CASE recv'[s] = recv[s] /\ inbox'[s] = inbox[s]
  <2>1. ASSUME NEW u \in Worker, On("PlayerLogin", s) \in Calls(u), service[s] = "reserved"
        PROVE  On("PlayerLogin", s) \in Calls(u)'
    <3> SUFFICES ASSUME On("PlayerLogin", s) \notin Calls(u)' PROVE FALSE OBVIOUS
    <3>1. LoginView(t, s) BY <1>1, <2>1, LostOn DEF LeftOn
    <3>2. service' = Set(service, s, "active") BY <2>1, <3>1 DEF LoginView
    <3> QED BY <3>2 DEF Types, Set, Entered
  <2>2. client[s] # "out" => service[s] = "reserved" BY <1>3 DEF Outside
  <2>3. (\E u \in Worker : On("PlayerLogin", s) \in Calls(u)) /\ client[s] # "out" =>
          \E u \in Worker : On("PlayerLogin", s) \in Calls(u)'
    BY <2>1, <2>2
  <2> QED BY <1>3, <1>4, <1>5, <1>7, <2>3 DEF Outside
<1> QED BY <1>5, <1>6, <1>7

LEMMA DoorsClient ==
  ASSUME Base, Chain, Unsent, Doors, Still, NEW v \in Player,
         OnConnect(v) \/ ClientStep(v) \/ KernelSend(v), NEW s \in Player, ~ Entered(s), Outside(s)
  PROVE  Outside(s)'
<1> USE DEF Base
<1>1. Early(s)' BY DEF Outside, Early, Still
<1>2. got[s] = <<>> BY DEF Unsent, Quiet
<1>3. ~ LoggedIn(s) BY <1>2 DEF LoggedIn
<1>4. /\ recv \in [Player -> {"off", "posted", "busy"}] /\ inbox \in [Player -> Seq(Msg)]
      /\ mConnected \in [Player -> BOOLEAN] /\ socketOpen \in [Player -> BOOLEAN]
      /\ service \in [Player -> Phases]
      /\ client \in [Player -> {"out", "connected", "asked", "hung up", "left"}]
  BY DEF Types
<1>5. \A u \in Worker : (On("PlayerLogin", s) \in Calls(u)' <=> On("PlayerLogin", s) \in Calls(u))
  BY DEF Still
<1>6. ASSUME client'[s] = client[s], service'[s] = service[s] \/ client[s] = "out",
             mConnected'[s] = mConnected[s], socketOpen'[s] = socketOpen[s], recv'[s] = recv[s],
             inbox'[s] = inbox[s]
      PROVE  Outside(s)'
  BY <1>1, <1>5, <1>6 DEF Outside
<1>7. CASE v # s
  <2>1. /\ client' = client \/ \E x : client' = Set(client, v, x)
        /\ service' = service \/ \E x : service' = Set(service, v, x)
        /\ mConnected' = mConnected \/ \E x : mConnected' = Set(mConnected, v, x)
        /\ socketOpen' = socketOpen \/ \E x : socketOpen' = Set(socketOpen, v, x)
        /\ recv' = recv \/ \E x : recv' = Set(recv, v, x)
        /\ inbox' = inbox \/ \E x : inbox' = Set(inbox, v, x)
    BY DEF OnConnect, KernelSend, ClientStep, Reserve, StartTest, PlayTest, EndTest, HangUp,
           Request, sessions, world
  <2> QED BY <1>4, <1>6, <1>7, <2>1 DEF Set
<1>8. CASE OnConnect(s)
  <2>1. /\ client[s] = "out" /\ client'[s] = "connected" /\ service' = service
        /\ service[s] = "reserved" /\ mConnected'[s] /\ socketOpen'[s]
        /\ recv'[s] = "posted" /\ inbox' = inbox
    BY <1>4, <1>8 DEF OnConnect, Set
  <2> QED BY <1>1, <2>1 DEF Outside
<1>9. CASE Reserve(s) \/ KernelSend(s)
  <2>1. UNCHANGED <<client, mConnected, socketOpen, recv, inbox>>
    BY <1>9 DEF Reserve, KernelSend, sessions
  <2>2. service'[s] = service[s] \/ client[s] = "out"
    BY <1>9 DEF Reserve, KernelSend, Outside
  <2> QED BY <1>6, <2>1, <2>2
<1>10. CASE StartTest(s)
  <2>1. client[s] = "connected" /\ recv[s] = "posted" /\ inbox[s] = <<>>
    BY <1>10 DEF StartTest, Outside
  <2>2. /\ client'[s] = "asked" /\ inbox'[s] = Append(<<>>, Login(s))
        /\ UNCHANGED <<service, mConnected, socketOpen, recv>>
    BY <1>4, <1>10, <2>1 DEF StartTest, Request, Set, sessions, Login
  <2>3. inbox'[s] = <<Login(s)>> BY <2>2
  <2> QED BY <1>1, <2>1, <2>2, <2>3 DEF Outside
<1>11. CASE HangUp(s)
  <2>1. client[s] = "asked" /\ client'[s] = "hung up"
    BY <1>4, <1>11 DEF HangUp, Set
  <2>2. UNCHANGED <<service, mConnected, socketOpen, recv, inbox>>
    BY <1>11 DEF HangUp, sessions
  <2> QED BY <1>1, <1>5, <2>1, <2>2 DEF Outside
<1> QED BY <1>3, <1>7, <1>8, <1>9, <1>10, <1>11 DEF ClientStep, PlayTest, EndTest

LEMMA DoorsStep ==
  ASSUME Base, Roster, Chain, Unsent, Doors, StepView
  PROVE  Doors'
<1> SUFFICES ASSUME NEW s \in Player, ~ Entered(s)' PROVE Outside(s)' BY DEF Doors
<1>1. ~ Entered(s) BY EnteredStays
<1>2. Outside(s) BY <1>1 DEF Doors
<1>3. CASE OutsideView
  <2>1. CASE InitializeGameLift
    BY <1>2, <1>3, <2>1 DEF InitializeGameLift, OutsideView, Still, Outside, Early, sessions, world
  <2> QED BY <1>1, <1>2, <1>3, <2>1, DoorsClient DEF OutsideView, Outsider
<1>4. ASSUME Still, UNCHANGED <<client, service, mConnected, socketOpen, recv, inbox>>
      PROVE  Outside(s)'
  BY <1>2, <1>4 DEF Still, Outside, Early
<1>5. SdkView \/ UNCHANGED vars => UNCHANGED <<client, service, mConnected, socketOpen, recv, inbox>>
  BY DEF SdkView, CallStartView, CallTerminateView, StartGameView, CreateView,
         TerminateView, vars, sessions, world
<1> QED BY <1>3, <1>4, <1>5, DoorsThread DEF StepView, SdkView

-----------------------------------------------------------------------------
(* What is disconnected is closed, and nothing else.                       *)

Closings ==
  \A s \in Player :
    /\ mConnected[s] => socketOpen[s]
    /\ \A t \in Worker :
         On("OnDisconnect", s) \in Calls(t) \/ On("closesocket", s) \in Calls(t)
           => ~ mConnected[s]

(* A player that connects is new.                                          *)
LEMMA ConnectFresh ==
  ASSUME Unsent, Doors, NEW s \in Player, OnConnect(s)
  PROVE  ~ Entered(s) /\ Quiet(s) /\ Outside(s) /\ Early(s)
<1>1. ~ Entered(s) BY DEF OnConnect, Entered
<1> QED BY <1>1 DEF Unsent, Doors, Outside

(* What the steps of the others do to the connections.                     *)
LEMMA OthersConnect ==
  ASSUME Types, SdkView \/ OutsideView \/ (UNCHANGED vars /\ Still)
  PROVE  /\ Still /\ UNCHANGED <<mPlayerSessionId, ret>>
         /\ \/ UNCHANGED <<mConnected, socketOpen, recv>>
            \/ \E v \in Player : /\ OnConnect(v) /\ mConnected' = Set(mConnected, v, TRUE)
                                 /\ socketOpen' = Set(socketOpen, v, TRUE)
<1>1. SdkView \/ UNCHANGED vars => UNCHANGED <<mPlayerSessionId, ret, mConnected, socketOpen, recv>>
  BY DEF SdkView, CallStartView, CallTerminateView, StartGameView, CreateView,
         TerminateView, vars, sessions, threads
<1>2. CASE OutsideView
  <2>1. ASSUME NEW v \in Player, OnConnect(v)
        PROVE  /\ mConnected' = Set(mConnected, v, TRUE)
               /\ socketOpen' = Set(socketOpen, v, TRUE)
               /\ UNCHANGED <<mPlayerSessionId, ret>>
    BY <2>1 DEF OnConnect, threads
  <2>2. \/ UNCHANGED <<mPlayerSessionId, ret, mConnected, socketOpen, recv>>
        \/ \E v \in Player : OnConnect(v)
    BY <1>2 DEF OutsideView, Outsider, InitializeGameLift, KernelSend, ClientStep, Reserve,
                StartTest, PlayTest, EndTest, HangUp, sessions, threads
  <2> QED BY <1>2, <2>1, <2>2 DEF OutsideView
<1> QED BY <1>1, <1>2 DEF SdkView

(* A thread only ever disconnects.                                         *)
LEMMA ThreadDisconnects ==
  ASSUME Types, NEW t \in Worker, ThreadView(t), NEW s \in Player
  PROVE  /\ mConnected'[s] => mConnected[s]
         /\ mConnected'[s] = mConnected[s] \/ DisconnectView(t, s)
         /\ socketOpen'[s] => socketOpen[s]
         /\ socketOpen'[s] = socketOpen[s] \/ CloseView(t, s)
         /\ DisconnectView(t, s) => ~ mConnected'[s]
<1>0. mConnected \in [Player -> BOOLEAN] /\ socketOpen \in [Player -> BOOLEAN] BY DEF Types
<1>1. ASSUME NEW v \in Player, DisconnectView(t, v)
      PROVE  /\ mConnected'[v] = FALSE
             /\ v # s => mConnected'[s] = mConnected[s]
  BY <1>0, <1>1 DEF DisconnectView, Set
<1>2. ASSUME NEW v \in Player, CloseView(t, v)
      PROVE  /\ socketOpen'[v] = FALSE
             /\ v # s => socketOpen'[s] = socketOpen[s]
  BY <1>0, <1>2 DEF CloseView, Set
<1>3. Footprint(t) BY Footprints
<1> QED BY <1>1, <1>2, <1>3 DEF Footprint

LEMMA ClosingsStep ==
  ASSUME Base, Unsent, Doors, Closings, StepView
  PROVE  Closings'
<1> USE DEF Base
<1>1. ASSUME NEW t \in Worker, ThreadView(t) PROVE Closings'
  <2>0. Gains(t) BY <1>1, GainsLemma
  <2>1. ASSUME NEW s \in Player, mConnected'[s] PROVE socketOpen'[s]
    <3>1. mConnected[s] /\ socketOpen[s] BY <1>1, <2>1, ThreadDisconnects DEF Closings
    <3>2. ~ CloseView(t, s) BY <3>1 DEF CloseView, Tops, Closings
    <3> QED BY <1>1, <3>1, <3>2, ThreadDisconnects
  <2>2. ASSUME NEW s \in Player, NEW u \in Worker, NEW at \in {"OnDisconnect", "closesocket"},
               On(at, s) \in Calls(u)'
        PROVE  ~ mConnected'[s]
    <3>1. CASE On(at, s) \in Calls(u)
      BY <1>1, <3>1, ThreadDisconnects DEF Closings
    <3>2. CASE On(at, s) \notin Calls(u)
      <4>1. DisconnectView(t, s) BY <2>0, <2>2, <3>2, NewOn DEF MadeOn
      <4> QED BY <1>1, <4>1, ThreadDisconnects
    <3> QED BY <3>1, <3>2
  <2> QED BY <2>1, <2>2 DEF Closings
<1>2. ASSUME SdkView \/ OutsideView \/ (UNCHANGED vars /\ Still) PROVE Closings'
  <2>1. Still BY <1>2, OthersConnect
  <2>2. CASE UNCHANGED <<mConnected, socketOpen>> BY <2>1, <2>2 DEF Still, Closings
  <2>3. ASSUME NEW v \in Player, OnConnect(v), mConnected' = Set(mConnected, v, TRUE),
               socketOpen' = Set(socketOpen, v, TRUE)
        PROVE  Closings'
    <3>1. \A s \in Player \ {v} : mConnected'[s] = mConnected[s] /\ socketOpen'[s] = socketOpen[s]
      BY <2>3 DEF Types, Set
    <3>2. socketOpen'[v] BY <2>3 DEF Types, Set
    <3>3. \A t \in Worker : On("OnDisconnect", v) \notin Calls(t) /\ On("closesocket", v) \notin Calls(t)
      BY <2>3, ConnectFresh DEF Early, Partings
    <3> QED BY <2>1, <3>1, <3>2, <3>3 DEF Still, Closings
  <2> QED BY <1>2, <2>2, <2>3, OthersConnect
<1> QED BY <1>1, <1>2 DEF StepView

-----------------------------------------------------------------------------
(* The id is given up only after the player was removed.                   *)

Leaving ==
  \A s \in Player, t \in Worker :
    On("ClearPlayerId", s) \in Calls(t) =>
      service[s] = "completed" \/ On("RemovePlayerSession", s) \in Calls(t)

LEMMA CompletedStays ==
  ASSUME Base, Roster, StepView, NEW s \in Player, service[s] = "completed"
  PROVE  service'[s] = "completed"
<1>0. service \in [Player -> Phases] BY DEF Base, Types
<1>1. ASSUME NEW t \in Worker, ThreadView(t) PROVE service'[s] = "completed"
  <2>1. ASSUME NEW v \in Player, LoginView(t, v) PROVE service'[s] = "completed"
    <3>1. service' = service \/ (service[v] = "reserved" /\ service' = Set(service, v, "active"))
      BY <2>1 DEF LoginView
    <3> QED BY <1>0, <3>1 DEF Set
  <2>2. ASSUME NEW v \in Player, RemoveView(t, v) PROVE service'[s] = "completed"
    <3>1. service' = service \/ service' = Set(service, v, "completed") BY <2>2 DEF RemoveView
    <3> QED BY <1>0, <3>1 DEF Set
  <2> QED BY <1>1, <2>1, <2>2, Footprints DEF Footprint
<1>2. SdkView \/ UNCHANGED vars => service' = service
  BY DEF SdkView, CallStartView, CallTerminateView, StartGameView, CreateView,
         TerminateView, vars, world
<1>3. OutsideView => service'[s] = "completed"
  <2>1. OutsideView => Gone' = Gone BY RosterOutside DEF OutsideView
  <2> QED BY <2>1 DEF Gone
<1> QED BY <1>1, <1>2, <1>3 DEF StepView

(* Whoever starts to leave removes the player first.                       *)
LEMMA ClearNew ==
  ASSUME Types, Requests, NEW t \in Worker, Gains(t), NEW s \in Player, NEW u \in Worker,
         On("ClearPlayerId", s) \in Calls(u)', On("ClearPlayerId", s) \notin Calls(u)
  PROVE  On("RemovePlayerSession", s) \in Calls(u)'
<1>1. u = t /\ (Handles(t, s, "exit") \/ OnDisconnectView(t, s)) BY NewOn DEF MadeOn
<1>2. CASE Handles(t, s, "exit")
  <2>1. HandlerCalls(s, inbox[s][1]) = {On("RemovePlayerSession", s), On("ClearPlayerId", s),
                                        On("Disconnect", s)}
    BY <1>2 DEF Handles, HandlerCalls
  <2>2. On("ClearPlayerId", s) # On("Disconnect", s) BY Apart
  <2>3. ~ Begins(t, {On("Disconnect", s)}) /\ ~ Moves(t, On("OnRead", s), {})
    BY <1>1, <2>2 DEF Begins, Moves
  <2> QED BY <1>1, <1>2, <2>1, <2>3 DEF Handles, RecvView, OnReadView, Begins, Moves
<1>3. CASE OnDisconnectView(t, s)
  <2>1. ~ Moves(t, On("OnDisconnect", s), {}) BY <1>1 DEF Moves
  <2> QED BY <1>1, <1>3, <2>1 DEF OnDisconnectView, Moves
<1> QED BY <1>1, <1>2, <1>3

LEMMA LeavingStep ==
  ASSUME Base, Roster, Doors, Leaving, StepView
  PROVE  Leaving'
<1> USE DEF Base
<1>1. ASSUME NEW t \in Worker, ThreadView(t), NEW s \in Player, NEW u \in Worker,
             On("ClearPlayerId", s) \in Calls(u)'
      PROVE  service'[s] = "completed" \/ On("RemovePlayerSession", s) \in Calls(u)'
  <2>1. Gains(t) /\ Loses(t) BY <1>1, GainsLemma, LosesLemma
  <2>2. CASE On("ClearPlayerId", s) \notin Calls(u) BY <1>1, <2>1, <2>2, ClearNew
  <2>3. CASE On("ClearPlayerId", s) \in Calls(u) /\ service[s] = "completed"
    BY <1>1, <2>3, CompletedStays DEF StepView
  <2>4. CASE On("RemovePlayerSession", s) \in Calls(u)
    <3> SUFFICES ASSUME On("RemovePlayerSession", s) \notin Calls(u)'
                 PROVE  service'[s] = "completed"
      OBVIOUS
    <3>1. RemoveView(t, s) BY <2>1, <2>4, LostOn DEF LeftOn
    <3>2. Entered(s) BY <2>4 DEF Doors, Outside, Early, Partings
    <3>3. service[s] = "active" => service'[s] = "completed"
      BY <3>1 DEF RemoveView, Types, Set
    <3> QED BY <1>1, <3>2, <3>3, CompletedStays DEF Entered, StepView
  <2> QED BY <2>2, <2>3, <2>4 DEF Leaving
<1>2. ASSUME Still PROVE Leaving'
  <2>1. \A s \in Player : service[s] = "completed" => service'[s] = "completed"
    BY CompletedStays
  <2> QED BY <1>2, <2>1 DEF Still, Leaving
<1> QED BY <1>1, <1>2 DEF StepView, SdkView, OutsideView, Leaving

-----------------------------------------------------------------------------
(* Where a connection is given up, when every send to a connected client   *)
(* gets through and no send buffer overflows: only there where the         *)
(* connection is broken already, or where its requests are handled.        *)

(* A packet that is posted finds room in the send buffer.                  *)
NoOverflow ==
  \A t \in Worker : Stands(t, "PostSendLock") => Len(outbox[Self(t)]) < SendCap

(* The broadcast goes on with the result of a post.                        *)
Exposed(t) == \A f \in Calls(t) : Level(f) >= 6
Answered(t, s) ==
  \/ Exposed(t) /\ (ret[t] \/ ~ mConnected[s])
  \/ On("FlushFailed", s) \in Calls(t)
  \/ \E m \in Msg : Posting(t, s, m)
CutOff(t, s) ==
  ~ mConnected[s] \/ recv[s] = "off" \/ On("PreRecv", s) \in Calls(t)

Failures ==
  \A s \in Player :
    /\ send[s] = "failed" => ~ socketOpen[s]
    /\ \A t \in Worker :
         /\ On("FlushFailed", s) \in Calls(t) => ~ mConnected[s]
         /\ On("BroadcastResult", s) \in Calls(t) => Answered(t, s)
         /\ On("Disconnect", s) \in Calls(t) => CutOff(t, s)

LEMMA TopsStands ==
  ASSUME Stacks, NEW t \in Worker, NEW f, Tops(t, f)
  PROVE  stack[t] # <<>> /\ stack[t][1] = f
<1>1. stack[t] \in Seq(Frame) /\ Nested(stack[t]) BY DEF Stacks
<1>2. f \in Calls(t) BY DEF Tops
<1>3. stack[t] # <<>> BY <1>2, FramesNone DEF Calls
<1>4. /\ stack[t][1] \in Calls(t)
      /\ \A g \in Calls(t) \ {stack[t][1]} : Level(stack[t][1]) < Level(g)
  BY <1>1, <1>3, FramesTail DEF Calls
<1>5. stack[t][1] = f
  <2> SUFFICES ASSUME stack[t][1] # f PROVE FALSE OBVIOUS
  <2>1. Level(stack[t][1]) < Level(f) /\ Level(f) < Level(stack[t][1])
    BY <1>2, <1>4 DEF Tops
  <2>2. Level(f) \in Nat /\ Level(stack[t][1]) \in Nat BY LevelNat
  <2> QED BY <2>1, <2>2
<1> QED BY <1>3, <1>5

(* What posting to the buffer comes to.                                    *)
LEMMA PostOutcome ==
  ASSUME Types, Stacks, NoOverflow, ~ SendMayFail, NEW t \in Worker, NEW s \in Player,
         NEW m \in Msg, PostLockView(t, s, m)
  PROVE  \/ /\ Moves(t, Packet("PostSendLock", s, m), {})
            /\ ret' = [ret EXCEPT ![t] = TRUE]
         \/ /\ ~ socketOpen[s] /\ ret' = ret
            /\ Moves(t, Packet("PostSendLock", s, m), {On("Disconnect", s), On("FlushFailed", s)})
<1>1. Running /\ Tops(t, Packet("PostSendLock", s, m)) BY DEF PostLockView
<1>2. stack[t] # <<>> /\ stack[t][1] = Packet("PostSendLock", s, m) BY <1>1, TopsStands
<1>3. Packet("PostSendLock", s, m).at = "PostSendLock" /\ Packet("PostSendLock", s, m).s = s
  BY DEF Packet
<1>4. Len(outbox[s]) < SendCap BY <1>1, <1>2, <1>3 DEF NoOverflow, Stands, Self
<1>5. Len(outbox[s]) \in Nat /\ SendCap \in Nat
  <2>1. \A q \in Seq(Msg) : Len(q) \in Nat OBVIOUS
  <2> QED BY <2>1, GameServerAssumption DEF Types
<1>6. ~ (Len(outbox[s]) + 1 > SendCap) BY <1>4, <1>5
<1> QED BY <1>6 DEF PostLockView, SendFlies, SendBreaks

LEMMA BreaksClosed ==
  ASSUME ~ SendMayFail, NEW t \in Worker, NEW s \in Player, NEW m \in Msg,
         CompletionView(t, s) \/ PostLockView(t, s, m),
         NEW at, On(at, s) \in Calls(t)', On(at, s) \notin Calls(t)
  PROVE  ~ socketOpen[s]
<1>1. \A f : ~ Moves(t, f, {}) BY DEF Moves
<1> QED BY <1>1 DEF CompletionView, PostLockView, SendFlies, SendBreaks

LEMMA GetsExposed ==
  ASSUME NEW t \in Worker, NEW f, Tops(t, f), Level(f) = 5, Moves(t, f, {})
  PROVE  Exposed(t)'
<1>1. \A g \in Calls(t)' : g \in Calls(t) \ {f} BY DEF Moves
<1>2. \A g \in Calls(t)' : 5 < Level(g) BY <1>1 DEF Tops
<1>3. \A g : Level(g) \in Nat BY LevelNat
<1>4. \A g \in Calls(t)' : Level(g) >= 6 BY <1>2, <1>3
<1> QED BY <1>4 DEF Exposed

(* A busy thread goes on with the call it is at.                           *)
LEMMA RunsOne ==
  ASSUME NEW t \in Worker, ThreadView(t), Calls(t) # {}
  PROVE  \E f : Lose(t, f)
<1>1. \A s \in Player : ~ RecvView(t, s) /\ ~ SendDoneView(t, s)
  BY DEF RecvView, SendDoneView, Begins
<1>2. CASE \E s \in Player :
       \/ LoginView(t, s) \/ SetIdView(t, s) \/ RemoveView(t, s) \/ ClearView(t, s)
       \/ DisconnectView(t, s) \/ OnDisconnectView(t, s) \/ CloseView(t, s)
       \/ FlushFailedView(t, s) \/ ResultView(t, s) \/ CompletionView(t, s)
       \/ OnReadView(t, s) \/ PreRecvView(t, s)
  BY <1>2 DEF Lose
<1>3. CASE \E s \in Player, m \in Msg :
             PostView(t, s, m) \/ PostLockView(t, s, m) \/ BroadcastView(t, s, m)
  BY <1>3 DEF Lose
<1>4. CASE \E m \in Msg, d \in SUBSET Player : LoopView(t, m, d) BY <1>4 DEF Lose
<1> QED BY <1>1, <1>2, <1>3, <1>4 DEF ThreadView

LEMMA ResultNext ==
  ASSUME NEW t \in Worker, ThreadView(t), NEW s \in Player, On("BroadcastResult", s) \in Calls(t),
         Exposed(t)
  PROVE  On("BroadcastResult", s) \notin Calls(t)'
<1>1. PICK f : Lose(t, f) BY RunsOne
<1>2. Tops(t, f) BY <1>1, LoseTops
<1>3. Level(On("BroadcastResult", s)) = 6 BY Levels DEF LevelOf
<1>4. f = On("BroadcastResult", s)
  <2> SUFFICES ASSUME f # On("BroadcastResult", s) PROVE FALSE OBVIOUS
  <2>1. Level(f) < 6 BY <1>2, <1>3 DEF Tops
  <2>2. Level(f) >= 6 /\ Level(f) \in Nat BY <1>2, LevelNat DEF Tops, Exposed
  <2> QED BY <2>1, <2>2
<1>5. ResultView(t, s) BY <1>1, <1>4, Apart DEF Lose
<1>6. On("BroadcastResult", s) # On("Disconnect", s) BY Apart
<1> QED BY <1>5, <1>6 DEF ResultView, Moves

(* The steps of a thread change its own result only.                       *)
LEMMA RetKept ==
  ASSUME Types, NEW t \in Worker, ThreadView(t), NEW u \in Worker, u # t
  PROVE  ret'[u] = ret[u]
<1>1. t \in Thread /\ u \in Thread /\ ret \in [Thread -> BOOLEAN] BY DEF Thread, Types
<1>2. ASSUME NEW v \in Player,
             \/ LoginView(t, v) \/ SetIdView(t, v) \/ RemoveView(t, v) \/ ClearView(t, v)
             \/ DisconnectView(t, v) \/ OnDisconnectView(t, v) \/ CloseView(t, v)
             \/ ResultView(t, v) \/ SendDoneView(t, v) \/ RecvView(t, v) \/ OnReadView(t, v)
             \/ PreRecvView(t, v)
      PROVE  ret' = ret
  BY <1>2 DEF LoginView, SetIdView, RemoveView, ClearView, DisconnectView, OnDisconnectView,
              CloseView, ResultView, SendDoneView, RecvView, OnReadView, PreRecvView
<1>3. ASSUME NEW m \in Msg, NEW d \in SUBSET Player, LoopView(t, m, d) PROVE ret' = ret
  BY <1>3 DEF LoopView
<1>4. ASSUME NEW v \in Player, NEW m \in Msg,
             \/ FlushFailedView(t, v) \/ CompletionView(t, v)
             \/ PostView(t, v, m) \/ PostLockView(t, v, m) \/ BroadcastView(t, v, m)
      PROVE  ret' = ret \/ \E b \in BOOLEAN : ret' = [ret EXCEPT ![t] = b]
  BY <1>4 DEF FlushFailedView, CompletionView, SendFlies, SendBreaks, PostView, PostLockView,
              BroadcastView
<1>5. ret' = ret \/ \E b \in BOOLEAN : ret' = [ret EXCEPT ![t] = b]
  <2>1. CASE \E v \in Player : FlushFailedView(t, v) \/ CompletionView(t, v)
    <3>1. PICK v \in Player : FlushFailedView(t, v) \/ CompletionView(t, v) BY <2>1
    <3>2. Answer(v) \in Msg BY AnswerIs
    <3> QED BY <1>4, <3>1, <3>2
  <2> QED BY <1>2, <1>3, <1>4, <2>1 DEF ThreadView
<1> QED BY <1>1, <1>5

LEMMA AnsweredThread ==
  ASSUME Base, Closings, Failures, NoOverflow, ~ SendMayFail, NEW t \in Worker, ThreadView(t),
         NEW s \in Player, NEW u \in Worker, On("BroadcastResult", s) \in Calls(u)'
  PROVE  Answered(u, s)'
<1> USE DEF Base
<1>0. Gains(t) /\ Loses(t) BY GainsLemma, LosesLemma
<1>1. CASE On("BroadcastResult", s) \notin Calls(u)
  <2>1. u = t /\ \E m \in Msg, d \in SUBSET Player : LoopView(t, m, d)
    BY <1>0, <1>1, NewOn DEF MadeOn
  <2>2. PICK m \in Msg, d \in SUBSET Player : LoopView(t, m, d) BY <2>1
  <2>3. ~ Moves(t, Loop(m, d), {}) BY <1>1, <2>1 DEF Moves
  <2>4. PICK v \in d : Moves(t, Loop(m, d), {Packet("PostSend", v, m), On("BroadcastResult", v),
                                             Loop(m, d \ {v})})
    BY <2>2, <2>3 DEF LoopView
  <2>5. On("BroadcastResult", s) \in {Packet("PostSend", v, m), On("BroadcastResult", v),
                                      Loop(m, d \ {v})}
    BY <1>1, <2>1, <2>4 DEF Moves
  <2>6. v = s BY <2>5, Apart
  <2>7. Packet("PostSend", s, m) \in Calls(u)' BY <2>1, <2>4, <2>6 DEF Moves
  <2> QED BY <2>7 DEF Answered, Posting
<1>2. CASE On("BroadcastResult", s) \in Calls(u) /\ u # t
  <2>1. Calls(u)' = Calls(u) BY <1>0, <1>2 DEF Gains, Loses
  <2>2. ret'[u] = ret[u] BY <1>2, RetKept
  <2>3. mConnected'[s] => mConnected[s] BY ThreadDisconnects
  <2>4. Answered(u, s) BY <1>2 DEF Failures
  <2> QED BY <2>1, <2>2, <2>3, <2>4 DEF Answered, Exposed, Posting
<1>3. CASE On("BroadcastResult", s) \in Calls(t) /\ u = t
  <2>0. t \in Thread /\ ret \in [Thread -> BOOLEAN] BY DEF Thread, Types
  <2>1. mConnected'[s] => mConnected[s] BY ThreadDisconnects
  <2>2. CASE Exposed(t) BY <1>3, <2>2, ResultNext
  <2>3. ASSUME On("FlushFailed", s) \in Calls(t), On("FlushFailed", s) \notin Calls(t)'
        PROVE  Answered(t, s)'
    <3>1. FlushFailedView(t, s) BY <1>0, <2>3, LostOn DEF LeftOn
    <3>2. Level(On("FlushFailed", s)) = 5 BY Levels DEF LevelOf
    <3>3. Exposed(t)' BY <3>1, <3>2, GetsExposed DEF FlushFailedView
    <3>4. ~ mConnected'[s] BY <2>1, <2>3 DEF Failures
    <3> QED BY <3>3, <3>4 DEF Answered
  <2>4. ASSUME NEW m \in Msg, Packet("PostSend", s, m) \in Calls(t),
               Packet("PostSend", s, m) \notin Calls(t)'
        PROVE  Answered(t, s)'
    <3>1. PostView(t, s, m) BY <1>0, <2>4, LostPacket
    <3>2. CASE Moves(t, Packet("PostSend", s, m), {Packet("PostSendLock", s, m)})
      <4>1. Packet("PostSendLock", s, m) \in Calls(t)' BY <3>2 DEF Moves
      <4> QED BY <4>1 DEF Answered, Posting
    <3>3. CASE ~ mConnected[s] /\ Moves(t, Packet("PostSend", s, m), {})
      <4>1. Level(Packet("PostSend", s, m)) = 5 BY Levels DEF LevelOf
      <4>2. Exposed(t)' BY <3>1, <3>3, <4>1, GetsExposed DEF PostView
      <4> QED BY <2>1, <3>3, <4>2 DEF Answered
    <3> QED BY <3>1, <3>2, <3>3 DEF PostView
  <2>5. ASSUME NEW m \in Msg, Packet("PostSendLock", s, m) \in Calls(t),
               Packet("PostSendLock", s, m) \notin Calls(t)'
        PROVE  Answered(t, s)'
    <3>1. PostLockView(t, s, m) BY <1>0, <2>5, LostPacket
    <3>2. CASE /\ Moves(t, Packet("PostSendLock", s, m), {})
               /\ ret' = [ret EXCEPT ![t] = TRUE]
      <4>1. Level(Packet("PostSendLock", s, m)) = 5 BY Levels DEF LevelOf
      <4>2. Exposed(t)' BY <3>1, <3>2, <4>1, GetsExposed DEF PostLockView
      <4>3. ret'[t] BY <2>0, <3>2
      <4> QED BY <4>2, <4>3 DEF Answered
    <3>3. CASE Moves(t, Packet("PostSendLock", s, m), {On("Disconnect", s), On("FlushFailed", s)})
      <4>1. On("FlushFailed", s) \in Calls(t)' BY <3>3 DEF Moves
      <4> QED BY <4>1 DEF Answered
    <3> QED BY <3>1, <3>2, <3>3, PostOutcome
  <2>6. Answered(t, s) BY <1>3 DEF Failures
  <2> QED BY <1>3, <2>2, <2>3, <2>4, <2>5, <2>6 DEF Answered, Posting
<1> QED BY <1>1, <1>2, <1>3

(* The receives that are off stay off.                                     *)
LEMMA CutOffStays ==
  ASSUME Base, Chain, NEW t \in Worker, ThreadView(t), NEW s \in Player, NEW u \in Worker,
         On("Disconnect", s) \in Calls(u), CutOff(u, s)
  PROVE  CutOff(u, s)'
<1> USE DEF Base
<1>0. Loses(t) BY LosesLemma
<1>1. CASE ~ mConnected[s] BY <1>1, ThreadDisconnects DEF CutOff
<1>2. CASE recv[s] = "off"
  <2>1. ASSUME NEW v \in Player, RecvView(t, v) \/ PreRecvView(t, v) PROVE recv'[s] = recv[s]
    <3>1. RecvView(t, v) => recv[v] = "posted" BY DEF RecvView
    <3>2. PreRecvView(t, v) => recv[v] = "busy" BY DEF PreRecvView, Chain
    <3>3. v # s BY <1>2, <2>1, <3>1, <3>2
    <3>4. \E x : recv' = Set(recv, v, x) BY <2>1 DEF RecvView, PreRecvView
    <3> QED BY <3>3, <3>4 DEF Types, Set
  <2>2. recv'[s] = "off" BY <1>2, <2>1, Footprints DEF Footprint
  <2> QED BY <2>2 DEF CutOff
<1>3. CASE On("PreRecv", s) \in Calls(u)
  <2>1. Level(On("Disconnect", s)) < Level(On("PreRecv", s)) BY Levels DEF LevelOf
  <2>2. On("PreRecv", s) \in Calls(u)' BY <1>0, <1>3, <2>1, Deeper
  <2> QED BY <2>2 DEF CutOff
<1> QED BY <1>1, <1>2, <1>3 DEF CutOff

LEMMA CutOffNew ==
  ASSUME Base, Chain, Closings, Failures, ~ SendMayFail, NEW t \in Worker, ThreadView(t),
         NEW s \in Player, NEW u \in Worker,
         On("Disconnect", s) \in Calls(u)', On("Disconnect", s) \notin Calls(u)
  PROVE  CutOff(u, s)'
<1> USE DEF Base
<1>0. Gains(t) /\ Loses(t) BY GainsLemma, LosesLemma
<1>1. u = t /\ MadeOn(t, "Disconnect", s) BY <1>0, NewOn
<1>2. ASSUME ~ mConnected[s] PROVE CutOff(u, s)' BY <1>2, ThreadDisconnects DEF CutOff
<1>3. ASSUME ~ socketOpen[s] PROVE CutOff(u, s)' BY <1>2, <1>3 DEF Closings
<1>4. CASE RecvView(t, s)
  <2>1. CASE recv' = Set(recv, s, "off")
    <3>1. recv'[s] = "off" BY <2>1 DEF Types, Set
    <3> QED BY <3>1 DEF CutOff
  <2>2. CASE recv' # Set(recv, s, "off")
    <3>1. On("PreRecv", s) \in Calls(t)' BY <1>4, <2>2 DEF RecvView, Begins
    <3> QED BY <1>1, <3>1 DEF CutOff
  <2> QED BY <2>1, <2>2
<1>5. ASSUME On("OnRead", s) \in Calls(t), NEW f \in Calls(t), Tops(t, f), Level(f) \leq 8
      PROVE  CutOff(u, s)'
  <2>1. On("PreRecv", s) \in Calls(t) BY <1>5 DEF Chain
  <2>2. Level(On("PreRecv", s)) = 9 /\ Level(f) \in Nat BY Levels, LevelNat DEF LevelOf
  <2>3. Level(f) < Level(On("PreRecv", s)) BY <1>5, <2>2
  <2>4. On("PreRecv", s) \in Calls(t)' BY <1>0, <2>1, <2>3, Deeper
  <2> QED BY <1>1, <2>4 DEF CutOff
<1>6. CASE OnReadView(t, s)
  <2>1. Tops(t, On("OnRead", s)) /\ On("OnRead", s) \in Calls(t) BY <1>6 DEF OnReadView, Tops
  <2>2. Level(On("OnRead", s)) \leq 8 BY Levels DEF LevelOf
  <2> QED BY <1>5, <2>1, <2>2
<1>7. CASE LoginView(t, s)
  <2>1. Tops(t, On("PlayerLogin", s)) /\ On("PlayerLogin", s) \in Calls(t) BY <1>7 DEF LoginView, Tops
  <2>2. On("OnRead", s) \in Calls(t) BY <2>1 DEF Chain, LoginCalls
  <2>3. Level(On("PlayerLogin", s)) \leq 8 BY Levels DEF LevelOf
  <2> QED BY <1>5, <2>1, <2>2, <2>3
<1>8. ASSUME CompletionView(t, s) \/ \E m \in Msg : PostLockView(t, s, m) PROVE CutOff(u, s)'
  <2>0. \E m \in Msg : CompletionView(t, s) \/ PostLockView(t, s, m)
    BY <1>8, AnswerIs
  <2>1. ~ socketOpen[s] BY <1>1, <2>0, BreaksClosed
  <2> QED BY <1>3, <2>1
<1>9. CASE ResultView(t, s)
  <2>1. Tops(t, On("BroadcastResult", s)) BY <1>9 DEF ResultView
  <2>2. Answered(t, s) BY <2>1 DEF Tops, Failures
  <2>3. \A g \in Calls(t) : Level(g) \in Nat /\ (g # On("BroadcastResult", s) => 6 < Level(g))
    <3>1. Level(On("BroadcastResult", s)) = 6 BY Levels DEF LevelOf
    <3> QED BY <2>1, <3>1, LevelNat DEF Tops
  <2>4. On("FlushFailed", s) \notin Calls(t)
    <3>1. Level(On("FlushFailed", s)) = 5 BY Levels DEF LevelOf
    <3> QED BY <2>3, <3>1, Apart
  <2>5. \A m \in Msg : ~ Posting(t, s, m)
    <3>1. \A m : Level(Packet("PostSend", s, m)) = 5 /\ Level(Packet("PostSendLock", s, m)) = 5
      BY Levels DEF LevelOf
    <3> QED BY <2>3, <3>1, Apart DEF Posting
  <2>6. ret[t] \/ ~ mConnected[s] BY <2>2, <2>4, <2>5 DEF Answered
  <2>7. ~ ret[t]
    <3>1. ~ Moves(t, On("BroadcastResult", s), {}) BY <1>1 DEF Moves
    <3> QED BY <1>9, <3>1 DEF ResultView
  <2> QED BY <1>2, <2>6, <2>7
<1>10. CASE SendDoneView(t, s)
  <2>1. send[s] = "failed"
    <3>1. ~ Begins(t, {On("SendCompletion", s)}) BY <1>1, Apart DEF Begins
    <3> QED BY <1>10, <3>1 DEF SendDoneView
  <2> QED BY <1>3, <2>1 DEF Failures
<1>11. CASE PreRecvView(t, s)
  <2>1. ~ Moves(t, On("PreRecv", s), {}) BY <1>1 DEF Moves
  <2>2. recv' = Set(recv, s, "off") BY <1>11, <2>1 DEF PreRecvView
  <2>3. recv'[s] = "off" BY <2>2 DEF Types, Set
  <2> QED BY <2>3 DEF CutOff
<1> QED BY <1>1, <1>4, <1>6, <1>7, <1>8, <1>9, <1>10, <1>11 DEF MadeOn, Handles

LEMMA FailuresThread ==
  ASSUME Base, Chain, Closings, Failures, NoOverflow, ~ SendMayFail, NEW t \in Worker, ThreadView(t)
  PROVE  Failures'
<1> USE DEF Base
<1>0. Gains(t) BY GainsLemma
<1>1. ASSUME NEW s \in Player, send'[s] = "failed" PROVE ~ socketOpen'[s]
  <2>1. ASSUME NEW v \in Player, NEW x \in {"flying", "none", "handled"}, send' = Set(send, v, x)
        PROVE  send[s] = "failed"
    BY <1>1, <2>1 DEF Types, Set
  <2>2. ASSUME NEW v \in Player, NEW m \in Msg, PostLockView(t, v, m) PROVE send[s] = "failed"
    BY <1>1, <2>1, <2>2 DEF PostLockView, SendFlies, SendBreaks
  <2>3. ASSUME NEW v \in Player, CompletionView(t, v) PROVE send[s] = "failed"
    BY <1>1, <2>1, <2>3 DEF CompletionView, SendFlies, SendBreaks
  <2>4. ASSUME NEW v \in Player, SendDoneView(t, v) PROVE send[s] = "failed"
    BY <2>1, <2>4 DEF SendDoneView
  <2>5. send[s] = "failed" BY <1>1, <2>2, <2>3, <2>4, Footprints DEF Footprint
  <2> QED BY <2>5, ThreadDisconnects DEF Failures
<1>2. ASSUME NEW s \in Player, NEW u \in Worker, On("FlushFailed", s) \in Calls(u)'
      PROVE  ~ mConnected'[s]
  <2>1. CASE On("FlushFailed", s) \in Calls(u) BY <2>1, ThreadDisconnects DEF Failures
  <2>2. CASE On("FlushFailed", s) \notin Calls(u)
    <3>1. u = t /\ (CompletionView(t, s) \/ \E m \in Msg : PostLockView(t, s, m))
      BY <1>0, <1>2, <2>2, NewOn DEF MadeOn
    <3>2. \E m \in Msg : CompletionView(t, s) \/ PostLockView(t, s, m) BY <3>1, AnswerIs
    <3>3. ~ socketOpen[s] BY <1>2, <2>2, <3>1, <3>2, BreaksClosed
    <3> QED BY <3>3, ThreadDisconnects DEF Closings
  <2> QED BY <2>1, <2>2
<1>3. \A s \in Player, u \in Worker : On("BroadcastResult", s) \in Calls(u)' => Answered(u, s)'
  BY AnsweredThread
<1>4. ASSUME NEW s \in Player, NEW u \in Worker, On("Disconnect", s) \in Calls(u)'
      PROVE  CutOff(u, s)'
  <2>1. CASE On("Disconnect", s) \in Calls(u)
    <3>1. CutOff(u, s) BY <2>1 DEF Failures
    <3> QED BY <2>1, <3>1, CutOffStays
  <2>2. CASE On("Disconnect", s) \notin Calls(u) BY <1>4, <2>2, CutOffNew
  <2> QED BY <2>1, <2>2
<1> QED BY <1>1, <1>2, <1>3, <1>4 DEF Failures

LEMMA FailuresOthers ==
  ASSUME Base, Unsent, Doors, Failures, ~ SendMayFail,
         SdkView \/ OutsideView \/ (UNCHANGED vars /\ Still)
  PROVE  Failures'
<1> USE DEF Base
<1>1. Still /\ ret' = ret BY OthersConnect
<1>2. ASSUME NEW s \in Player, mConnected'[s] = mConnected[s], socketOpen'[s] = socketOpen[s],
             recv'[s] = recv[s], send'[s] = "failed" => ~ socketOpen[s]
      PROVE  /\ send'[s] = "failed" => ~ socketOpen'[s]
             /\ \A t \in Worker :
                  /\ On("FlushFailed", s) \in Calls(t)' => ~ mConnected'[s]
                  /\ On("BroadcastResult", s) \in Calls(t)' => Answered(t, s)'
                  /\ On("Disconnect", s) \in Calls(t)' => CutOff(t, s)'
  <2>1. ASSUME NEW t \in Worker
        PROVE  Answered(t, s) => Answered(t, s)'
    BY <1>1, <1>2 DEF Still, Answered, Exposed, Posting
  <2>2. ASSUME NEW t \in Worker
        PROVE  CutOff(t, s) => CutOff(t, s)'
    BY <1>1, <1>2 DEF Still, CutOff
  <2> QED BY <1>1, <1>2, <2>1, <2>2 DEF Still, Failures
<1>3. ASSUME NEW v \in Player, OnConnect(v) PROVE Failures'
  <2>1. Quiet(v) /\ Early(v) BY <1>3, ConnectFresh
  <2>2. /\ send' = send /\ mConnected' = Set(mConnected, v, TRUE)
        /\ socketOpen' = Set(socketOpen, v, TRUE) /\ recv' = Set(recv, v, "posted")
    BY <1>3 DEF OnConnect
  <2>3. \A s \in Player \ {v} : /\ mConnected'[s] = mConnected[s] /\ socketOpen'[s] = socketOpen[s]
                                /\ recv'[s] = recv[s]
    BY <2>2 DEF Types, Set
  <2>4. send'[v] = "none" BY <2>1, <2>2 DEF Quiet
  <2>5. \A t \in Worker : /\ On("FlushFailed", v) \notin Calls(t)'
                          /\ On("BroadcastResult", v) \notin Calls(t)'
                          /\ On("Disconnect", v) \notin Calls(t)'
    BY <1>1, <2>1 DEF Still, Early, Partings
  <2>6. \A s \in Player : send[s] = "failed" => ~ socketOpen[s] BY DEF Failures
  <2> QED BY <1>2, <2>2, <2>3, <2>4, <2>5, <2>6 DEF Failures
<1>4. ASSUME UNCHANGED <<mConnected, socketOpen, recv>>,
             \A s \in Player : send'[s] = "failed" => ~ socketOpen[s]
      PROVE  Failures'
  BY <1>2, <1>4 DEF Failures
<1>5. ASSUME UNCHANGED <<mConnected, socketOpen, recv, send>> PROVE Failures'
  BY <1>4, <1>5 DEF Failures
<1>6. ASSUME NEW v \in Player, KernelSend(v) PROVE Failures'
  <2>1. UNCHANGED <<mConnected, socketOpen, recv>> BY <1>6 DEF KernelSend
  <2>2. ASSUME NEW s \in Player, send'[s] = "failed" PROVE ~ socketOpen[s]
    <3>1. CASE s # v
      <4>1. send'[s] = send[s] BY <1>6, <3>1 DEF KernelSend, Types, Set
      <4> QED BY <2>2, <4>1 DEF Failures
    <3>2. CASE s = v
      <4>1. send' # Set(send, v, "done") BY <2>2, <3>2 DEF Types, Set
      <4> QED BY <1>6, <3>2, <4>1 DEF KernelSend
    <3> QED BY <3>1, <3>2
  <2> QED BY <1>4, <2>1, <2>2
<1>7. SdkView \/ UNCHANGED vars => UNCHANGED <<mConnected, socketOpen, recv, send>>
  BY DEF SdkView, CallStartView, CallTerminateView, StartGameView, CreateView,
         TerminateView, vars, sessions
<1>8. OutsideView => \/ UNCHANGED <<mConnected, socketOpen, recv, send>>
                     \/ \E v \in Player : OnConnect(v) \/ KernelSend(v)
  BY DEF OutsideView, Outsider, InitializeGameLift, ClientStep, Reserve,
         StartTest, PlayTest, EndTest, HangUp, sessions
<1> QED BY <1>3, <1>5, <1>6, <1>7, <1>8

LEMMA FailuresStep ==
  ASSUME Base, Chain, Unsent, Doors, Closings, Failures, NoOverflow, ~ SendMayFail, StepView
  PROVE  Failures'
  BY FailuresThread, FailuresOthers DEF StepView

-----------------------------------------------------------------------------
(* The players of the game session are connected, or on their way out.     *)

Member(s) ==
  \/ /\ mConnected[s]
     /\ \/ mPlayerSessionId[s] = s
        \/ \E t \in Worker : On("SetPlayerId", s) \in Calls(t)
  \/ mPlayerSessionId[s] = s /\ \E t \in Worker : On("OnDisconnect", s) \in Calls(t)
  \/ \E t \in Worker : On("RemovePlayerSession", s) \in Calls(t)
Members == Running => \A s \in Player : service[s] = "active" => Member(s)

LEMMA IdStays ==
  ASSUME Types, Leaving, NEW t \in Worker, ThreadView(t), NEW s \in Player,
         service[s] = "active", mPlayerSessionId[s] = s
  PROVE  mPlayerSessionId'[s] = s
<1>1. ASSUME NEW v \in Player, SetIdView(t, v) PROVE mPlayerSessionId'[s] = s
  BY <1>1 DEF SetIdView, Types, Set
<1>2. ASSUME NEW v \in Player, ClearView(t, v) PROVE mPlayerSessionId'[s] = s
  <2>1. Tops(t, On("ClearPlayerId", v)) BY <1>2 DEF ClearView
  <2>2. v # s
    <3> SUFFICES ASSUME v = s PROVE FALSE OBVIOUS
    <3>1. On("RemovePlayerSession", s) \in Calls(t) BY <2>1 DEF Tops, Leaving
    <3>2. On("RemovePlayerSession", s).at \in Leaf BY Ats DEF Leaf
    <3>3. On("ClearPlayerId", v) = On("RemovePlayerSession", s) BY <2>1, <3>1, <3>2, LeafRuns
    <3> QED BY <3>3, Apart
  <2> QED BY <1>2, <2>2 DEF ClearView, Types, Set
<1> QED BY <1>1, <1>2, Footprints DEF Footprint

(* Nobody disconnects a player whose login is being answered: the thread   *)
(* that could is the one that answers.                                     *)
LEMMA NotYetCut ==
  ASSUME Chain, Failures, NEW t \in Worker, NEW s \in Player, DisconnectView(t, s), mConnected[s],
         NEW u \in Worker, On("SetPlayerId", s) \in Calls(u)
  PROVE  FALSE
<1>1. Tops(t, On("Disconnect", s)) /\ On("Disconnect", s) \in Calls(t)
  BY DEF DisconnectView, Tops
<1>2. CutOff(t, s) BY <1>1 DEF Failures
<1>3. On("OnRead", s) \in Calls(u) BY DEF Chain, LoginCalls
<1>4. On("PreRecv", s) \in Calls(u) BY <1>3 DEF Chain
<1>5. recv[s] = "busy" BY <1>4 DEF Chain
<1>6. On("PreRecv", s) \in Calls(t) BY <1>2, <1>5 DEF CutOff
<1>7. u = t BY <1>4, <1>6 DEF Chain
<1>8. On("SetPlayerId", s).at \in Leaf BY Ats DEF Leaf
<1>9. On("Disconnect", s) = On("SetPlayerId", s) BY <1>1, <1>7, <1>8, LeafRuns
<1> QED BY <1>9, Apart

LEMMA MemberStays ==
  ASSUME Base, Chain, Leaving, Failures, NEW t \in Worker, ThreadView(t), NEW s \in Player,
         service[s] = "active", service'[s] = "active", Member(s)
  PROVE  Member(s)'
<1> USE DEF Base
<1>0. Loses(t) BY LosesLemma
<1>1. ASSUME mConnected[s], mPlayerSessionId[s] = s PROVE Member(s)'
  <2>1. mPlayerSessionId'[s] = s BY <1>1, IdStays
  <2>2. CASE mConnected'[s] = mConnected[s] BY <1>1, <2>1, <2>2 DEF Member
  <2>3. CASE DisconnectView(t, s)
    <3>1. On("OnDisconnect", s) \in Calls(t)' BY <1>1, <2>3 DEF DisconnectView, Moves
    <3> QED BY <2>1, <3>1 DEF Member
  <2> QED BY <2>2, <2>3, ThreadDisconnects
<1>2. ASSUME mConnected[s], NEW u \in Worker, On("SetPlayerId", s) \in Calls(u) PROVE Member(s)'
  <2>1. ~ DisconnectView(t, s) BY <1>2, NotYetCut
  <2>2. mConnected'[s] BY <1>2, <2>1, ThreadDisconnects
  <2>3. CASE On("SetPlayerId", s) \in Calls(u)' BY <2>2, <2>3 DEF Member
  <2>4. CASE On("SetPlayerId", s) \notin Calls(u)'
    <3>1. SetIdView(t, s) BY <1>0, <1>2, <2>4, LostOn DEF LeftOn
    <3>2. mPlayerSessionId'[s] = s BY <3>1 DEF SetIdView, Types, Set
    <3> QED BY <2>2, <3>2 DEF Member
  <2> QED BY <2>3, <2>4
<1>3. ASSUME mPlayerSessionId[s] = s, NEW u \in Worker, On("OnDisconnect", s) \in Calls(u)
      PROVE  Member(s)'
  <2>1. mPlayerSessionId'[s] = s BY <1>3, IdStays
  <2>2. CASE On("OnDisconnect", s) \in Calls(u)' BY <2>1, <2>2 DEF Member
  <2>3. CASE On("OnDisconnect", s) \notin Calls(u)'
    <3>1. OnDisconnectView(t, s) BY <1>0, <1>3, <2>3, LostOn DEF LeftOn
    <3>2. mPlayerSessionId[s] # NoId BY <1>3, GameServerAssumption
    <3>3. On("RemovePlayerSession", s) \in Calls(t)' BY <3>1, <3>2 DEF OnDisconnectView, Moves
    <3> QED BY <3>3 DEF Member
  <2> QED BY <2>2, <2>3
<1>4. ASSUME NEW u \in Worker, On("RemovePlayerSession", s) \in Calls(u) PROVE Member(s)'
  <2> SUFFICES ASSUME On("RemovePlayerSession", s) \notin Calls(u)' PROVE FALSE BY DEF Member
  <2>1. RemoveView(t, s) BY <1>0, <1>4, LostOn DEF LeftOn
  <2>2. service' = Set(service, s, "completed") BY <2>1 DEF RemoveView
  <2> QED BY <2>2 DEF Types, Set
<1> QED BY <1>1, <1>2, <1>3, <1>4 DEF Member

LEMMA MemberComes ==
  ASSUME Base, Chain, Doors, NEW t \in Worker, ThreadView(t), NEW s \in Player,
         service[s] # "active", service'[s] = "active"
  PROVE  Member(s)'
<1> USE DEF Base
<1>0. service \in [Player -> Phases] BY DEF Types
<1>1. LoginView(t, s) /\ service[s] = "reserved"
  <2>1. ASSUME NEW v \in Player, RemoveView(t, v) PROVE FALSE
    <3>1. service' = service \/ service' = Set(service, v, "completed") BY <2>1 DEF RemoveView
    <3> QED BY <1>0, <3>1 DEF Set
  <2>2. PICK v \in Player : LoginView(t, v) BY <2>1, Footprints DEF Footprint
  <2>3. service[v] = "reserved" /\ service' = Set(service, v, "active") BY <2>2 DEF LoginView
  <2>4. v = s BY <1>0, <2>3 DEF Set
  <2> QED BY <2>2, <2>3, <2>4
<1>2. On("PlayerLogin", s) \in Calls(t) BY <1>1 DEF LoginView, Tops
<1>3. On("OnRead", s) \in Calls(t) BY <1>2 DEF Chain, LoginCalls
<1>4. recv[s] = "busy" BY <1>3 DEF Chain
<1>5. client[s] # "out" BY <1>4 DEF Chain
<1>6. ~ Entered(s) BY <1>1 DEF Entered
<1>7. mConnected[s] BY <1>5, <1>6 DEF Doors, Outside
<1>8. mConnected'[s] BY <1>1, <1>7 DEF LoginView, sessions
<1>9. On("SetPlayerId", s) \in Calls(t)' BY <1>1 DEF LoginView, Moves
<1> QED BY <1>8, <1>9 DEF Member

LEMMA MembersOthers ==
  ASSUME Base, Roster, Members, SdkView \/ OutsideView \/ (UNCHANGED vars /\ Still)
  PROVE  Members'
<1> USE DEF Base
<1>1. /\ Still /\ UNCHANGED mPlayerSessionId
      /\ \A s \in Player : mConnected[s] => mConnected'[s]
  <2>1. ASSUME NEW v \in Player, mConnected' = Set(mConnected, v, TRUE), NEW s \in Player, mConnected[s]
        PROVE  mConnected'[s]
    BY <2>1 DEF Types, Set
  <2> QED BY <2>1, OthersConnect
<1>2. \A s \in Player : Member(s) => Member(s)' BY <1>1 DEF Still, Member
<1>3. Running' => Running
  BY DEF SdkView, CallStartView, CallTerminateView, StartGameView, CreateView,
         TerminateView, OutsideView, Outsider, InitializeGameLift, OnConnect, KernelSend,
         ClientStep, Reserve, StartTest, PlayTest, EndTest, HangUp, vars, manager, Running
<1>4. \A s \in Player : service'[s] = "active" => service[s] = "active"
  <2>1. SdkView \/ UNCHANGED vars => service' = service
    BY DEF SdkView, CallStartView, CallTerminateView, StartGameView, CreateView,
           TerminateView, vars, world
  <2>2. OutsideView => Here' = Here BY RosterOutside DEF OutsideView
  <2> QED BY <2>1, <2>2 DEF Here
<1> QED BY <1>2, <1>3, <1>4 DEF Members

LEMMA MembersStep ==
  ASSUME Base, Roster, Chain, Doors, Leaving, Failures, Members, StepView
  PROVE  Members'
<1>1. ASSUME NEW t \in Worker, ThreadView(t) PROVE Members'
  <2>1. Running BY <1>1, Footprints DEF Footprint
  <2>2. \A s \in Player : service'[s] = "active" => Member(s)'
    BY <1>1, <2>1, MemberStays, MemberComes DEF Members
  <2> QED BY <2>2 DEF Members
<1> QED BY <1>1, MembersOthers DEF StepView

-----------------------------------------------------------------------------
(* No ghosts.                                                              *)

Connections == Doors /\ Closings /\ Leaving /\ Failures /\ Members

LEMMA InitConnections == Init => Connections
<1> SUFFICES ASSUME Init PROVE Connections OBVIOUS
<1>1. \A t \in Worker : Calls(t) = {} BY InitCalls
<1>2. \A s \in Player : /\ inbox[s] = <<>> /\ client[s] = "out" /\ send[s] = "none"
                        /\ mConnected[s] = FALSE /\ service[s] = "none"
  BY DEF Init
<1>3. Doors BY <1>1, <1>2 DEF Doors, Outside, Early
<1>4. Closings /\ Leaving /\ Failures BY <1>1, <1>2 DEF Closings, Leaving, Failures
<1>5. Members BY <1>2 DEF Members
<1> QED BY <1>3, <1>4, <1>5 DEF Connections

LEMMA StepConnections ==
  ASSUME ~ SendMayFail, Delivery, Connections, NoOverflow, [Next]_vars
  PROVE  Connections'
<1>1. Base /\ Roster /\ Chain /\ Unsent BY DEF Delivery
<1>2. StepView BY <1>1, StepViews
<1>3. Doors /\ Closings /\ Leaving /\ Failures /\ Members BY DEF Connections
<1>4. Doors' BY <1>1, <1>2, <1>3, DoorsStep
<1>5. Closings' BY <1>1, <1>2, <1>3, ClosingsStep
<1>6. Leaving' BY <1>1, <1>2, <1>3, LeavingStep
<1>7. Failures' BY <1>1, <1>2, <1>3, FailuresStep
<1>8. Members' BY <1>1, <1>2, <1>3, MembersStep
<1> QED BY <1>4, <1>5, <1>6, <1>7, <1>8 DEF Connections

LEMMA CallInvolves ==
  ASSUME NEW t \in Worker, NEW at, NEW s, On(at, s) \in Calls(t)
  PROVE  Involved(t, s)
<1>1. PICK i \in 1 .. Len(stack[t]) : stack[t][i] = On(at, s) BY DEF Calls, Frames
<1>2. "s" \in DOMAIN On(at, s) /\ On(at, s).s = s BY DEF On
<1> QED BY <1>1, <1>2 DEF Involved

LEMMA MembersNoGhost == Roster /\ Members => NoGhost
<1> SUFFICES ASSUME Roster, Members, mGameSession # NoGame, NEW s \in mGameSession
             PROVE  mConnected[s] \/ \E t \in Thread : Involved(t, s)
  BY DEF NoGhost
<1>1. Running BY DEF Roster
<1>2. s \in Player /\ service[s] = "active" BY DEF Roster, Here
<1>3. Member(s) BY <1>1, <1>2 DEF Members
<1>4. \A t \in Worker : t \in Thread BY DEF Thread
<1>5. \A t \in Worker, at \in {"OnDisconnect", "RemovePlayerSession"} :
        On(at, s) \in Calls(t) => Involved(t, s)
  BY CallInvolves
<1> QED BY <1>3, <1>4, <1>5 DEF Member

-----------------------------------------------------------------------------
(* A player that the game session keeps is connected, or its removal has   *)
(* begun: mConnected turns FALSE in Disconnect, which goes on to           *)
(* OnDisconnect and RemovePlayerSession if the session has its id, and no  *)
(* thread gives the connection up between AcceptPlayerSession and          *)
(* SetPlayerId.  A broadcast would, when its packet is refused by a full   *)
(* buffer or its send fails, and the player would stay as a ghost: the     *)
(* theorem is about the behaviours without these.                          *)
THEOREM GhostsNeedFailures ==
  ASSUME ~ SendMayFail
  PROVE  Spec /\ []NoOverflow => []NoGhost
<1>1. Init => Delivery /\ Connections BY InitDelivery, InitConnections
<1>2. Delivery /\ Connections /\ NoOverflow /\ [Next]_vars => (Delivery /\ Connections)'
  BY StepDelivery, StepConnections
<1>3. Delivery /\ Connections => NoGhost BY MembersNoGhost DEF Delivery, Connections
<1> QED BY <1>1, <1>2, <1>3, PTL DEF Spec
=============================================================================
