------------------------- MODULE LinuxServerProofs --------------------------
(***************************************************************************)
(* Proofs about LinuxServer: for every set of players and descriptors and  *)
(* every size of buffers, the list of clients, the epoll registrations and *)
(* the sessions' sockets agree (ListAgrees), no disconnected session stays *)
(* in an active game session (NoGhost), every event of a batch finds its   *)
(* connected session as long as no broadcast meets a full buffer           *)
(* (AssertConnected), and the server implements GameSessionLife.           *)
(***************************************************************************)
EXTENDS LinuxServer, FiniteSetTheorems, NaturalsInduction,
        WellFoundedInduction, TLAPS

-----------------------------------------------------------------------------
(* The inductive invariant.                                                *)

Places  == {"init", "wait", "events", "receive", "disconnect", "broadcast",
            "flush", "crashed"}
Phases  == {"none", "reserved", "active", "completed"}
Kinds   == {"login", "chat", "exit", "other"}
Ends    == {"out", "open", "fin", "reset", "closed"}

Types ==
  /\ mAcceptedCount \in Nat /\ mRemovedCount \in Nat
  /\ mPlayerSessions \subseteq Player
  /\ mClientList \in [Fd -> Player \cup {NoSession}]
  /\ watched \subseteq Fd /\ ready \subseteq watched
  /\ mConnected \in [Player -> BOOLEAN]
  /\ mPlayerSessionId \in [Player -> Player \cup {NoId}]
  /\ mSocket \in [Player -> Fd \cup {NoFd}]
  /\ outbox \in [Player -> Nat]
  /\ at \in Places /\ batch \subseteq Fd \cup {Listen}
  /\ cur \in Player \cup {NoSession} /\ todo \subseteq Player
  /\ gameStatus \in {"none", "active", "ended"}
  /\ service \in [Player -> Phases]
  /\ backlog \subseteq Player /\ peer \in [Player -> Ends]
  /\ said \in [Player -> {"nothing", "login", "leaving"}]
  /\ inbox \in [Player -> Seq(Kinds)]
  /\ inflight \in [Player -> 0 .. Window]

(* A socket is open exactly while somebody owns its session.               *)
Sockets ==
  \A s \in Player : mSocket[s] # NoFd <=> Owned(s)

(* Sessions that were not accepted yet.                                    *)
Waiting ==
  \A s \in Player :
    /\ peer[s] = "out" \/ s \in backlog => mSocket[s] = NoFd
    /\ peer[s] = "out" => s \notin backlog /\ service[s] = "none"

(* Where the event loop stands fixes what its variables may be.            *)
Loop ==
  /\ at \in {"receive", "disconnect", "broadcast"} => cur \in Player
  /\ at \in {"init", "wait", "events", "flush"} => cur = NoSession
  /\ at = "flush" => \A s \in todo : \E f \in Fd : mClientList[f] = s
  /\ at = "broadcast" => todo \subseteq mPlayerSessions

(* A session whose login has not been handled: nobody can have             *)
(* disconnected it.                                                        *)
Unlogged(s) ==
  /\ s \notin mPlayerSessions /\ outbox[s] = 0
  /\ mPlayerSessionId[s] = NoId
  /\ mSocket[s] # NoFd => mConnected[s]
  /\ cur = s => at = "receive"

(* A login is the first request of its connection and is handled once.     *)
Logins ==
  \A s \in Player :
    /\ \A i \in 1 .. Len(inbox[s]) :
         inbox[s][i] = "login" => i = 1 /\ Unlogged(s)
    /\ said[s] = "nothing" =>
         inbox[s] = <<>> /\ Unlogged(s) /\ peer[s] # "reset"

(* The players of an active game session are connected, know their id and  *)
(* are known to the service.                                               *)
Members ==
  /\ gameStatus = "active" => \A s \in mPlayerSessions :
       mConnected[s] /\ mPlayerSessionId[s] # NoId /\ service[s] = "active"
  /\ gameStatus = "none" => mPlayerSessions = {}

IInv == Types /\ ListAgrees /\ Sockets /\ Waiting /\ Loop /\ Logins /\ Members

(* The events that are left belong to connected sessions other than the    *)
(* one that is being handled.                                              *)
Batch ==
  /\ \A f \in batch \ {Listen} :
       mClientList[f] # NoSession /\ mClientList[f] # cur
  /\ at \in {"init", "wait", "flush"} => batch = {}

(* No broadcast meets a full buffer.                                       *)
NoOverflow == at = "broadcast" => \A s \in todo : ~ NoRoom(s)

(* The counters count what the service knows, and a game session that was  *)
(* full and is empty has been ended.                                       *)
Counts ==
  /\ mAcceptedCount =
       Cardinality({s \in Player : service[s] \in {"active", "completed"}})
  /\ mRemovedCount = Cardinality({s \in Player : service[s] = "completed"})
  /\ at = "init" => mAcceptedCount = 0 /\ mRemovedCount = 0
  /\ gameStatus = "none" => \A s \in Player : service[s] = "none"
  /\ gameStatus = "active" => ~ CheckTerminateGameSession(mRemovedCount)

-----------------------------------------------------------------------------
(* Lemmas about the operators of the model.                                *)

(* Every non-empty set of naturals has a least element, which Least picks. *)
LEMMA LeastIs ==
  ASSUME NEW S, S \subseteq Nat, S # {}
  PROVE  Least(S) \in S
<1> DEFINE R == {ss \in Nat \X Nat : ss[1] < ss[2]}
<1>0. R = OpToRel(<, Nat) BY Zenon DEF OpToRel
<1>1. \A y, x \in Nat : y < x => <<y, x>> \in R OBVIOUS
<1> HIDE DEF R
<1>2. IsWellFoundedOn(R, Nat) BY <1>0, NatLessThanWellFounded
<1>3. PICK x \in S : \A y \in S : ~ (<<y, x>> \in R) BY <1>2, WFMin
<1>4. \A y \in S : x <= y
  <2> SUFFICES ASSUME NEW y \in S PROVE x <= y OBVIOUS
  <2>1. ~ (y < x) BY <1>1, <1>3
  <2>2. y \in Nat /\ x \in Nat OBVIOUS
  <2> QED BY <2>1, <2>2
<1> QED BY <1>4 DEF Least

(* The session the flush turns to is one of those it has left.             *)
LEMMA NextToFlushIs ==
  ASSUME Types, Loop, at = "flush", todo # {}
  PROVE  NextToFlush \in todo
<1> DEFINE F == {f \in Fd : mClientList[f] \in todo}
<1>1. F # {} BY DEF Loop
<1>2. F \subseteq Nat BY LinuxServerAssumption
<1>3. Least(F) \in F BY <1>1, <1>2, LeastIs
<1> QED BY <1>3 DEF NextToFlush

(* Entries of the list and connected sessions belong together.             *)
LEMMA ListFacts ==
  ASSUME Types, ListAgrees
  PROVE  /\ \A s \in Player, f \in Fd :
              mClientList[f] = s => mSocket[s] = f /\ mConnected[s]
         /\ \A s \in Player : mConnected[s] =>
              mSocket[s] \in Fd /\ mClientList[mSocket[s]] = s
         /\ \A s \in Player : ~ mConnected[s] => mSocket[s] \notin watched
<1> USE LinuxServerAssumption DEF NoFd
<1>1. ASSUME NEW s \in Player, NEW f \in Fd, mClientList[f] = s
      PROVE  mSocket[s] = f /\ mConnected[s]
  <2>1. s # NoSession OBVIOUS
  <2>2. f \in watched BY <1>1, <2>1 DEF ListAgrees
  <2>3. mSocket[s] = f BY <1>1, <2>2 DEF ListAgrees
  <2>4. f # 0 OBVIOUS
  <2> QED BY <1>1, <2>3, <2>4 DEF ListAgrees
<1>2. ASSUME NEW s \in Player, mConnected[s]
      PROVE  mSocket[s] \in Fd /\ mClientList[mSocket[s]] = s
  BY <1>2 DEF ListAgrees, Types
<1>3. ASSUME NEW s \in Player, ~ mConnected[s], mSocket[s] \in watched
      PROVE  FALSE
  <2>1. mSocket[s] \in Fd /\ mClientList[mSocket[s]] # NoSession BY <1>3 DEF ListAgrees
  <2>2. PICK r \in Player : r = mClientList[mSocket[s]] BY <2>1 DEF Types
  <2>3. mSocket[r] = mSocket[s] /\ mConnected[r] BY <1>1, <2>1, <2>2
  <2>4. r # s BY <1>3, <2>3
  <2> QED BY <2>3, <2>4, <2>1 DEF ListAgrees
<1> QED BY <1>1, <1>2, <1>3

(* What Disconnect(s) does, whether or not s is connected.                 *)
Leaves(s) ==
  /\ mConnected' = Set(mConnected, s, FALSE)
  /\ mClientList' = [f \in Fd |-> IF mClientList[f] = s THEN NoSession
                                  ELSE mClientList[f]]
  /\ watched' = watched \ {mSocket[s]} /\ ready' = ready \ {mSocket[s]}
  /\ mPlayerSessions' = mPlayerSessions \/ mPlayerSessions' = mPlayerSessions \ {s}
  /\ \/ mPlayerSessionId' = mPlayerSessionId
     \/ mPlayerSessionId' = Set(mPlayerSessionId, s, NoId)
  /\ mAcceptedCount' = mAcceptedCount /\ mRemovedCount' \in Nat
  /\ \/ service' = service
     \/ service[s] = "active" /\ service' = Set(service, s, "completed")
  /\ gameStatus' = gameStatus \/ gameStatus' = "ended"
  /\ gameStatus' = "active" => s \notin mPlayerSessions'

(* Disconnect(s) keeps its promise, although its RemovePlayerSession may   *)
(* be refused or end the game session.                                     *)
LEMMA DisconnectLeaves ==
  ASSUME Types, ListAgrees, Members, NEW s \in Player, Disconnect(s)
  PROVE  Leaves(s)
<1> USE LinuxServerAssumption DEF NoFd
<1>1. CASE mConnected[s]
  <2>1. /\ mConnected' = Set(mConnected, s, FALSE) /\ OnDisconnect(s)
        /\ DeleteClient(s)
    BY <1>1 DEF Disconnect
  <2>2. /\ mClientList' = [f \in Fd |-> IF mClientList[f] = s THEN NoSession
                                        ELSE mClientList[f]]
        /\ watched' = watched \ {mSocket[s]} /\ ready' = ready \ {mSocket[s]}
    <3>1. mSocket[s] \in Fd /\ mClientList[mSocket[s]] = s BY <1>1, ListFacts
    <3>2. \A f \in Fd : mClientList[f] = s => f = mSocket[s] BY ListFacts
    <3>3. mClientList' = [mClientList EXCEPT ![mSocket[s]] = NoSession]
      BY <2>1 DEF DeleteClient, Set
    <3>4. mClientList' = [f \in Fd |-> IF f = mSocket[s] THEN NoSession
                                      ELSE mClientList[f]]
      BY <3>1, <3>3 DEF Types
    <3>5. \A f \in Fd : f = mSocket[s] <=> mClientList[f] = s BY <3>1, <3>2
    <3> QED BY <2>1, <3>4, <3>5 DEF DeleteClient
  <2>3. CASE mPlayerSessionId[s] = NoId
    BY <2>1, <2>2, <2>3 DEF OnDisconnect, Leaves, Types, Members, manager
  <2>4. CASE mPlayerSessionId[s] # NoId
    <3>1. RemovePlayerSession(s) /\ UNCHANGED mAcceptedCount
          /\ mPlayerSessionId' = Set(mPlayerSessionId, s, NoId)
      BY <2>1, <2>4 DEF OnDisconnect
    <3>2. mRemovedCount' \in Nat BY <3>1 DEF RemovePlayerSession, Types
    <3>3. gameStatus' = gameStatus \/ gameStatus' = "ended"
      BY <3>1 DEF RemovePlayerSession
    <3>4. CASE service[s] = "active" /\ gameStatus = "active"
      BY <3>1, <3>2, <3>3, <3>4, <2>1, <2>2 DEF RemovePlayerSession, Leaves
    <3>5. CASE ~ (service[s] = "active" /\ gameStatus = "active")
      <4>1. mPlayerSessions' = mPlayerSessions /\ service' = service
        BY <3>1, <3>5 DEF RemovePlayerSession
      <4>2. gameStatus' = "active" => s \notin mPlayerSessions'
        BY <3>3, <3>5, <4>1 DEF Members
      <4> QED BY <3>1, <3>2, <3>3, <4>1, <4>2, <2>1, <2>2 DEF Leaves
    <3> QED BY <3>4, <3>5
  <2> QED BY <2>3, <2>4
<1>2. CASE ~ mConnected[s]
  <2>1. UNCHANGED <<mConnected, mPlayerSessionId, manager, service, gameStatus,
                    clients>>
    BY <1>2 DEF Disconnect
  <2>2. \A f \in Fd : mClientList[f] # s BY <1>2, ListFacts
  <2>3. mSocket[s] \notin watched BY <1>2, ListFacts
  <2>7. mSocket[s] \notin ready BY <2>3 DEF Types
  <2>4. s \notin mPlayerSessions \/ gameStatus # "active" BY <1>2 DEF Members
  <2>5. mConnected' = Set(mConnected, s, FALSE) BY <1>2, <2>1 DEF Types, Set
  <2>6. mClientList' = [f \in Fd |-> IF mClientList[f] = s THEN NoSession
                                    ELSE mClientList[f]]
    BY <2>1, <2>2 DEF Types, clients
  <2>8. watched' = watched \ {mSocket[s]} /\ ready' = ready \ {mSocket[s]}
    BY <2>1, <2>3, <2>7 DEF clients
  <2>9. /\ mPlayerSessions' = mPlayerSessions /\ mAcceptedCount' = mAcceptedCount
        /\ mRemovedCount' \in Nat
    BY <2>1 DEF manager, Types
  <2> QED BY <2>1, <2>4, <2>5, <2>6, <2>8, <2>9 DEF Leaves
<1> QED BY <1>1, <1>2

(* What the destruction of the sessions without an owner does.             *)
Closes ==
  /\ mSocket' \in [Player -> Fd \cup {NoFd}] /\ peer' \in [Player -> Ends]
  /\ \A r \in Player :
       /\ Owned(r)' => mSocket'[r] = mSocket[r]
       /\ ~ Owned(r)' => mSocket'[r] = NoFd
       /\ peer'[r] = peer[r] \/ (peer'[r] = "closed" /\ mSocket[r] # NoFd)

(* The destruction in the same step closes exactly the sockets without an  *)
(* owner.                                                                  *)
LEMMA CloseUnownedCloses ==
  ASSUME Types, CloseUnowned
  PROVE  Closes
<1>1. \A r \in Player :
        /\ mSocket'[r] = IF Owned(r)' THEN mSocket[r] ELSE NoFd
        /\ peer'[r] = IF mSocket[r] # NoFd /\ ~ Owned(r)' THEN "closed"
                      ELSE peer[r]
  BY DEF CloseUnowned
<1>2. /\ \A r \in Player : mSocket'[r] \in Fd \cup {NoFd}
      /\ \A r \in Player : peer'[r] \in Ends
  BY <1>1 DEF Types, Ends
<1>3. /\ mSocket' \in [Player -> Fd \cup {NoFd}]
      /\ peer' \in [Player -> Ends]
  BY <1>2 DEF CloseUnowned
<1> QED BY <1>1, <1>3 DEF Closes

(* The entries left after s has gone (or nobody has).                      *)
Shrinks ==
  /\ \A f \in Fd : mClientList'[f] = mClientList[f]
                     \/ mClientList'[f] = NoSession
  /\ mPlayerSessions' \subseteq mPlayerSessions
  /\ \A r \in Player : mConnected'[r] => mConnected[r]
  /\ \A r \in Player : mConnected'[r] <=>
       \E f \in Fd : mClientList'[f] = r
  /\ watched' = {f \in Fd : mClientList'[f] # NoSession}
  /\ mClientList' \in [Fd -> Player \cup {NoSession}]
  /\ ready' \subseteq watched'
  /\ mConnected' \in [Player -> BOOLEAN]

(* A session that leaves takes its own entry along and no other.           *)
LEMMA LeavesShrinks ==
  ASSUME Types, ListAgrees, NEW s \in Player, Leaves(s)
  PROVE  Shrinks
<1> USE LinuxServerAssumption DEF NoFd
<1>1. \A f \in Fd : mClientList'[f] = IF mClientList[f] = s THEN NoSession
                                      ELSE mClientList[f]
  BY DEF Leaves
<1>2. mClientList' \in [Fd -> Player \cup {NoSession}]
  BY <1>1 DEF Leaves, Types
<1>3. mConnected' \in [Player -> BOOLEAN] BY DEF Leaves, Types, Set
<1>4. \A r \in Player : mConnected'[r] = IF r = s THEN FALSE ELSE mConnected[r]
  BY DEF Leaves, Types, Set
<1>5. \A r \in Player : mConnected'[r] <=> \E f \in Fd : mClientList'[f] = r
  <2>1. ASSUME NEW r \in Player, mConnected'[r]
        PROVE  \E f \in Fd : mClientList'[f] = r
    BY <2>1, <1>1, <1>4, ListFacts
  <2>2. ASSUME NEW r \in Player, NEW f \in Fd, mClientList'[f] = r
        PROVE  mConnected'[r]
    BY <2>2, <1>1, <1>4, ListFacts
  <2> QED BY <2>1, <2>2
<1>6. watched' = {f \in Fd : mClientList'[f] # NoSession}
  <2>1. \A f \in Fd : f \in watched <=> mClientList[f] # NoSession
    BY DEF ListAgrees
  <2>2. \A f \in Fd : mClientList[f] = s => f = mSocket[s] BY ListFacts
  <2>3. ASSUME NEW f \in watched, f = mSocket[s] PROVE mClientList[f] = s
    BY <2>3, ListFacts DEF Types
  <2>4. \A f \in Fd : f \in watched' <=> mClientList'[f] # NoSession
    BY <1>1, <2>1, <2>2, <2>3 DEF Leaves
  <2>5. watched' \subseteq Fd BY DEF Leaves, Types
  <2> QED BY <2>4, <2>5
<1>7. ready' \subseteq watched' BY DEF Leaves, Types
<1>8. mPlayerSessions' \subseteq mPlayerSessions BY DEF Leaves
<1> QED BY <1>1, <1>2, <1>3, <1>4, <1>5, <1>6, <1>7, <1>8 DEF Shrinks

(* So does nobody.                                                         *)
LEMMA SameShrinks ==
  ASSUME Types, ListAgrees,
         UNCHANGED <<mClientList, watched, ready, mConnected, mPlayerSessions>>
  PROVE  Shrinks
<1> USE LinuxServerAssumption DEF NoFd
<1>1. \A r \in Player : mConnected[r] <=> \E f \in Fd : mClientList[f] = r
  BY ListFacts
<1> QED BY <1>1 DEF Shrinks, Types, ListAgrees

(* Agreement is kept when sessions leave and are destroyed.                *)
LEMMA ShrinkCloses ==
  ASSUME Types, ListAgrees, Sockets, Waiting, Shrinks, Closes,
         cur' = cur \/ cur' = NoSession, backlog' = backlog,
         \A r \in Player : peer[r] = "out" => service'[r] = "none"
  PROVE  ListAgrees' /\ Sockets' /\ Waiting'
<1> USE LinuxServerAssumption DEF NoFd
<1>1. \A r \in Player : (\E f \in Fd : mClientList'[f] = r) => Owned(r)'
  BY DEF Owned
<1>2. \A r \in Player, f \in Fd : mClientList'[f] = r => mClientList[f] = r
  BY DEF Shrinks
<1>3. \A r \in Player, f \in Fd : mClientList'[f] = r => mSocket'[r] = f
  BY <1>1, <1>2, ListFacts DEF Closes
<1>4. \A r \in Player : mSocket'[r] # NoFd => mSocket'[r] = mSocket[r]
  BY DEF Closes
<1>5. ListAgrees'
  <2>1. ASSUME NEW r \in Player
        PROVE  mConnected'[r] <=>
                 mSocket'[r] # NoFd /\ mClientList'[mSocket'[r]] = r
    <3>1. mSocket'[r] \in Fd \cup {NoFd} BY DEF Closes
    <3>2. mConnected'[r] <=> \E f \in Fd : mClientList'[f] = r BY DEF Shrinks
    <3>3. \A f \in Fd : f # 0 OBVIOUS
    <3> QED BY <3>1, <3>2, <3>3, <1>3
  <2>2. ASSUME NEW f \in watched' PROVE mSocket'[mClientList'[f]] = f
    <3>1. f \in Fd /\ mClientList'[f] # NoSession BY DEF Shrinks
    <3>2. mClientList'[f] \in Player BY <3>1 DEF Shrinks
    <3> QED BY <3>1, <3>2, <1>3
  <2>3. ASSUME NEW r \in Player, NEW q \in Player, r # q, mSocket'[r] # NoFd
        PROVE  mSocket'[r] # mSocket'[q]
    BY <2>3, <1>4 DEF ListAgrees
  <2>4. watched' = {f \in Fd : mClientList'[f] # NoSession} BY DEF Shrinks
  <2> QED BY <2>1, <2>2, <2>3, <2>4 DEF ListAgrees
<1>6. Sockets'
  <2>1. ASSUME NEW r \in Player, Owned(r)' PROVE mSocket'[r] # NoFd
    <3>1. cur' = r \/ r \in mPlayerSessions' \/ \E f \in Fd : mClientList'[f] = r
      BY <2>1 DEF Owned
    <3>2. r # NoSession OBVIOUS
    <3>3. cur = r \/ r \in mPlayerSessions \/ \E f \in Fd : mClientList[f] = r
      BY <3>1, <3>2, <1>2 DEF Shrinks
    <3>4. mSocket[r] # NoFd BY <3>3 DEF Sockets, Owned
    <3> QED BY <2>1, <3>4 DEF Closes
  <2>2. ASSUME NEW r \in Player, mSocket'[r] # NoFd PROVE Owned(r)'
    BY <2>2 DEF Closes
  <2>3. \A r \in Player : mSocket'[r] # NoFd <=> Owned(r)' BY <2>1, <2>2
  <2> QED BY <2>3 DEF Sockets, Owned
<1>7. Waiting'
  <2> SUFFICES ASSUME NEW r \in Player
               PROVE  /\ peer'[r] = "out" \/ r \in backlog' => mSocket'[r] = NoFd
                      /\ peer'[r] = "out" => r \notin backlog' /\ service'[r] = "none"
    BY DEF Waiting
  <2>1. peer'[r] = "out" => peer[r] = "out" BY DEF Closes
  <2> QED BY <2>1, <1>4 DEF Waiting
<1> QED BY <1>5, <1>6, <1>7

(* The logins are not touched when a session that has logged in leaves.    *)
LEMMA LeavesLogins ==
  ASSUME Types, Logins, NEW s \in Player, Leaves(s),
         Unlogged(s) => inbox[s] = <<>> /\ said[s] # "nothing",
         inbox' = inbox, said' = said,
         \A r \in Player : peer'[r] = "reset" => peer[r] = "reset",
         \A r \in Player : mSocket'[r] # NoFd => mSocket[r] # NoFd,
         \A r \in Player : r \notin mPlayerSessions => outbox'[r] = outbox[r],
         \A r \in Player : cur' = r => at' = "receive" \/ (cur = r /\ at # "receive")
  PROVE  Logins'
<1>1. ASSUME NEW r \in Player, r # s, Unlogged(r) PROVE Unlogged(r)'
  BY <1>1 DEF Unlogged, Leaves, Types, Set
<1>2. ASSUME NEW r \in Player
      PROVE  \A i \in 1 .. Len(inbox'[r]) :
               inbox'[r][i] = "login" => i = 1 /\ Unlogged(r)'
  <2> SUFFICES ASSUME NEW i \in 1 .. Len(inbox[r]), inbox[r][i] = "login"
               PROVE  i = 1 /\ Unlogged(r)'
    OBVIOUS
  <2>1. i = 1 /\ Unlogged(r) BY DEF Logins
  <2>2. inbox[r] # <<>> OBVIOUS
  <2>3. r # s BY <2>1, <2>2
  <2> QED BY <2>1, <2>3, <1>1
<1>3. ASSUME NEW r \in Player, said'[r] = "nothing"
      PROVE  inbox'[r] = <<>> /\ Unlogged(r)' /\ peer'[r] # "reset"
  <2>1. inbox[r] = <<>> /\ Unlogged(r) /\ peer[r] # "reset" BY <1>3 DEF Logins
  <2>2. r # s BY <2>1, <1>3
  <2> QED BY <2>1, <2>2, <1>1
<1> QED BY <1>2, <1>3 DEF Logins

(* Whoever stays in the game session stays connected.                      *)
LEMMA LeavesMembers ==
  ASSUME Types, Members, NEW s \in Player, Leaves(s)
  PROVE  Members'
BY DEF Members, Leaves, Types, Set

-----------------------------------------------------------------------------
(* One lemma per action.                                                   *)

(* Nothing is lost where nothing is changed.                               *)
LEMMA ListKept ==
  ASSUME ListAgrees, UNCHANGED <<mClientList, watched, mConnected, mSocket>>
  PROVE  ListAgrees'
BY DEF ListAgrees

(* The same for the owners of the sockets.                                 *)
LEMMA SocketsKept ==
  ASSUME Sockets, UNCHANGED <<mSocket, cur, mPlayerSessions, mClientList>>
  PROVE  Sockets'
BY DEF Sockets, Owned

(* The steps of the start, of the SDK's thread and of the wait for events  *)
(* keep the invariant.                                                     *)
LEMMA InitializeGameLiftStep ==
  ASSUME Types, ListAgrees, Sockets, Waiting, Loop, Logins, Members,
         InitializeGameLift
  PROVE  IInv'
<1> USE LinuxServerAssumption DEF NoFd, Listen, InitializeGameLift, manager,
    clients, sessions, loop, lift, outside
<1>1. Types' BY DEF Types, Places, Phases, Kinds, Ends
<1>2. ListAgrees' BY ListKept
<1>3. Sockets' BY SocketsKept
<1>4. Waiting' BY DEF Waiting, Types
<1>5. Loop' BY DEF Loop, Types
<1>6. Logins' BY DEF Logins, Unlogged, Types
<1>7. Members' BY DEF Members, Types
<1> QED BY <1>1, <1>2, <1>3, <1>4, <1>5, <1>6, <1>7 DEF IInv

LEMMA OnStartGameSessionStep ==
  ASSUME Types, ListAgrees, Sockets, Waiting, Loop, Logins, Members,
         OnStartGameSession
  PROVE  IInv'
<1> USE LinuxServerAssumption DEF NoFd, Listen, OnStartGameSession, manager,
    clients, sessions, loop, lift, outside
<1>1. Types' BY DEF Types, Places, Phases, Kinds, Ends
<1>2. ListAgrees' BY ListKept
<1>3. Sockets' BY SocketsKept
<1>4. Waiting' BY DEF Waiting, Types
<1>5. Loop' BY DEF Loop, Types
<1>6. Logins' BY DEF Logins, Unlogged, Types
<1>7. Members' BY DEF Members, Types
<1> QED BY <1>1, <1>2, <1>3, <1>4, <1>5, <1>6, <1>7 DEF IInv

LEMMA OnProcessTerminateStep ==
  ASSUME Types, ListAgrees, Sockets, Waiting, Loop, Logins, Members,
         OnProcessTerminate
  PROVE  IInv'
<1> USE LinuxServerAssumption DEF NoFd, Listen, OnProcessTerminate, manager,
    clients, sessions, loop, lift, outside
<1>1. Types' BY DEF Types, Places, Phases, Kinds, Ends
<1>2. ListAgrees' BY ListKept
<1>3. Sockets' BY SocketsKept
<1>4. Waiting' BY DEF Waiting, Types
<1>5. Loop' BY DEF Loop, Types
<1>6. Logins' BY DEF Logins, Unlogged, Types
<1>7. Members' BY DEF Members, Types
<1> QED BY <1>1, <1>2, <1>3, <1>4, <1>5, <1>6, <1>7 DEF IInv

LEMMA DeactivateStep ==
  ASSUME Types, ListAgrees, Sockets, Waiting, Loop, Logins, Members,
         Deactivate
  PROVE  IInv'
<1> USE LinuxServerAssumption DEF NoFd, Listen, Deactivate, manager, clients,
    sessions, loop, lift, outside
<1>1. Types' BY DEF Types, Places, Phases, Kinds, Ends
<1>2. ListAgrees' BY ListKept
<1>3. Sockets' BY SocketsKept
<1>4. Waiting' BY DEF Waiting, Types
<1>5. Loop' BY DEF Loop, Types
<1>6. Logins' BY DEF Logins, Unlogged, Types
<1>7. Members' BY DEF Members, Types
<1> QED BY <1>1, <1>2, <1>3, <1>4, <1>5, <1>6, <1>7 DEF IInv

LEMMA EpollWaitStep ==
  ASSUME Types, ListAgrees, Sockets, Waiting, Loop, Logins, Members,
         EpollWait
  PROVE  IInv'
<1> USE LinuxServerAssumption DEF NoFd, Listen, EpollWait, Pending, manager,
    clients, sessions, loop, lift, outside
<1>1. Types' BY DEF Types, Places, Phases, Kinds, Ends
<1>2. ListAgrees' BY ListKept
<1>3. Sockets' BY SocketsKept
<1>4. Waiting' BY DEF Waiting, Types
<1>5. Loop' BY DEF Loop, Types
<1>6. Logins' BY DEF Logins, Unlogged, Types
<1>7. Members' BY DEF Members, Types
<1> QED BY <1>1, <1>2, <1>3, <1>4, <1>5, <1>6, <1>7 DEF IInv

(* Accepting a client keeps the invariant: the least free descriptor has   *)
(* no entry in the list, so the insertion takes place.                     *)
LEMMA AcceptClientStep ==
  ASSUME Types, ListAgrees, Sockets, Waiting, Loop, Logins, Members,
         AcceptClient
  PROVE  IInv'
<1> USE LinuxServerAssumption DEF NoFd, Listen
<1>1. CASE backlog = {} \/ Fd \subseteq Used
  <2>1. /\ batch' = batch \ {Listen}
        /\ UNCHANGED <<backlog, mSocket, mClientList, mConnected, watched, ready,
                       manager, mPlayerSessionId, outbox, at, cur, todo, lift,
                       peer, said, inbox, inflight, heard, chats>>
    BY <1>1 DEF AcceptClient
  <2>2. Types' BY <2>1 DEF Types, manager, lift
  <2>3. ListAgrees' BY <2>1 DEF ListAgrees
  <2>4. Sockets' BY <2>1 DEF Sockets, Owned, manager
  <2>5. Waiting' BY <2>1 DEF Waiting, lift
  <2>6. Loop' BY <2>1 DEF Loop, manager
  <2>7. Logins' BY <2>1 DEF Logins, Unlogged, manager
  <2>8. Members' BY <2>1 DEF Members, manager, lift
  <2> QED BY <2>2, <2>3, <2>4, <2>5, <2>6, <2>7, <2>8 DEF IInv
<1>2. CASE ~ (backlog = {} \/ Fd \subseteq Used)
  <2>1. Least(Fd \ Used) \in Fd \ Used BY <1>2, LeastIs
  <2>2. PICK f \in Fd \ Used : f = Least(Fd \ Used) BY <2>1
  <2>3. /\ \A r \in Player : mSocket[r] # f
        /\ f \in Fd /\ f # NoFd
    BY <2>2 DEF Used
  <2>4. f \notin watched BY <2>3 DEF ListAgrees, Types
  <2>5. mClientList[f] = NoSession BY <2>3, <2>4 DEF ListAgrees
  <2>6. PICK s \in backlog :
          /\ backlog' = backlog \ {s}
          /\ mSocket' = [mSocket EXCEPT ![s] = f]
          /\ mClientList' = [mClientList EXCEPT ![f] = s]
          /\ mConnected' = [mConnected EXCEPT ![s] = TRUE]
          /\ watched' = watched \cup {f}
          /\ ready' \subseteq ready \cup {f}
    BY <1>2, <2>2, <2>5 DEF AcceptClient, Set
  <2>7. /\ batch' = batch \ {Listen} /\ at = "events" /\ cur = NoSession
        /\ UNCHANGED <<manager, mPlayerSessionId, outbox, at, cur, todo, lift,
                       peer, said, inbox, inflight, heard, chats>>
    BY DEF AcceptClient, Loop
  <2>8. /\ s \in Player /\ s # NoSession /\ mSocket[s] = NoFd
        /\ ~ mConnected[s] /\ ~ Owned(s)
    BY <2>6 DEF Types, Waiting, Sockets, ListAgrees
  <2>9. Types' BY <2>3, <2>6, <2>7, <2>8 DEF Types, manager, lift
  <2>10. ListAgrees'
    <3>1. /\ \A r \in Player : mSocket'[r] = IF r = s THEN f ELSE mSocket[r]
          /\ \A r \in Player : mConnected'[r] = IF r = s THEN TRUE ELSE mConnected[r]
          /\ \A g \in Fd : mClientList'[g] = IF g = f THEN s ELSE mClientList[g]
      BY <2>3, <2>6, <2>8 DEF Types
    <3>2. ASSUME NEW r \in Player
          PROVE  mConnected'[r] <=>
                   mSocket'[r] # NoFd /\ mClientList'[mSocket'[r]] = r
      <4>1. CASE r = s BY <4>1, <2>3, <3>1
      <4>2. CASE r # s
        <5>1. mSocket'[r] = mSocket[r] /\ mConnected'[r] = mConnected[r]
          BY <4>2, <3>1
        <5>2. mSocket[r] \in Fd \cup {NoFd} /\ mSocket[r] # f BY <2>3 DEF Types
        <5>3. mSocket[r] # NoFd => mClientList'[mSocket[r]] = mClientList[mSocket[r]]
          BY <5>2, <3>1
        <5>4. mConnected[r] <=> mSocket[r] # NoFd /\ mClientList[mSocket[r]] = r
          BY DEF ListAgrees
        <5> QED BY <5>1, <5>3, <5>4
      <4> QED BY <4>1, <4>2
    <3>3. watched' = {g \in Fd : mClientList'[g] # NoSession}
      BY <2>3, <2>6, <2>8, <3>1 DEF ListAgrees
    <3>4. ASSUME NEW g \in watched' PROVE mSocket'[mClientList'[g]] = g
      <4>1. CASE g = f BY <4>1, <2>3, <2>8, <3>1
      <4>2. CASE g # f
        <5>1. g \in watched /\ g \in Fd /\ mClientList[g] # NoSession
          BY <4>2, <2>6 DEF ListAgrees
        <5>2. mClientList[g] \in Player BY <5>1 DEF Types
        <5>3. mSocket[mClientList[g]] = g BY <5>1 DEF ListAgrees
        <5>4. mClientList[g] # s BY <5>1, <5>3, <2>8
        <5> QED BY <4>2, <5>1, <5>2, <5>3, <5>4, <3>1
      <4> QED BY <4>1, <4>2
    <3>5. ASSUME NEW r \in Player, NEW q \in Player, r # q, mSocket'[r] # NoFd
          PROVE  mSocket'[r] # mSocket'[q]
      BY <3>1, <3>5, <2>3 DEF ListAgrees
    <3> QED BY <3>2, <3>3, <3>4, <3>5 DEF ListAgrees
  <2>11. Sockets'
    <3> SUFFICES ASSUME NEW r \in Player
                 PROVE  mSocket'[r] # NoFd <=>
                          \/ cur' = r \/ r \in mPlayerSessions'
                          \/ \E g \in Fd : mClientList'[g] = r
      BY DEF Sockets, Owned
    <3>1. CASE r = s BY <3>1, <2>3, <2>6, <2>8 DEF Types
    <3>2. CASE r # s
      <4>1. mSocket'[r] = mSocket[r] BY <3>2, <2>6 DEF Types
      <4>2. (\E g \in Fd : mClientList'[g] = r) <=> \E g \in Fd : mClientList[g] = r
        <5>1. \A g \in Fd : mClientList'[g] = IF g = f THEN s ELSE mClientList[g]
          BY <2>6, <2>3 DEF Types
        <5>2. r # NoSession OBVIOUS
        <5> QED BY <5>1, <5>2, <3>2, <2>5
      <4> QED BY <4>1, <4>2, <2>7 DEF Sockets, Owned, manager
    <3> QED BY <3>1, <3>2
  <2>12. Waiting' BY <2>6, <2>7, <2>8 DEF Waiting, Types, lift
  <2>13. Loop' BY <2>7 DEF Loop
  <2>14. Logins' BY <2>6, <2>7, <2>8 DEF Logins, Unlogged, Types, manager
  <2>15. Members' BY <2>6, <2>7, <2>8 DEF Members, Types, manager, lift
  <2> QED BY <2>9, <2>10, <2>11, <2>12, <2>13, <2>14, <2>15 DEF IInv
<1> QED BY <1>1, <1>2

(* Turning to an event, and the ends of batch and flush, keep it.          *)
LEMMA ClientEventStep ==
  ASSUME Types, ListAgrees, Sockets, Waiting, Loop, Logins, Members,
         ClientEvent
  PROVE  IInv'
<1> USE LinuxServerAssumption DEF NoFd, Listen, ClientEvent, manager, clients,
    sessions, loop, lift, outside
<1>1. Types' BY DEF Types, Places, Phases, Kinds, Ends
<1>2. ListAgrees' BY ListKept
<1>3. Sockets' BY DEF Sockets, Owned, Types, ListAgrees, Loop
<1>4. Waiting' BY DEF Waiting, Types
<1>5. Loop' BY DEF Loop, Types
<1>6. Logins' BY DEF Logins, Unlogged, Types, Loop
<1>7. Members' BY DEF Members, Types
<1> QED BY <1>1, <1>2, <1>3, <1>4, <1>5, <1>6, <1>7 DEF IInv

LEMMA EventsDoneStep ==
  ASSUME Types, ListAgrees, Sockets, Waiting, Loop, Logins, Members,
         EventsDone
  PROVE  IInv'
<1> USE LinuxServerAssumption DEF NoFd, Listen, EventsDone, manager, clients,
    sessions, loop, lift, outside
<1>1. Types' BY DEF Types, Places, Phases, Kinds, Ends
<1>2. ListAgrees' BY ListKept
<1>3. Sockets' BY SocketsKept
<1>4. Waiting' BY DEF Waiting, Types
<1>5. Loop' BY DEF Loop, Types
<1>6. Logins' BY DEF Logins, Unlogged, Types
<1>7. Members' BY DEF Members, Types
<1> QED BY <1>1, <1>2, <1>3, <1>4, <1>5, <1>6, <1>7 DEF IInv

LEMMA FlushDoneStep ==
  ASSUME Types, ListAgrees, Sockets, Waiting, Loop, Logins, Members,
         FlushDone
  PROVE  IInv'
<1> USE LinuxServerAssumption DEF NoFd, Listen, FlushDone, manager, clients,
    sessions, loop, lift, outside
<1>1. Types' BY DEF Types, Places, Phases, Kinds, Ends
<1>2. ListAgrees' BY ListKept
<1>3. Sockets' BY SocketsKept
<1>4. Waiting' BY DEF Waiting, Types
<1>5. Loop' BY DEF Loop, Types
<1>6. Logins' BY DEF Logins, Unlogged, Types
<1>7. Members' BY DEF Members, Types
<1> QED BY <1>1, <1>2, <1>3, <1>4, <1>5, <1>6, <1>7 DEF IInv

(* So does the end of OnReceive, with the sockets it closes,               *)
LEMMA ReadAgainStep ==
  ASSUME Types, ListAgrees, Sockets, Waiting, Loop, Logins, Members,
         ReadAgain
  PROVE  IInv'
<1> USE LinuxServerAssumption DEF NoFd, Listen
<1>01. cur \in Player /\ CloseUnowned BY DEF ReadAgain, Loop
<1>02. Closes BY <1>01, CloseUnownedCloses
<1>03. Shrinks
  BY SameShrinks DEF ReadAgain, manager, clients
<1>04. ListAgrees' /\ Sockets' /\ Waiting'
  BY <1>02, <1>03, ShrinkCloses DEF ReadAgain, Received, lift, Waiting
<1>2. ListAgrees' BY <1>04
<1>3. Sockets' BY <1>04
<1>4. Waiting' BY <1>04
<1> USE DEF ReadAgain, Received, Closes, manager, clients, sessions, loop,
    lift, outside
<1>1. Types' BY <1>01, <1>02 DEF Types, Loop, Places, Phases, Kinds, Ends
<1>5. Loop' BY <1>01, <1>02 DEF Loop, Types
<1>6. Logins' BY <1>01, <1>02 DEF Logins, Unlogged, Types, Loop
<1>7. Members' BY <1>01, <1>02 DEF Members, Types, Loop
<1> QED BY <1>1, <1>2, <1>3, <1>4, <1>5, <1>6, <1>7 DEF IInv

(* a broadcast, which reaches players that have logged in,                 *)
LEMMA BroadcastMessageStep ==
  ASSUME Types, ListAgrees, Sockets, Waiting, Loop, Logins, Members,
         BroadcastMessage
  PROVE  IInv'
<1> USE LinuxServerAssumption DEF NoFd, Listen, BroadcastMessage, Sent,
    manager, clients, sessions, loop, lift, outside
<1>1. Types' BY DEF Types, Places, Phases, Kinds, Ends
<1>2. ListAgrees' BY ListKept
<1>3. Sockets' BY SocketsKept
<1>4. Waiting' BY DEF Waiting, Types
<1>5. Loop' BY DEF Loop, Types
<1>6. Logins' BY DEF Logins, Unlogged, Types, Loop
<1>7. Members' BY DEF Members, Types
<1> QED BY <1>1, <1>2, <1>3, <1>4, <1>5, <1>6, <1>7 DEF IInv

(* the flush of a session, which writes no more than it has,               *)
LEMMA FlushClientSendStep ==
  ASSUME Types, ListAgrees, Sockets, Waiting, Loop, Logins, Members,
         FlushClientSend
  PROVE  IInv'
<1> USE LinuxServerAssumption DEF NoFd, Listen
<1>01. NextToFlush \in todo BY NextToFlushIs DEF FlushClientSend
<1>02. PICK s \in Player : s = NextToFlush BY <1>01 DEF Types
<1>03. outbox[s] \in Nat /\ inflight[s] \in 0 .. Window /\ Window \in Nat
  BY DEF Types
<1>04. PICK n \in Nat : /\ n = Smallest(outbox[s], Window - inflight[s])
                        /\ n <= outbox[s] /\ n <= Window - inflight[s]
  BY <1>03 DEF Smallest
<1>05. /\ outbox' = [outbox EXCEPT ![s] = outbox[s] - n]
       /\ inflight' = [inflight EXCEPT ![s] = inflight[s] + n]
       /\ todo' = todo \ {s}
  BY <1>02, <1>04 DEF FlushClientSend, Set
<1>06. /\ outbox[s] - n \in Nat /\ inflight[s] + n \in 0 .. Window
       /\ outbox[s] = 0 => outbox[s] - n = 0
  BY <1>03, <1>04
<1>07. UNCHANGED <<manager, clients, mConnected, mPlayerSessionId, mSocket, at,
                   batch, cur, lift, backlog, peer, said, inbox, heard, chats>>
  BY DEF FlushClientSend
<1>1. Types' BY <1>05, <1>06, <1>07 DEF Types, manager, clients, lift
<1>6. Logins'
  BY <1>05, <1>06, <1>07
  DEF Types, manager, clients, lift, Logins, Unlogged
<1> USE DEF FlushClientSend, Set, manager, clients, sessions, loop, lift,
    outside
<1>2. ListAgrees' BY ListKept
<1>3. Sockets' BY SocketsKept
<1>4. Waiting' BY <1>01, <1>02 DEF Waiting, Types
<1>5. Loop' BY <1>01, <1>02 DEF Loop, Types
<1>7. Members' BY <1>01, <1>02 DEF Members, Types
<1> QED BY <1>1, <1>2, <1>3, <1>4, <1>5, <1>6, <1>7 DEF IInv

(* and whatever the clients do.                                            *)
LEMMA ConnectStep ==
  ASSUME NEW s \in Player, Types, ListAgrees, Sockets, Waiting, Loop,
         Logins, Members, Connect(s)
  PROVE  IInv'
<1> USE LinuxServerAssumption DEF NoFd, Listen, Connect, Set, manager,
    clients, sessions, loop, lift, outside
<1>1. Types' BY DEF Types, Places, Phases, Kinds, Ends
<1>2. ListAgrees' BY ListKept
<1>3. Sockets' BY SocketsKept
<1>4. Waiting' BY DEF Waiting, Types
<1>5. Loop' BY DEF Loop, Types
<1>6. Logins' BY DEF Logins, Unlogged, Types, Waiting
<1>7. Members' BY DEF Members, Types, Waiting, Sockets, Owned
<1> QED BY <1>1, <1>2, <1>3, <1>4, <1>5, <1>6, <1>7 DEF IInv

LEMMA StartTestStep ==
  ASSUME NEW s \in Player, Types, ListAgrees, Sockets, Waiting, Loop,
         Logins, Members, StartTest(s)
  PROVE  IInv'
<1> USE LinuxServerAssumption DEF NoFd, Listen
<1>01. inbox' \in [Player -> Seq(Kinds)]
  <2>1. "login" \in Kinds /\ inbox[s] \in Seq(Kinds) BY DEF Kinds, Types
  <2>2. Append(inbox[s], "login") \in Seq(Kinds) BY <2>1
  <2> QED BY <2>2 DEF StartTest, Request, Set, Types
<1>1. Types'
  BY <1>01
  DEF Types, Kinds, StartTest, Request, Arrives, Set, manager, clients,
      sessions, loop, lift, outside
<1> USE DEF StartTest, Set, Request, Arrives, manager, clients, sessions,
    loop, lift, outside
<1>2. ListAgrees' BY ListKept
<1>3. Sockets' BY SocketsKept
<1>4. Waiting' BY DEF Waiting, Types
<1>5. Loop' BY DEF Loop, Types
<1>6. Logins' BY DEF Logins, Unlogged, Types
<1>7. Members' BY DEF Members, Types
<1> QED BY <1>1, <1>2, <1>3, <1>4, <1>5, <1>6, <1>7 DEF IInv

LEMMA PlayTestStep ==
  ASSUME NEW s \in Player, Types, ListAgrees, Sockets, Waiting, Loop,
         Logins, Members, PlayTest(s)
  PROVE  IInv'
<1> USE LinuxServerAssumption DEF NoFd, Listen
<1>01. inbox' \in [Player -> Seq(Kinds)]
  <2>1. "chat" \in Kinds /\ inbox[s] \in Seq(Kinds) BY DEF Kinds, Types
  <2>2. Append(inbox[s], "chat") \in Seq(Kinds) BY <2>1
  <2> QED BY <2>2 DEF PlayTest, Request, Set, Types
<1>1. Types'
  BY <1>01
  DEF Types, Kinds, PlayTest, Request, Arrives, Set, manager, clients,
      sessions, loop, lift, outside
<1> USE DEF PlayTest, Set, Request, Arrives, manager, clients, sessions, loop,
    lift, outside
<1>2. ListAgrees' BY ListKept
<1>3. Sockets' BY SocketsKept
<1>4. Waiting' BY DEF Waiting, Types
<1>5. Loop' BY DEF Loop, Types
<1>6. Logins' BY DEF Logins, Unlogged, Types
<1>7. Members' BY DEF Members, Types
<1> QED BY <1>1, <1>2, <1>3, <1>4, <1>5, <1>6, <1>7 DEF IInv

LEMMA EndTestStep ==
  ASSUME NEW s \in Player, Types, ListAgrees, Sockets, Waiting, Loop,
         Logins, Members, EndTest(s)
  PROVE  IInv'
<1> USE LinuxServerAssumption DEF NoFd, Listen
<1>01. PICK k \in {"exit", "other"} : Request(s, k) BY DEF EndTest
<1>02. inbox' \in [Player -> Seq(Kinds)]
  <2>1. k \in Kinds /\ inbox[s] \in Seq(Kinds) BY DEF Kinds, Types
  <2>2. Append(inbox[s], k) \in Seq(Kinds) BY <2>1
  <2> QED BY <1>01, <2>2 DEF Request, Set, Types
<1>03. said' \in [Player -> {"nothing", "login", "leaving"}]
  BY DEF EndTest, Set, Types
<1>1. Types'
  BY <1>01, <1>02, <1>03
  DEF Types, Request, Arrives, Set, manager, clients, sessions, loop, lift,
      outside
<1> USE DEF EndTest, Set, Request, Arrives, manager, clients, sessions, loop,
    lift, outside
<1>2. ListAgrees' BY ListKept
<1>3. Sockets' BY SocketsKept
<1>4. Waiting' BY DEF Waiting, Types
<1>5. Loop' BY DEF Loop, Types
<1>6. Logins' BY DEF Logins, Unlogged, Types
<1>7. Members' BY DEF Members, Types
<1> QED BY <1>1, <1>2, <1>3, <1>4, <1>5, <1>6, <1>7 DEF IInv

LEMMA HangUpStep ==
  ASSUME NEW s \in Player, Types, ListAgrees, Sockets, Waiting, Loop,
         Logins, Members, HangUp(s)
  PROVE  IInv'
<1> USE LinuxServerAssumption DEF NoFd, Listen
<1>01. inbox' \in [Player -> Seq(Kinds)]
  <2>1. <<>> \in Seq(Kinds) OBVIOUS
  <2>2. inbox' = inbox \/ inbox' = [inbox EXCEPT ![s] = <<>>]
    BY DEF HangUp, Set
  <2> QED BY <2>1, <2>2 DEF Types
<1>02. peer' \in [Player -> Ends] BY DEF HangUp, Set, Types, Ends
<1>03. ready' \subseteq watched' BY DEF HangUp, Arrives, Types
<1>1. Types'
  BY <1>01, <1>02, <1>03
  DEF Types, HangUp, manager, clients, sessions, loop, lift, outside
<1> USE DEF HangUp, Set, Arrives, manager, clients, sessions, loop, lift,
    outside
<1>2. ListAgrees' BY ListKept
<1>3. Sockets' BY SocketsKept
<1>4. Waiting' BY DEF Waiting, Types
<1>5. Loop' BY DEF Loop, Types
<1>6. Logins' BY DEF Logins, Unlogged, Types
<1>7. Members' BY DEF Members, Types
<1> QED BY <1>1, <1>2, <1>3, <1>4, <1>5, <1>6, <1>7 DEF IInv

LEMMA HearStep ==
  ASSUME NEW s \in Player, Types, ListAgrees, Sockets, Waiting, Loop,
         Logins, Members, Hear(s)
  PROVE  IInv'
<1> USE LinuxServerAssumption DEF NoFd, Listen, Hear, Set, manager, clients,
    sessions, loop, lift, outside
<1>1. Types' BY DEF Types, Places, Phases, Kinds, Ends
<1>2. ListAgrees' BY ListKept
<1>3. Sockets' BY SocketsKept
<1>4. Waiting' BY DEF Waiting, Types
<1>5. Loop' BY DEF Loop, Types
<1>6. Logins' BY DEF Logins, Unlogged, Types
<1>7. Members' BY DEF Members, Types
<1> QED BY <1>1, <1>2, <1>3, <1>4, <1>5, <1>6, <1>7 DEF IInv

(* A read of OnReceive without its handler.                                *)
Reads ==
  /\ at = "receive" /\ inbox[cur] # <<>>
  /\ inbox' = Set(inbox, cur, IF Head(inbox[cur]) = "other" THEN <<>>
                              ELSE Tail(inbox[cur]))
  /\ UNCHANGED <<clients, mConnected, mSocket, batch, cur, sdk, backlog, peer,
                 said, inflight, heard, chats>>

(* The requests left are typed and hold no login.                          *)
LEMMA ReadsOn ==
  ASSUME Types, Loop, Logins, Reads
  PROVE  /\ cur \in Player /\ cur' = cur
         /\ inbox' \in [Player -> Seq(Kinds)]
         /\ \A r \in Player : r # cur => inbox'[r] = inbox[r]
         /\ \A i \in 1 .. Len(inbox'[cur]) : inbox'[cur][i] # "login"
         /\ said[cur] # "nothing"
         /\ Head(inbox[cur]) = "login" => Unlogged(cur)
<1>1. cur \in Player /\ cur' = cur BY DEF Reads, Loop
<1>2. inbox[cur] \in Seq(Kinds) /\ inbox[cur] # <<>> BY <1>1 DEF Reads, Types
<1>3. Tail(inbox[cur]) \in Seq(Kinds) /\ <<>> \in Seq(Kinds) BY <1>2
<1>4. /\ inbox' \in [Player -> Seq(Kinds)]
      /\ \A r \in Player : r # cur => inbox'[r] = inbox[r]
      /\ inbox'[cur] = <<>> \/ inbox'[cur] = Tail(inbox[cur])
  BY <1>1, <1>3 DEF Reads, Set, Types
<1>5. ASSUME NEW i \in 1 .. Len(Tail(inbox[cur]))
      PROVE  Tail(inbox[cur])[i] # "login"
  <2>1. /\ i + 1 \in 1 .. Len(inbox[cur]) /\ i + 1 # 1
        /\ Tail(inbox[cur])[i] = inbox[cur][i + 1]
    BY <1>2
  <2> QED BY <1>1, <2>1 DEF Logins
<1>6. \A i \in 1 .. Len(inbox'[cur]) : inbox'[cur][i] # "login"
  <2>1. CASE inbox'[cur] = <<>>
    <3>1. 1 .. Len(inbox'[cur]) = {} BY <2>1
    <3> QED BY <3>1
  <2>2. CASE inbox'[cur] = Tail(inbox[cur]) BY <2>2, <1>5
  <2> QED BY <1>4, <2>1, <2>2
<1>7. said[cur] # "nothing" BY <1>1, <1>2 DEF Logins
<1>8. 1 \in 1 .. Len(inbox[cur]) /\ Head(inbox[cur]) = inbox[cur][1] BY <1>2
<1>9. Head(inbox[cur]) = "login" => Unlogged(cur) BY <1>1, <1>8 DEF Logins
<1> QED BY <1>1, <1>4, <1>6, <1>7, <1>9

(* Reading touches the logins of no other session.                         *)
LEMMA ReadsLogins ==
  ASSUME Types, Loop, Logins, Reads,
         \A r \in Player : r # cur => (r \in mPlayerSessions' => r \in mPlayerSessions),
         \A r \in Player : r # cur => outbox'[r] = outbox[r],
         \A r \in Player : r # cur => mPlayerSessionId'[r] = mPlayerSessionId[r]
  PROVE  Logins'
<1>1. ASSUME NEW r \in Player, r # cur, Unlogged(r) PROVE Unlogged(r)'
  BY <1>1, ReadsOn DEF Unlogged, Reads
<1>2. ASSUME NEW r \in Player
      PROVE  /\ \A i \in 1 .. Len(inbox'[r]) :
                  inbox'[r][i] = "login" => i = 1 /\ Unlogged(r)'
             /\ said'[r] = "nothing" =>
                  inbox'[r] = <<>> /\ Unlogged(r)' /\ peer'[r] # "reset"
  <2>1. said' = said /\ peer' = peer BY DEF Reads
  <2>2. CASE r = cur BY <2>1, <2>2, ReadsOn
  <2>3. CASE r # cur
    <3>1. inbox'[r] = inbox[r] BY <2>3, ReadsOn
    <3> QED BY <1>1, <2>1, <2>3, <3>1 DEF Logins
  <2> QED BY <2>2, <2>3
<1> QED BY <1>2 DEF Logins

(* The handlers of OnReceive keep the invariant.  A login finds its        *)
(* session connected.                                                      *)
LEMMA PlayerLoginStep ==
  ASSUME Types, ListAgrees, Sockets, Waiting, Loop, Logins, Members,
         Reads, PlayerLogin(cur), Head(inbox[cur]) = "login"
  PROVE  IInv'
<1> USE LinuxServerAssumption DEF NoFd, Listen
<1>01. /\ cur \in Player /\ cur' = cur
       /\ inbox' \in [Player -> Seq(Kinds)]
  BY ReadsOn
<1>02. Logins'
  BY <1>01, ReadsLogins DEF PlayerLogin, Set, Types
<1>03. mConnected[cur]
  <2>1. Unlogged(cur) BY ReadsOn
  <2>2. mSocket[cur] # NoFd BY <1>01 DEF Sockets, Owned
  <2> QED BY <2>1, <2>2 DEF Unlogged
<1>6. Logins' BY <1>02
<1> USE DEF Reads, Set, PlayerLogin, manager, clients, sessions, loop, lift,
    outside
<1>1. Types' BY <1>01 DEF Types, Places, Phases, Kinds, Ends
<1>2. ListAgrees' BY ListKept
<1>3. Sockets' BY <1>01 DEF Sockets, Owned, Types, ListAgrees, Loop
<1>4. Waiting' BY <1>01 DEF Waiting, Types
<1>5. Loop' BY <1>01 DEF Loop, Types
<1>7. Members' BY <1>01, <1>03 DEF Members, Types
<1> QED BY <1>1, <1>2, <1>3, <1>4, <1>5, <1>6, <1>7 DEF IInv

LEMMA PlayerLogoutStep ==
  ASSUME Types, ListAgrees, Sockets, Waiting, Loop, Logins, Members,
         Reads, PlayerLogout(cur)
  PROVE  IInv'
<1> USE LinuxServerAssumption DEF NoFd, Listen
<1>01. /\ cur \in Player /\ cur' = cur
       /\ inbox' \in [Player -> Seq(Kinds)]
  BY ReadsOn
<1>02. Logins'
  BY <1>01, ReadsLogins DEF PlayerLogout, RemovePlayerSession, Set, Types
<1>6. Logins' BY <1>02
<1> USE DEF Reads, Set, PlayerLogout, RemovePlayerSession, manager, clients,
    sessions, loop, lift, outside
<1>1. Types' BY <1>01 DEF Types, Places, Phases, Kinds, Ends
<1>2. ListAgrees' BY ListKept
<1>3. Sockets' BY <1>01 DEF Sockets, Owned, Types, ListAgrees
<1>4. Waiting' BY <1>01 DEF Waiting, Types
<1>5. Loop' BY <1>01 DEF Loop, Types
<1>7. Members' BY <1>01 DEF Members, Types
<1> QED BY <1>1, <1>2, <1>3, <1>4, <1>5, <1>6, <1>7 DEF IInv

LEMMA BroadcastStep ==
  ASSUME Types, ListAgrees, Sockets, Waiting, Loop, Logins, Members,
         Reads, Broadcast
  PROVE  IInv'
<1> USE LinuxServerAssumption DEF NoFd, Listen
<1>01. /\ cur \in Player /\ cur' = cur
       /\ inbox' \in [Player -> Seq(Kinds)]
  BY ReadsOn
<1>02. Logins'
  BY <1>01, ReadsLogins DEF Broadcast, manager
<1>6. Logins' BY <1>02
<1> USE DEF Reads, Set, Broadcast, manager, clients, sessions, loop, lift,
    outside
<1>1. Types' BY <1>01 DEF Types, Places, Phases, Kinds, Ends
<1>2. ListAgrees' BY ListKept
<1>3. Sockets' BY SocketsKept
<1>4. Waiting' BY <1>01 DEF Waiting, Types
<1>5. Loop' BY <1>01 DEF Loop, Types
<1>7. Members' BY <1>01 DEF Members, Types
<1> QED BY <1>1, <1>2, <1>3, <1>4, <1>5, <1>6, <1>7 DEF IInv

LEMMA RefusePacketStep ==
  ASSUME Types, ListAgrees, Sockets, Waiting, Loop, Logins, Members,
         Reads, RefusePacket
  PROVE  IInv'
<1> USE LinuxServerAssumption DEF NoFd, Listen
<1>01. /\ cur \in Player /\ cur' = cur
       /\ inbox' \in [Player -> Seq(Kinds)]
  BY ReadsOn
<1>02. Logins'
  BY <1>01, ReadsLogins DEF RefusePacket, manager
<1>6. Logins' BY <1>02
<1> USE DEF Reads, Set, RefusePacket, manager, clients, sessions, loop, lift,
    outside
<1>1. Types' BY <1>01 DEF Types, Places, Phases, Kinds, Ends
<1>2. ListAgrees' BY ListKept
<1>3. Sockets' BY SocketsKept
<1>4. Waiting' BY <1>01 DEF Waiting, Types
<1>5. Loop' BY <1>01 DEF Loop, Types
<1>7. Members' BY <1>01 DEF Members, Types
<1> QED BY <1>1, <1>2, <1>3, <1>4, <1>5, <1>6, <1>7 DEF IInv

(* OnReceive with whichever handler.                                       *)
LEMMA OnReceiveStep ==
  ASSUME Types, ListAgrees, Sockets, Waiting, Loop, Logins, Members, OnReceive
  PROVE  IInv'
<1>1. Reads BY DEF OnReceive, Reads
<1>2. Handler(cur, Head(inbox[cur])) BY DEF OnReceive
<1> QED BY <1>1, <1>2, PlayerLoginStep, PlayerLogoutStep, BroadcastStep,
           RefusePacketStep DEF Handler

(* What leaving does to the types.                                         *)
LEMMA LeavesTypes ==
  ASSUME Types, NEW s \in Player, Leaves(s)
  PROVE  /\ mAcceptedCount' \in Nat /\ mRemovedCount' \in Nat
         /\ mPlayerSessions' \subseteq Player
         /\ mPlayerSessionId' \in [Player -> Player \cup {NoId}]
         /\ gameStatus' \in {"none", "active", "ended"}
         /\ service' \in [Player -> Phases]
<1>1. mAcceptedCount' \in Nat /\ mRemovedCount' \in Nat BY DEF Types, Leaves
<1>2. mPlayerSessions' \subseteq Player BY DEF Types, Leaves
<1>3. mPlayerSessionId' \in [Player -> Player \cup {NoId}]
  BY DEF Types, Leaves, Set
<1>4. gameStatus' \in {"none", "active", "ended"} BY DEF Types, Leaves
<1>5. service' \in [Player -> Phases] BY DEF Types, Leaves, Set, Phases
<1> QED BY <1>1, <1>2, <1>3, <1>4, <1>5

(* A handler's own Disconnect leaves the socket to OnReceive, which still  *)
(* holds the session.                                                      *)
LEMMA HandlerDisconnectStep ==
  ASSUME Types, ListAgrees, Sockets, Waiting, Loop, Logins, Members,
         HandlerDisconnect
  PROVE  IInv'
<1> USE LinuxServerAssumption DEF NoFd, Listen
<1>1. PICK s \in Player : s = cur BY DEF HandlerDisconnect, Loop
<1>2. Leaves(s) BY <1>1, DisconnectLeaves DEF HandlerDisconnect
<1>3. Shrinks BY <1>2, LeavesShrinks
<1>4. /\ at = "disconnect" /\ at' = "receive"
      /\ UNCHANGED <<mSocket, outbox, batch, cur, todo, sdk, outside>>
  BY DEF HandlerDisconnect
<1>5. Types'
  BY <1>2, <1>3, <1>4, LeavesTypes DEF Types, Shrinks, Places, outside
<1>6. \A r \in Player, f \in Fd : mClientList'[f] = r => mSocket[r] = f
  BY <1>3, ListFacts DEF Shrinks
<1>7. ListAgrees'
  <2>1. ASSUME NEW r \in Player
        PROVE  mConnected'[r] <=>
                 mSocket'[r] # NoFd /\ mClientList'[mSocket'[r]] = r
    <3>1. mSocket[r] \in Fd \cup {NoFd} BY DEF Types
    <3>2. mConnected'[r] <=> \E f \in Fd : mClientList'[f] = r
      BY <1>3 DEF Shrinks
    <3>3. \A f \in Fd : f # 0 OBVIOUS
    <3> QED BY <3>1, <3>2, <3>3, <1>4, <1>6
  <2>2. ASSUME NEW f \in watched' PROVE mSocket'[mClientList'[f]] = f
    <3>1. f \in Fd /\ mClientList'[f] # NoSession BY <1>3 DEF Shrinks
    <3>2. mClientList'[f] \in Player BY <1>3, <3>1 DEF Shrinks
    <3> QED BY <3>1, <3>2, <1>4, <1>6
  <2>3. watched' = {f \in Fd : mClientList'[f] # NoSession}
    BY <1>3 DEF Shrinks
  <2> QED BY <2>1, <2>2, <2>3, <1>4 DEF ListAgrees
<1>8. Sockets'
  <2> SUFFICES ASSUME NEW r \in Player
               PROVE  mSocket'[r] # NoFd <=>
                        \/ cur' = r \/ r \in mPlayerSessions'
                        \/ \E f \in Fd : mClientList'[f] = r
    BY DEF Sockets, Owned
  <2>1. CASE r = s BY <1>1, <1>4, <2>1 DEF Sockets, Owned
  <2>2. CASE r # s
    <3>1. r \in mPlayerSessions' <=> r \in mPlayerSessions BY <1>2, <2>2 DEF Leaves
    <3>2. (\E f \in Fd : mClientList'[f] = r) <=> \E f \in Fd : mClientList[f] = r
      <4>1. \A f \in Fd : mClientList'[f] = IF mClientList[f] = s THEN NoSession
                                            ELSE mClientList[f]
        BY <1>2 DEF Leaves
      <4>2. r # NoSession OBVIOUS
      <4> QED BY <4>1, <4>2, <2>2
    <3> QED BY <1>4, <3>1, <3>2 DEF Sockets, Owned
  <2> QED BY <2>1, <2>2
<1>9. Waiting' BY <1>2, <1>4 DEF Waiting, Leaves, Types, Set, outside
<1>10. Loop' BY <1>1, <1>4 DEF Loop
<1>11. Logins'
  <2>1. ~ Unlogged(s) BY <1>1, <1>4 DEF Unlogged
  <2> QED BY <1>2, <1>4, <2>1, LeavesLogins DEF outside
<1>12. Members' BY <1>2, LeavesMembers
<1> QED BY <1>5, <1>7, <1>8, <1>9, <1>10, <1>11, <1>12 DEF IInv

(* What the actions in which a session leaves and sockets are closed have  *)
(* in common.                                                              *)
LEMMA LeaveAndClose ==
  ASSUME Types, ListAgrees, Sockets, Waiting, Logins, Members,
         NEW s \in Player, Disconnect(s), CloseUnowned,
         Unlogged(s) => inbox[s] = <<>> /\ said[s] # "nothing",
         cur' = cur \/ cur' = NoSession,
         \A r \in Player : cur' = r => at # "receive" /\ cur = r,
         \A r \in Player : r \notin mPlayerSessions => outbox'[r] = outbox[r],
         at' \in Places, outbox' \in [Player -> Nat], todo' \subseteq Player,
         UNCHANGED <<batch, backlog, said, inbox, inflight>>
  PROVE  /\ Types' /\ ListAgrees' /\ Sockets' /\ Waiting' /\ Logins' /\ Members'
         /\ Leaves(s)
<1> USE LinuxServerAssumption DEF NoFd, Listen
<1>1. Leaves(s) BY DisconnectLeaves
<1>2. Shrinks BY <1>1, LeavesShrinks
<1>3. Closes BY CloseUnownedCloses
<1>4. Types'
  <2>1. mSocket' \in [Player -> Fd \cup {NoFd}] /\ peer' \in [Player -> Ends]
    BY <1>3 DEF Closes
  <2>2. /\ mClientList' \in [Fd -> Player \cup {NoSession}]
        /\ watched' \subseteq Fd /\ ready' \subseteq watched'
        /\ mConnected' \in [Player -> BOOLEAN]
    BY <1>2 DEF Shrinks
  <2> QED BY <1>1, <2>1, <2>2, LeavesTypes DEF Types
<1>5. \A r \in Player : peer[r] = "out" => service'[r] = "none"
  BY <1>1 DEF Waiting, Leaves, Types, Set
<1>6. ListAgrees' /\ Sockets' /\ Waiting' BY <1>2, <1>3, <1>5, ShrinkCloses
<1>7. Logins'
  <2>1. /\ \A r \in Player : peer'[r] = "reset" => peer[r] = "reset"
        /\ \A r \in Player : mSocket'[r] # NoFd => mSocket[r] # NoFd
    BY <1>3 DEF Closes
  <2> QED BY <1>1, <2>1, LeavesLogins
<1>8. Members' BY <1>1, LeavesMembers
<1> QED BY <1>1, <1>4, <1>6, <1>7, <1>8

(* A connection that was reset.                                            *)
LEMMA ReadErrorStep ==
  ASSUME Types, ListAgrees, Sockets, Waiting, Loop, Logins, Members, ReadError
  PROVE  IInv'
<1>1. PICK s \in Player : s = cur BY DEF ReadError, Loop
<1>2. /\ at = "receive" /\ inbox[s] = <<>> /\ peer[s] = "reset"
      /\ Disconnect(s) /\ CloseUnowned /\ at' = "events" /\ cur' = NoSession
      /\ UNCHANGED <<outbox, batch, todo, sdk, backlog, said, inbox, inflight,
                     heard, chats>>
  BY <1>1 DEF ReadError, Received
<1>3. said[s] # "nothing" BY <1>2 DEF Logins
<1>4. \A r \in Player : r # NoSession BY LinuxServerAssumption
<1>5. at' \in Places /\ outbox' \in [Player -> Nat] /\ todo' \subseteq Player
  BY <1>2 DEF Places, Types
<1>6. Types' /\ ListAgrees' /\ Sockets' /\ Waiting' /\ Logins' /\ Members'
  BY <1>2, <1>3, <1>4, <1>5, LeaveAndClose
<1>7. Loop' BY <1>2 DEF Loop
<1> QED BY <1>6, <1>7 DEF IInv

(* A broadcast that meets a full buffer, whatever becomes of its loop.     *)
LEMMA BroadcastDisconnectStep ==
  ASSUME Types, ListAgrees, Sockets, Waiting, Loop, Logins, Members,
         BroadcastDisconnect
  PROVE  IInv'
<1>1. PICK s \in todo, before \in SUBSET todo :
        /\ s \notin before /\ outbox' = Sent(before) /\ Disconnect(s)
        /\ \/ at' = "crashed" /\ todo' = {}
           \/ at' = at /\ todo' \in SUBSET (todo \ (before \cup {s}))
  BY DEF BroadcastDisconnect
<1>2. /\ at = "broadcast" /\ CloseUnowned /\ cur' = cur
      /\ UNCHANGED <<batch, cur, sdk, backlog, said, inbox, inflight, heard,
                     chats>>
  BY DEF BroadcastDisconnect
<1>3. s \in Player /\ s \in mPlayerSessions /\ todo \subseteq mPlayerSessions
  BY <1>2 DEF Loop, Types
<1>4. ~ Unlogged(s) BY <1>3 DEF Unlogged
<1>5. at' \in Places /\ outbox' \in [Player -> Nat] /\ todo' \subseteq Player
  BY <1>1, <1>2 DEF Places, Types, Sent
<1>6. \A r \in Player : r \notin mPlayerSessions => outbox'[r] = outbox[r]
  BY <1>1, <1>3 DEF Sent
<1>7. /\ Types' /\ ListAgrees' /\ Sockets' /\ Waiting' /\ Logins' /\ Members'
      /\ Leaves(s)
  BY <1>1, <1>2, <1>3, <1>4, <1>5, <1>6, LeaveAndClose
<1>8. Loop' BY <1>1, <1>2, <1>3, <1>7 DEF Loop, Leaves
<1> QED BY <1>7, <1>8 DEF IInv

(* A flush whose write fails, whatever becomes of its loop.                *)
LEMMA FlushFailedStep ==
  ASSUME Types, ListAgrees, Sockets, Waiting, Loop, Logins, Members, FlushFailed
  PROVE  IInv'
<1>1. NextToFlush \in todo BY NextToFlushIs DEF FlushFailed
<1>2. PICK s \in Player : s = NextToFlush BY <1>1 DEF Types
<1>3. /\ outbox[s] > 0 /\ Disconnect(s)
      /\ \/ at' = "crashed" /\ todo' = {}
         \/ at' = at /\ todo' \in SUBSET (todo \ {s})
  BY <1>2 DEF FlushFailed
<1>4. /\ at = "flush" /\ CloseUnowned /\ cur' = cur /\ cur = NoSession
      /\ UNCHANGED <<outbox, batch, sdk, backlog, said, inbox, inflight, heard,
                     chats>>
  BY DEF FlushFailed, Loop
<1>5. ~ Unlogged(s) BY <1>3 DEF Unlogged
<1>6. at' \in Places /\ outbox' \in [Player -> Nat] /\ todo' \subseteq Player
  BY <1>3, <1>4 DEF Places, Types
<1>7. \A r \in Player : r # NoSession BY LinuxServerAssumption
<1>8. /\ Types' /\ ListAgrees' /\ Sockets' /\ Waiting' /\ Logins' /\ Members'
      /\ Leaves(s)
  BY <1>3, <1>4, <1>5, <1>6, <1>7, LeaveAndClose
<1>9. Loop'
  <2>1. \A r \in todo' : at' = "flush" => r \in todo /\ r # s BY <1>3
  <2>2. \A f \in Fd : mClientList[f] # s => mClientList'[f] = mClientList[f]
    BY <1>8 DEF Leaves
  <2>3. at' = "flush" => \A r \in todo' : \E f \in Fd : mClientList'[f] = r
    BY <2>1, <2>2, <1>4 DEF Loop
  <2> QED BY <1>3, <1>4, <2>3 DEF Loop
<1> QED BY <1>8, <1>9 DEF IInv

-----------------------------------------------------------------------------
(* The invariant, and what follows from it.                                *)

(* The invariant is about the variables only,                              *)
LEMMA Stuttering ==
  ASSUME IInv, UNCHANGED vars
  PROVE  IInv'
<1> USE DEF vars, manager, clients, sessions, loop, lift, outside
<1>1. Types' BY DEF IInv, Types
<1>2. ListAgrees' BY DEF IInv, ListAgrees
<1>3. Sockets' BY DEF IInv, Sockets, Owned
<1>4. Waiting' BY DEF IInv, Waiting
<1>5. Loop' BY DEF IInv, Loop
<1>6. Logins' BY DEF IInv, Logins, Unlogged
<1>7. Members' BY DEF IInv, Members
<1> QED BY <1>1, <1>2, <1>3, <1>4, <1>5, <1>6, <1>7 DEF IInv

(* it holds at the start,                                                  *)
LEMMA Initially ==
  ASSUME Init
  PROVE  IInv
<1> USE LinuxServerAssumption DEF Init, NoFd
<1>1. Types BY DEF Types, Places, Phases, Ends, Kinds
<1>2. ListAgrees BY DEF ListAgrees
<1>3. Sockets BY DEF Sockets, Owned
<1>4. Waiting BY DEF Waiting
<1>5. Loop BY DEF Loop
<1>6. Logins BY DEF Logins, Unlogged
<1>7. Members BY DEF Members
<1> QED BY <1>1, <1>2, <1>3, <1>4, <1>5, <1>6, <1>7 DEF IInv

(* and every step keeps it.                                                *)
LEMMA StepKeeps ==
  ASSUME IInv, [Next]_vars
  PROVE  IInv'
<1>1. CASE MainStep
  BY <1>1, Stuttering, InitializeGameLiftStep, EpollWaitStep, AcceptClientStep,
     ClientEventStep, EventsDoneStep, OnReceiveStep, HandlerDisconnectStep,
     ReadAgainStep, ReadErrorStep, BroadcastMessageStep,
     BroadcastDisconnectStep, FlushClientSendStep, FlushFailedStep,
     FlushDoneStep
  DEF MainStep, IInv, ReadZero
<1>2. CASE OnStartGameSession \/ OnProcessTerminate \/ Deactivate
  BY <1>2, OnStartGameSessionStep, OnProcessTerminateStep, DeactivateStep
  DEF IInv
<1>3. ASSUME NEW s \in Player,
             \/ Connect(s) \/ StartTest(s) \/ PlayTest(s)
             \/ EndTest(s) \/ HangUp(s) \/ Hear(s)
      PROVE  IInv'
  BY <1>3, ConnectStep, StartTestStep, PlayTestStep, EndTestStep, HangUpStep,
     HearStep
  DEF IInv
<1>4. CASE Crashed \/ UNCHANGED vars BY <1>4, Stuttering DEF Crashed
<1> QED BY <1>1, <1>2, <1>3, <1>4 DEF Next

(* The inductive invariant holds in every reachable state.                 *)
THEOREM Invariance == Spec => []IInv
BY Initially, StepKeeps, PTL DEF Spec

(* mClientList, the epoll registrations and the sockets of the sessions    *)
(* agree at every moment, although DeleteClient, accept and the            *)
(* destructors change them in different steps and descriptors are reused   *)
(* at once.                                                                *)
THEOREM ListAlwaysAgrees == Spec => []ListAgrees
<1>1. IInv => ListAgrees BY DEF IInv
<1> QED BY <1>1, Invariance, PTL

(* While the game session lives, a session that was disconnected is        *)
(* neither among the players nor does it keep a descriptor, whichever of   *)
(* its Disconnects did it: PlayerLogout, DispatchPacket, a read, a write   *)
(* or a full buffer.                                                       *)
THEOREM NeverAGhost == Spec => []NoGhost
<1>1. ASSUME IInv PROVE NoGhost
  <2> USE LinuxServerAssumption DEF NoFd
  <2> SUFFICES ASSUME gameStatus = "active", NEW s \in Player,
                      ~ mConnected[s], cur # s
               PROVE  s \notin mPlayerSessions /\ mSocket[s] = NoFd
    BY DEF NoGhost
  <2>1. s \notin mPlayerSessions BY <1>1 DEF IInv, Members
  <2>2. \A f \in Fd : mClientList[f] # s BY <1>1, ListFacts DEF IInv
  <2>3. ~ Owned(s) BY <2>1, <2>2 DEF Owned
  <2> QED BY <1>1, <2>1, <2>3 DEF IInv, Sockets
<1> QED BY <1>1, Invariance, PTL

-----------------------------------------------------------------------------
(* The events of a batch.                                                  *)

(* Leaving takes the entry of no event that is left.                       *)
LEMMA LeavesBatch ==
  ASSUME Batch, NEW s \in Player, Leaves(s), s = cur, Types,
         cur' = cur \/ cur' = NoSession, batch' = batch,
         at' \notin {"init", "wait", "flush"}
  PROVE  Batch'
<1>1. \A f \in batch \ {Listen} :
        /\ f \in Fd /\ mClientList[f] # NoSession /\ mClientList[f] # s
        /\ mClientList'[f] = mClientList[f]
  BY DEF Batch, Leaves, Types
<1> QED BY <1>1 DEF Batch

(* As long as no broadcast meets a full buffer, no handler takes the       *)
(* session of an event that is still to come.                              *)
LEMMA BatchStep ==
  ASSUME IInv, Batch, NoOverflow, [Next]_vars
  PROVE  Batch'
<1> USE LinuxServerAssumption DEF Listen, NoFd
<1>1. /\ Types /\ ListAgrees /\ Sockets /\ Waiting /\ Loop /\ Logins
      /\ Members
  BY DEF IInv
<1>2. CASE UNCHANGED <<mClientList, batch, cur, at>> BY <1>2 DEF Batch
<1>3. CASE InitializeGameLift BY <1>3 DEF InitializeGameLift, Batch, clients
<1>4. CASE EpollWait
  <2>1. cur' = NoSession /\ at' = "events" /\ mClientList' = mClientList
    BY <1>1, <1>4 DEF EpollWait, Loop
  <2>2. \A f \in batch' \ {Listen} : f \in watched
    BY <1>1, <1>4 DEF EpollWait, Pending, Types
  <2> QED BY <1>1, <2>1, <2>2 DEF Batch, ListAgrees
<1>5. CASE AcceptClient
  <2>1. cur' = cur /\ cur = NoSession /\ at' = "events" /\ batch' = batch \ {Listen}
    BY <1>1, <1>5 DEF AcceptClient, Loop
  <2>2. \A f \in Fd : mClientList[f] # NoSession => mClientList'[f] = mClientList[f]
    <3>1. \/ mClientList' = mClientList
          \/ \E f \in {Least(Fd \ Used)}, s \in backlog :
               /\ mClientList[f] = NoSession
               /\ mClientList' = [mClientList EXCEPT ![f] = s]
      BY <1>5 DEF AcceptClient, Set
    <3>2. mClientList \in [Fd -> Player \cup {NoSession}] BY <1>1 DEF Types
    <3> QED BY <3>1, <3>2
  <2>3. \A f \in batch \ {Listen} : f \in Fd BY <1>1 DEF Types
  <2> QED BY <2>1, <2>2, <2>3 DEF Batch
<1>6. CASE ClientEvent
  <2>1. PICK f \in batch \ {Listen} : batch' = batch \ {f} /\ cur' = mClientList[f]
    BY <1>6 DEF ClientEvent
  <2>2. /\ at' \notin {"init", "wait", "flush"} /\ mClientList' = mClientList
    BY <1>6 DEF ClientEvent, clients
  <2>3. ASSUME NEW g \in batch \ {Listen}, g # f
        PROVE  mClientList[g] # NoSession /\ mClientList[g] # mClientList[f]
    <3>1. /\ mClientList[g] # NoSession /\ mClientList[f] # NoSession
          /\ g \in Fd /\ f \in Fd
      BY <1>1 DEF Batch, Types
    <3>2. g \in watched /\ f \in watched BY <1>1, <3>1 DEF ListAgrees
    <3>3. mSocket[mClientList[g]] = g /\ mSocket[mClientList[f]] = f
      BY <1>1, <3>2 DEF ListAgrees
    <3> QED BY <2>3, <3>1, <3>3
  <2> QED BY <2>1, <2>2, <2>3 DEF Batch
<1>7. CASE EventsDone BY <1>7 DEF EventsDone, Batch, clients
<1>8. CASE OnReceive
  <2>1. UNCHANGED <<mClientList, batch, cur>> BY <1>8 DEF OnReceive, clients
  <2>2. at' \notin {"init", "wait", "flush"}
    BY <1>8 DEF OnReceive, Handler, PlayerLogin, PlayerLogout, Broadcast,
                RefusePacket
  <2> QED BY <2>1, <2>2 DEF Batch
<1>9. CASE HandlerDisconnect \/ ReadError
  <2>1. PICK s \in Player : s = cur
    BY <1>1, <1>9 DEF HandlerDisconnect, ReadError, Loop
  <2>2. Disconnect(s) BY <1>9, <2>1 DEF HandlerDisconnect, ReadError
  <2>3. Leaves(s) BY <1>1, <2>2, DisconnectLeaves
  <2> QED BY <1>1, <1>9, <2>1, <2>3, LeavesBatch
          DEF HandlerDisconnect, ReadError, Received
<1>10. CASE ReadAgain
  <2>1. \A f \in batch \ {Listen} : mClientList[f] # NoSession BY DEF Batch
  <2>2. cur' = NoSession /\ at' = "events" /\ UNCHANGED <<mClientList, batch>>
    BY <1>10 DEF ReadAgain, Received, clients
  <2> QED BY <2>1, <2>2 DEF Batch
<1>11. CASE BroadcastMessage
  BY <1>11 DEF BroadcastMessage, Batch, clients
<1>12. CASE BroadcastDisconnect
  BY <1>12 DEF BroadcastDisconnect, NoOverflow
<1>13. CASE FlushClientSend \/ FlushDone
  BY <1>13 DEF FlushClientSend, FlushDone, Batch, clients
<1>14. CASE FlushFailed BY <1>14 DEF FlushFailed, Batch
<1>15. CASE ReadZero \/ Crashed \/ UNCHANGED vars
  BY <1>2, <1>15 DEF ReadZero, Crashed, vars, clients, loop
<1>16. CASE OnStartGameSession \/ OnProcessTerminate \/ Deactivate
  BY <1>2, <1>16 DEF OnStartGameSession, OnProcessTerminate, Deactivate,
                     clients, loop
<1>17. ASSUME NEW s \in Player,
              \/ Connect(s) \/ StartTest(s) \/ PlayTest(s)
              \/ EndTest(s) \/ HangUp(s) \/ Hear(s)
       PROVE  Batch'
  <2>1. UNCHANGED <<mClientList, batch, cur, at>>
    BY <1>17 DEF Connect, StartTest, PlayTest, EndTest, HangUp, Hear, Request,
                 clients, loop
  <2> QED BY <2>1, <1>2
<1> QED
  BY <1>3, <1>4, <1>5, <1>6, <1>7, <1>8, <1>9, <1>10, <1>11, <1>12, <1>13,
     <1>14, <1>15, <1>16, <1>17
  DEF Next, MainStep

(* CRASH_ASSERT(IsConnected()) of OnReceive: in a run in which no          *)
(* broadcast meets a full buffer every event of a batch finds a connected  *)
(* session.  (A broadcast that does meet one may disconnect a session      *)
(* whose event is next.)                                                   *)
THEOREM EventsFindTheirSession == Spec /\ []NoOverflow => []AssertConnected
<1>1. Init => Batch BY DEF Init, Batch
<1>2. ASSUME IInv, Batch PROVE AssertConnected
  <2> USE LinuxServerAssumption DEF Listen
  <2> SUFFICES ASSUME NEW f \in batch \ {Listen}
               PROVE  mClientList[f] # NoSession /\ mConnected[mClientList[f]]
    BY DEF AssertConnected
  <2>1. f \in Fd /\ mClientList[f] # NoSession BY <1>2 DEF IInv, Types, Batch
  <2>2. mClientList[f] \in Player BY <1>2, <2>1 DEF IInv, Types
  <2> QED BY <1>2, <2>1, <2>2, ListFacts DEF IInv
<1>3. IInv /\ Batch /\ NoOverflow /\ [Next]_vars => Batch' BY BatchStep
<1>4. IInv /\ Batch => AssertConnected BY <1>2
<1> QED BY <1>1, <1>3, <1>4, Invariance, PTL DEF Spec

-----------------------------------------------------------------------------
(* The server implements GameSessionLife.                                  *)

Here     == {s \in Player : service[s] = "active"}
Gone     == {s \in Player : service[s] = "completed"}
LifeVars == <<gameStatus, Here, Gone>>

(* GameSessionLife counts as FiniteSets does.                              *)
LEMMA LifeCounts ==
  ASSUME NEW S
  PROVE  Life!Cardinality(S) = Cardinality(S)
BY DEF Life!Cardinality, Cardinality

(* A step that neither the service nor the counters notice.                *)
LEMMA LifeStutters ==
  ASSUME Counts, UNCHANGED <<gameStatus, service, mAcceptedCount, mRemovedCount>>,
         at' = "init" => at = "init"
  PROVE  Counts' /\ UNCHANGED LifeVars
BY DEF Counts, LifeVars, Here, Gone, CheckTerminateGameSession

(* A player is removed, or was not there.                                  *)
LEMMA LifeLeaves ==
  ASSUME Types, Counts, IsFiniteSet(Player),
         Cardinality(Player) <= MAX_PLAYER_PER_GAME,
         NEW s \in Player, RemovePlayerSession(s),
         mAcceptedCount' = mAcceptedCount, at' # "init"
  PROVE  Counts' /\ (Life!Next \/ UNCHANGED LifeVars)
<1> USE LinuxServerAssumption
<1> DEFINE Known == {r \in Player : service[r] \in {"active", "completed"}}
<1>1. /\ IsFiniteSet(Known) /\ IsFiniteSet(Here) /\ IsFiniteSet(Gone)
      /\ Cardinality(Gone) \in Nat /\ Cardinality(Known) \in Nat
  <2>1. Known \in SUBSET Player /\ Here \in SUBSET Player /\ Gone \in SUBSET Player
    BY DEF Here, Gone
  <2>2. IsFiniteSet(Known) /\ IsFiniteSet(Here) /\ IsFiniteSet(Gone)
    BY <2>1, FS_Subset
  <2> QED BY <2>2, FS_CardinalityType
<1>2. mAcceptedCount = Cardinality(Known) /\ mRemovedCount = Cardinality(Gone)
  BY DEF Counts, Gone
<1>3. CASE service[s] = "active" /\ gameStatus = "active"
  <2>1. /\ mRemovedCount' = mRemovedCount + 1
        /\ service' = [service EXCEPT ![s] = "completed"]
        /\ gameStatus' = IF CheckTerminateGameSession(mRemovedCount + 1)
                         THEN "ended" ELSE gameStatus
    BY <1>3 DEF RemovePlayerSession, Set
  <2>2. \A r \in Player : service'[r] = IF r = s THEN "completed" ELSE service[r]
    BY <2>1 DEF Types
  <2>3. Here' = Here \ {s} /\ Gone' = Gone \cup {s} /\ s \in Here /\ s \notin Gone
    BY <1>3, <2>2 DEF Here, Gone
  <2>4. {r \in Player : service'[r] \in {"active", "completed"}} = Known
    BY <1>3, <2>2
  <2>5. IsFiniteSet(Gone') /\ Cardinality(Gone') = Cardinality(Gone) + 1
    BY <1>1, <2>3, FS_AddElement
  <2>6. mAcceptedCount >= MAX_PLAYER_PER_GAME
          /\ mRemovedCount + 1 >= MAX_PLAYER_PER_GAME
        <=> Here' = {} /\ Cardinality(Gone') >= MAX_PLAYER_PER_GAME
    <3>1. ASSUME Here' = {}, Cardinality(Gone') >= MAX_PLAYER_PER_GAME
          PROVE  mAcceptedCount >= MAX_PLAYER_PER_GAME
      <4>1. Known = Gone' BY <1>3, <2>3, <3>1 DEF Here, Gone
      <4> QED BY <4>1, <3>1, <1>2
    <3>2. ASSUME Cardinality(Gone') >= MAX_PLAYER_PER_GAME PROVE Here' = {}
      <4>1. Gone' \in SUBSET Player BY <2>3 DEF Gone
      <4>2. Cardinality(Gone') <= Cardinality(Player) BY <4>1, FS_Subset
      <4>3. Cardinality(Gone') \in Nat /\ Cardinality(Player) \in Nat
        BY <2>5, FS_CardinalityType
      <4>4. Cardinality(Player) = Cardinality(Gone') BY <3>2, <4>2, <4>3
      <4>5. Player = Gone' BY <4>1, <4>4, FS_Subset
      <4> QED BY <4>5, <2>2 DEF Gone, Here
    <3> QED BY <1>1, <1>2, <2>5, <3>1, <3>2
  <2>7. gameStatus' = IF Here' = {} /\ Cardinality(Gone') >= MAX_PLAYER_PER_GAME
                      THEN "ended" ELSE "active"
    BY <1>3, <2>1, <2>6 DEF CheckTerminateGameSession
  <2>8. Life!Next
    <3>1. s \in {r \in Player : service[r] = "active"} BY <1>3
    <3>2. /\ {r \in Player : service'[r] = "active"} =
               {r \in Player : service[r] = "active"} \ {s}
          /\ {r \in Player : service'[r] = "completed"} =
               {r \in Player : service[r] = "completed"} \cup {s}
      BY <2>3 DEF Here, Gone
    <3>3. gameStatus' =
            IF {r \in Player : service'[r] = "active"} = {}
               /\ Cardinality({r \in Player : service'[r] = "completed"})
                    >= MAX_PLAYER_PER_GAME
            THEN "ended" ELSE "active"
      BY <2>7 DEF Here, Gone
    <3>4. Life!Leave(s) BY <1>3, <3>1, <3>2, <3>3, LifeCounts DEF Life!Leave
    <3> QED BY <3>4 DEF Life!Next
  <2>9. Counts'
    <3>1. mRemovedCount' = Cardinality(Gone') BY <1>2, <2>1, <2>5
    <3>2. mAcceptedCount' = Cardinality(Known') BY <1>2, <2>4
    <3>3. gameStatus' # "none" BY <2>7
    <3>4. gameStatus' = "active" =>
            ~ (mAcceptedCount' >= MAX_PLAYER_PER_GAME
                 /\ mRemovedCount' >= MAX_PLAYER_PER_GAME)
      BY <2>1, <2>6, <2>7
    <3> QED BY <3>1, <3>2, <3>3, <3>4
            DEF Counts, Gone, CheckTerminateGameSession
  <2> QED BY <2>8, <2>9
<1>4. CASE ~ (service[s] = "active" /\ gameStatus = "active")
  <2>1. /\ mRemovedCount' = mRemovedCount /\ service' = service
        /\ gameStatus' = IF CheckTerminateGameSession(mRemovedCount)
                         THEN "ended" ELSE gameStatus
    BY <1>4 DEF RemovePlayerSession
  <2>2. CASE CheckTerminateGameSession(mRemovedCount)
    <3>1. gameStatus # "active" BY <2>2 DEF Counts
    <3>2. gameStatus # "none"
      <4>1. ASSUME gameStatus = "none" PROVE FALSE
        <5>1. Gone = {} BY <4>1 DEF Counts, Gone
        <5>2. mRemovedCount = 0 BY <5>1, <1>2, FS_EmptySet
        <5> QED BY <2>2, <5>2 DEF CheckTerminateGameSession
      <4> QED BY <4>1
    <3>3. gameStatus' = gameStatus BY <2>1, <2>2, <3>1, <3>2 DEF Types
    <3> QED BY <2>1, <3>3, LifeStutters
  <2>3. CASE ~ CheckTerminateGameSession(mRemovedCount)
    BY <2>1, <2>3, LifeStutters
  <2> QED BY <2>2, <2>3
<1> QED BY <1>3, <1>4

(* Disconnect removes the player or leaves the service alone.              *)
LEMMA LifeDisconnects ==
  ASSUME Types, Counts, IsFiniteSet(Player),
         Cardinality(Player) <= MAX_PLAYER_PER_GAME,
         NEW s \in Player, Disconnect(s), at' # "init"
  PROVE  Counts' /\ (Life!Next \/ UNCHANGED LifeVars)
<1>1. CASE mConnected[s] /\ mPlayerSessionId[s] # NoId
  BY <1>1, LifeLeaves DEF Disconnect, OnDisconnect
<1>2. CASE ~ (mConnected[s] /\ mPlayerSessionId[s] # NoId)
  <2>1. UNCHANGED <<gameStatus, service, mAcceptedCount, mRemovedCount>>
    BY <1>2 DEF Disconnect, OnDisconnect, manager
  <2> QED BY <2>1, LifeStutters
<1> QED BY <1>1, <1>2

(* PlayerLogin lets a player in once.                                      *)
LEMMA LifeEnters ==
  ASSUME Types, Counts, IsFiniteSet(Player), NEW s \in Player, PlayerLogin(s)
  PROVE  Counts' /\ (Life!Next \/ UNCHANGED LifeVars)
<1> USE LinuxServerAssumption
<1>0. at' # "init" BY DEF PlayerLogin
<1>1. CASE service[s] = "reserved" /\ gameStatus = "active"
  <2> DEFINE Known == {r \in Player : service[r] \in {"active", "completed"}}
  <2>1. /\ service' = [service EXCEPT ![s] = "active"] /\ gameStatus' = gameStatus
        /\ mAcceptedCount' = mAcceptedCount + 1 /\ mRemovedCount' = mRemovedCount
    BY <1>1 DEF PlayerLogin, Set
  <2>2. \A r \in Player : service'[r] = IF r = s THEN "active" ELSE service[r]
    BY <2>1 DEF Types
  <2>3. /\ Here' = Here \cup {s} /\ Gone' = Gone /\ s \notin Here \cup Gone
    BY <1>1, <2>2 DEF Here, Gone
  <2>4. Known' = Known \cup {s} /\ s \notin Known
    BY <1>1, <2>2
  <2>5. IsFiniteSet(Known)
    <3>1. Known \in SUBSET Player OBVIOUS
    <3> QED BY <3>1, FS_Subset
  <2>6. Cardinality(Known') = Cardinality(Known) + 1 BY <2>4, <2>5, FS_AddElement
  <2>7. mAcceptedCount' = Cardinality(Known') BY <2>1, <2>6 DEF Counts
  <2>8. mRemovedCount' = Cardinality(Gone') BY <2>1, <2>3 DEF Counts, Gone
  <2>9. ~ CheckTerminateGameSession(mRemovedCount)'
    <3>1. Gone \in SUBSET Known /\ Gone # Player BY <1>1 DEF Gone
    <3>2. mRemovedCount < MAX_PLAYER_PER_GAME
            \/ mAcceptedCount < MAX_PLAYER_PER_GAME
      BY <1>1 DEF Counts, CheckTerminateGameSession, Types
    <3>3. Cardinality(Gone) <= Cardinality(Known) BY <3>1, <2>5, FS_Subset
    <3>4. mRemovedCount = Cardinality(Gone) /\ mAcceptedCount = Cardinality(Known)
      BY DEF Counts, Gone
    <3>5. mRemovedCount < MAX_PLAYER_PER_GAME BY <3>2, <3>3, <3>4 DEF Types
    <3> QED BY <2>1, <3>5 DEF CheckTerminateGameSession, Types
  <2>10. Counts'
    BY <1>0, <1>1, <2>1, <2>7, <2>8, <2>9 DEF Counts, Gone
  <2>11. Life!Enter(s) BY <1>1, <2>1, <2>3 DEF Life!Enter, Here, Gone
  <2> QED BY <2>10, <2>11 DEF Life!Next
<1>2. CASE ~ (service[s] = "reserved" /\ gameStatus = "active")
  <2>1. UNCHANGED <<gameStatus, service, mAcceptedCount, mRemovedCount>>
    BY <1>2 DEF PlayerLogin
  <2> QED BY <1>0, <2>1, LifeStutters
<1> QED BY <1>1, <1>2

(* Every step of the server is a step of the abstract game session or      *)
(* none.                                                                   *)
LEMMA LifeStep ==
  ASSUME IInv, Counts, IsFiniteSet(Player),
         Cardinality(Player) <= MAX_PLAYER_PER_GAME, [Next]_vars
  PROVE  Counts' /\ (Life!Next \/ UNCHANGED LifeVars)
<1> USE LinuxServerAssumption
<1>1. Types /\ Waiting /\ Loop BY DEF IInv
<1>2. CASE InitializeGameLift
  <2>1. UNCHANGED <<gameStatus, service, mAcceptedCount, mRemovedCount>>
    BY <1>2 DEF InitializeGameLift, Counts, lift
  <2> QED BY <1>2, <2>1, LifeStutters DEF InitializeGameLift
<1>3. CASE OnStartGameSession
  <2>1. /\ gameStatus = "none" /\ gameStatus' = "active" /\ at' = at
        /\ UNCHANGED <<service, mAcceptedCount, mRemovedCount>>
    BY <1>3 DEF OnStartGameSession, manager, loop
  <2>2. {s \in Player : service[s] = "completed"} = {} BY <2>1 DEF Counts
  <2>3. mRemovedCount = 0 BY <2>2, FS_EmptySet DEF Counts
  <2>4. Counts' BY <2>1, <2>3 DEF Counts, CheckTerminateGameSession
  <2>5. Life!Activate BY <2>1 DEF Life!Activate
  <2> QED BY <2>4, <2>5 DEF Life!Next
<1>4. CASE OnProcessTerminate
  <2>1. /\ gameStatus' = "ended" /\ at' = at
        /\ UNCHANGED <<service, mAcceptedCount, mRemovedCount>>
    BY <1>4 DEF OnProcessTerminate, manager, loop
  <2>2. Counts' BY <2>1 DEF Counts
  <2>3. CASE gameStatus = "ended" BY <2>1, <2>2, <2>3 DEF LifeVars, Here, Gone
  <2>4. CASE gameStatus # "ended"
    <3>1. Life!Shutdown BY <2>1, <2>4 DEF Life!Shutdown
    <3> QED BY <2>2, <3>1 DEF Life!Next
  <2> QED BY <2>3, <2>4
<1>5. CASE OnReceive
  <2>1. cur \in Player BY <1>1, <1>5 DEF OnReceive, Loop
  <2>2. CASE PlayerLogin(cur) BY <1>1, <2>1, <2>2, LifeEnters
  <2>3. CASE PlayerLogout(cur)
    BY <1>1, <2>1, <2>3, LifeLeaves DEF PlayerLogout
  <2>4. CASE Broadcast \/ RefusePacket
    <3>1. /\ at' # "init"
          /\ UNCHANGED <<gameStatus, service, mAcceptedCount, mRemovedCount>>
      BY <2>4 DEF Broadcast, RefusePacket, manager
    <3> QED BY <3>1, LifeStutters
  <2> QED BY <1>5, <2>2, <2>3, <2>4 DEF OnReceive, Handler
<1>6. CASE HandlerDisconnect \/ ReadError
  <2>1. cur \in Player BY <1>1, <1>6 DEF HandlerDisconnect, ReadError, Loop
  <2>2. Disconnect(cur) /\ at' # "init"
    BY <1>6 DEF HandlerDisconnect, ReadError, Received
  <2> QED BY <1>1, <2>1, <2>2, LifeDisconnects
<1>7. CASE BroadcastDisconnect
  <2>1. PICK s \in todo : Disconnect(s) /\ at' # "init"
    BY <1>7 DEF BroadcastDisconnect
  <2>2. s \in Player BY <1>1 DEF Types
  <2> QED BY <1>1, <2>1, <2>2, LifeDisconnects
<1>8. CASE FlushFailed
  <2>1. NextToFlush \in Player BY <1>1, <1>8, NextToFlushIs DEF FlushFailed, Types
  <2>2. Disconnect(NextToFlush) /\ at' # "init" BY <1>8 DEF FlushFailed
  <2> QED BY <1>1, <2>1, <2>2, LifeDisconnects
<1>9. ASSUME NEW s \in Player, Connect(s)
      PROVE  Counts' /\ (Life!Next \/ UNCHANGED LifeVars)
  <2>1. /\ service[s] = "none" /\ service' = [service EXCEPT ![s] = "reserved"]
        /\ gameStatus = "active" /\ at' = at
        /\ UNCHANGED <<gameStatus, mAcceptedCount, mRemovedCount>>
    BY <1>1, <1>9 DEF Connect, Waiting, Set, manager, loop
  <2>2. \A r \in Player : service'[r] = IF r = s THEN "reserved" ELSE service[r]
    BY <1>1, <2>1 DEF Types
  <2>3. /\ {r \in Player : service'[r] \in {"active", "completed"}} =
             {r \in Player : service[r] \in {"active", "completed"}}
        /\ {r \in Player : service'[r] = "completed"} =
             {r \in Player : service[r] = "completed"}
        /\ Here' = Here /\ Gone' = Gone
    BY <2>1, <2>2 DEF Here, Gone
  <2>4. Counts' BY <2>1, <2>3 DEF Counts, CheckTerminateGameSession
  <2> QED BY <2>1, <2>3, <2>4 DEF LifeVars
<1>10. CASE \/ EpollWait \/ AcceptClient \/ ClientEvent \/ EventsDone
            \/ ReadAgain \/ BroadcastMessage \/ FlushClientSend \/ FlushDone
  <2>1. /\ at' # "init"
        /\ UNCHANGED <<gameStatus, service, mAcceptedCount, mRemovedCount>>
    BY <1>10 DEF EpollWait, AcceptClient, ClientEvent, EventsDone, ReadAgain,
      Received, BroadcastMessage, FlushClientSend, FlushDone, manager, lift
  <2> QED BY <2>1, LifeStutters
<1>11. CASE Deactivate \/ ReadZero \/ Crashed \/ UNCHANGED vars
  <2>1. UNCHANGED <<gameStatus, service, mAcceptedCount, mRemovedCount, at>>
    BY <1>11 DEF Deactivate, ReadZero, Crashed, vars, manager, lift, loop
  <2> QED BY <2>1, LifeStutters
<1>12. ASSUME NEW s \in Player,
              \/ StartTest(s) \/ PlayTest(s) \/ EndTest(s) \/ HangUp(s)
              \/ Hear(s)
       PROVE  Counts' /\ (Life!Next \/ UNCHANGED LifeVars)
  <2>1. UNCHANGED <<gameStatus, service, mAcceptedCount, mRemovedCount, at>>
    BY <1>12 DEF StartTest, PlayTest, EndTest, HangUp, Hear, Request,
                 manager, lift, loop
  <2> QED BY <2>1, LifeStutters
<1> QED
  BY <1>2, <1>3, <1>4, <1>5, <1>6, <1>7, <1>8, <1>9, <1>10, <1>11, <1>12
  DEF Next, MainStep

(* With no more players than MAX_PLAYER_PER_GAME the server implements     *)
(* GameSessionLife: its two counters end the game session exactly when the *)
(* last of a full house leaves, whatever the order in which sockets,       *)
(* packets and the service report it.                                      *)
THEOREM ImplementsLife ==
  ASSUME IsFiniteSet(Player), Cardinality(Player) <= MAX_PLAYER_PER_GAME
  PROVE  Spec => LivesAsPromised
<1>1. Init => Life!Init BY DEF Init, Life!Init
<1>2. Init => Counts
  <2> SUFFICES ASSUME Init PROVE Counts OBVIOUS
  <2>1. /\ {s \in Player : service[s] \in {"active", "completed"}} = {}
        /\ {s \in Player : service[s] = "completed"} = {}
    BY DEF Init
  <2> QED BY <2>1, FS_EmptySet DEF Init, Counts
<1>3. IInv /\ Counts /\ [Next]_vars => Counts' BY LifeStep
<1>4. IInv /\ Counts /\ [Next]_vars =>
        [Life!Next]_<<gameStatus, {s \in Player : service[s] = "active"},
                      {s \in Player : service[s] = "completed"}>>
  BY LifeStep DEF LifeVars, Here, Gone
<1> QED BY <1>1, <1>2, <1>3, <1>4, Invariance, PTL
        DEF Spec, LivesAsPromised, Life!Spec
=============================================================================
