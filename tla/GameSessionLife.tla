-------------------------- MODULE GameSessionLife ---------------------------
(***************************************************************************)
(* What the game server promises the GameLift service about its one game   *)
(* session: players enter it once and leave it once, and it ends when the  *)
(* service asks for it or when it has been full and everybody has left.    *)
(***************************************************************************)
EXTENDS Integers, FiniteSets

CONSTANTS Player, Full

VARIABLES phase,   \* "none", "active" or "ended"
          here,    \* the players in the game session
          gone     \* the players that left it

Init == phase = "none" /\ here = {} /\ gone = {}

Activate ==
  /\ phase = "none" /\ phase' = "active"
  /\ UNCHANGED <<here, gone>>

Enter(p) ==
  /\ phase = "active" /\ p \notin here \cup gone
  /\ here' = here \cup {p}
  /\ UNCHANGED <<phase, gone>>

(* The last player to leave ends a game session that has been full.        *)
Leave(p) ==
  /\ phase = "active" /\ p \in here
  /\ here' = here \ {p} /\ gone' = gone \cup {p}
  /\ phase' = IF here' = {} /\ Cardinality(gone') >= Full
              THEN "ended" ELSE "active"

(* The service asks the process to terminate.                              *)
Shutdown ==
  /\ phase # "ended" /\ phase' = "ended"
  /\ UNCHANGED <<here, gone>>

Next == Activate \/ Shutdown \/ \E p \in Player : Enter(p) \/ Leave(p)

Spec == Init /\ [][Next]_<<phase, here, gone>>
=============================================================================
