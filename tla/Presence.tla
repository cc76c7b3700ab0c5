------------------------------ MODULE Presence ------------------------------
(***************************************************************************)
(* What the game server promises about who is in the world, with no queue, *)
(* thread or database in sight: a connection is known to the world from    *)
(* its GameConnect to its disconnect, a known connection plays at most one *)
(* character, a character is played by at most one connection, and a       *)
(* connection that was forgotten never comes back.                         *)
(***************************************************************************)
CONSTANTS Conn,   \* connection ids, each used for one TCP connection
          Char,   \* `character` rows
          None

VARIABLES known,    \* connections the world knows
          departed, \* connections it has forgotten
          playing   \* the character each connection plays, or None

vars == <<known, departed, playing>>

Free(ch) == \A c \in Conn : playing[c] # ch

Init ==
  /\ known = {}
  /\ departed = {}
  /\ playing = [c \in Conn |-> None]

Arrive(c) ==
  /\ c \notin known \cup departed
  /\ known' = known \cup {c}
  /\ UNCHANGED <<departed, playing>>

Take(c, ch) ==
  /\ c \in known
  /\ playing[c] = None
  /\ Free(ch)
  /\ playing' = [playing EXCEPT ![c] = ch]
  /\ UNCHANGED <<known, departed>>

Release(c) ==
  /\ playing[c] # None
  /\ playing' = [playing EXCEPT ![c] = None]
  /\ UNCHANGED <<known, departed>>

Depart(c) ==
  /\ c \in known
  /\ known' = known \ {c}
  /\ departed' = departed \cup {c}
  /\ playing' = [playing EXCEPT ![c] = None]

Next ==
  \E c \in Conn :
    \/ Arrive(c)
    \/ \E ch \in Char : Take(c, ch)
    \/ Release(c)
    \/ Depart(c)

Spec == Init /\ [][Next]_vars
=============================================================================
