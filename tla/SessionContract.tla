--------------------------- MODULE SessionContract ---------------------------
(***************************************************************************)
(* What the control session promises the rest of the client, whatever its  *)
(* goroutines do: one session at a time; a session is linked to the server *)
(* only while it is remembered; it may lose its link and get it back, but  *)
(* once forgotten it is gone.                                              *)
(***************************************************************************)
CONSTANTS Tokens, None

VARIABLES session,  \* the remembered session, or None
          linked,   \* whether it has a connection
          past      \* sessions that are over

vars == <<session, linked, past>>

Init == session = None /\ linked = FALSE /\ past = {}

Login(k) ==
  /\ session = None /\ k \notin past
  /\ session' = k /\ linked' = TRUE
  /\ UNCHANGED past

LoseLink == linked /\ linked' = FALSE /\ UNCHANGED <<session, past>>

Relink == session # None /\ linked' = TRUE /\ UNCHANGED <<session, past>>

Leave ==
  /\ session # None
  /\ session' = None /\ linked' = FALSE
  /\ past' = past \cup {session}

Next == (\E k \in Tokens : Login(k)) \/ LoseLink \/ Relink \/ Leave

Spec == Init /\ [][Next]_vars
=============================================================================
