------------------------ MODULE ConnectionDirectory ------------------------
(***************************************************************************)
(* What the account store promises when every command is a single step: a  *)
(* list of connections, of which at most one is active, and a Codex whose  *)
(* provider and login change together with it.  A command that fails is no *)
(* step at all.                                                            *)
(***************************************************************************)
CONSTANTS Plus, Apis, None

VARIABLES
  listed,    \* the connections the panel shows
  active,    \* the connection in use
  selected,  \* the provider Codex is configured for; None: the built-in one
  login      \* the ChatGPT account Codex is logged in to

vars == <<listed, active, selected, login>>

Conn == Plus \cup Apis

Init ==
  /\ listed = {}
  /\ active = None
  /\ selected = None
  /\ login \in Plus \cup {None}

\* The user logs in with Codex itself.
Login(p) ==
  /\ login' = p
  /\ UNCHANGED <<listed, active, selected>>

\* An API connection is saved.
List(a) ==
  /\ listed' = listed \cup {a}
  /\ UNCHANGED <<active, selected, login>>

\* The login in use is saved, and becomes the active connection.
Adopt(p) ==
  /\ p = login
  /\ selected = None
  /\ listed' = listed \cup {p}
  /\ active' = p
  /\ UNCHANGED <<selected, login>>

\* A switch to a ChatGPT account.
InstallPlus(p) ==
  /\ p \in listed
  /\ active' = p
  /\ selected' = None
  /\ login' = p
  /\ UNCHANGED listed

\* A switch to an API connection keeps the login, or takes that of a listed
\* account when there is none it can use.
InstallApi(a) ==
  /\ a \in listed
  /\ active' = a
  /\ selected' = a
  /\ login' \in ({login} \cup (listed \cap Plus)) \ {None}
  /\ UNCHANGED listed

Delete(c) ==
  /\ c \in listed
  /\ c # active
  /\ listed' = listed \ {c}
  /\ UNCHANGED <<active, selected, login>>

Next ==
  \/ \E p \in Plus : Login(p) \/ Adopt(p) \/ InstallPlus(p)
  \/ \E a \in Apis : List(a) \/ InstallApi(a)
  \/ \E c \in Conn : Delete(c)

Spec == Init /\ [][Next]_vars

=============================================================================
