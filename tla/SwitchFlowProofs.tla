-------------------------- MODULE SwitchFlowProofs --------------------------
(***************************************************************************)
(* What holds of the panel's switch and login handlers for any accounts,   *)
(* connections, clients and logins: types, what a switch goes back to,     *)
(* and, if no handler connects while another one does (Interleave = {}),   *)
(* that no app-server is left behind, that a verified switch is one and    *)
(* that a login clears the mark of its own account.                        *)
(***************************************************************************)
EXTENDS SwitchFlow, TLAPS

SwitchPoints == {"idle", "history", "replace", "connect", "connecting", "check",
                 "save", "clear", "review", "undone", "mark"}
SwitchRecords == [pc : SwitchPoints,
                  target : Conn \cup {None}, prev : Conn \cup {None},
                  client : Clients \cup {None},
                  replaced : BOOLEAN, undoing : BOOLEAN, mark : BOOLEAN]
Phases == {"free", "starting", "loaded", "refresh", "open"}
States == {"disconnected", "connecting", "connected", "error"}

\* The types, part by part; that Codex has a login, and that the active connection
\* and the one shown are listed, is needed for what a switch goes back to.
StoreOK ==
  /\ listed \subseteq Conn /\ active \in listed
  /\ selected \in Apis \cup {None} /\ login \in Plus
  /\ invalid \subseteq Conn /\ suspect \subseteq invalid
  /\ shown \in listed /\ saving \in Apis \cup {None}

PhaseOK == phase \in [Clients -> Phases]
LoadedOK == loaded \in [Clients -> Disk]
ByOK == by \in [Clients -> {None, "user", "switch", "login"}]
Attempts == [pc : {"free", "open", "written", "clear"},
             client : Clients \cup {None}, key : Conn \cup {None}]
AttemptOK == attempt \in [Logins -> Attempts]
CancelOK == cancel \in [id : Logins \cup {None}, client : Clients \cup {None}]
AskedOK == AttemptOK /\ CancelOK
RefOK == clientRef \in Clients \cup {None}
ShowsOK == state \in States /\ launching \in BOOLEAN
ClientsOK == PhaseOK /\ LoadedOK /\ ByOK /\ AskedOK /\ RefOK /\ ShowsOK

SwitchOK == sw \in SwitchRecords

FlowOK == flow \in Logins \cup {None}
PrepOK == prep \in [pc : {"idle", "storage", "connecting", "save", "start"},
                    client : Clients \cup {None}]
LoginsOK == FlowOK /\ PrepOK

TypeInv == StoreOK /\ ClientsOK /\ SwitchOK /\ LoginsOK

-----------------------------------------------------------------------------
(* Commands of the store.                                                  *)

\* Codex is configured for the connection c.
DiskIs(c) ==
  /\ c \in Conn
  /\ selected = IF c \in Apis THEN c ELSE None
  /\ c \in Plus => login = c

\* What is not None.
LEMMA Constants ==
  /\ None \notin Conn /\ None \notin Clients /\ None \notin Plus /\ None \notin Apis
  /\ \A c \in Plus : c \notin Apis
BY SwitchAssumption DEF Conn

\* A switch command installs a listed connection, and changes no list.
LEMMA InstallPlaces ==
  ASSUME StoreOK, NEW c, Install(c)
  PROVE  /\ listed' = listed /\ active' = c /\ active' \in listed'
         /\ selected' \in Apis \cup {None} /\ login' \in Plus
         /\ c \in Conn /\ selected' = IF c \in Apis THEN c ELSE None
         /\ c \in Plus => login' = c
<1>1. CASE c \in Apis
  BY <1>1, Constants DEF Install, StoreOK, Conn, Store!InstallApi
<1>2. CASE c \notin Apis
  BY <1>2, Constants DEF Install, StoreOK, Conn, Store!InstallPlus
<1>3. QED BY <1>1, <1>2

\* Saving the login in use adds it to the list and makes it the active one, but
\* not beside an API connection; Codex stays as it is.
LEMMA SaveAdopts ==
  ASSUME StoreOK, SaveCurrent
  PROVE  /\ listed \subseteq listed' /\ listed' \subseteq Conn /\ active' \in listed'
         /\ selected' = selected /\ login' = login
         /\ active' = IF active \in Apis THEN active ELSE login
<1>1. CASE active \in Apis
  BY <1>1 DEF SaveCurrent, StoreOK, store
<1>2. CASE active \notin Apis
  BY <1>2 DEF SaveCurrent, StoreOK, Conn, Store!Adopt
<1>3. QED BY <1>1, <1>2

\* A connection of the list is marked "log in again", or a mark ends.
LEMMA MarksStay ==
  ASSUME StoreOK, NEW c, UNCHANGED store, UNCHANGED saving, shown' \in {shown, active},
         (c \in listed /\ Mark(c)) \/ Unmark(c) \/ UNCHANGED marks
  PROVE  StoreOK'
<1>1. invalid' \subseteq Conn /\ suspect' \subseteq invalid'
  BY DEF StoreOK, Mark, Unmark, marks
<1>2. QED BY <1>1 DEF StoreOK, store

\* The store keeps its type.
LEMMA StoreSteps ==
  ASSUME TypeInv, [Next]_vars
  PROVE  StoreOK'
<1> USE DEF TypeInv
<1>1. CASE UNCHANGED <<store, marks, panel>>
  BY <1>1 DEF StoreOK, store, marks, panel
<1>2. ASSUME NEW c, Install(c), UNCHANGED <<marks, saving>>, shown' \in {shown, active'}
      PROVE  StoreOK'
  BY <1>2, InstallPlaces DEF StoreOK, marks
<1>3. ASSUME SaveCurrent, UNCHANGED <<marks, saving>>, shown' \in {shown, active'} PROVE StoreOK'
  BY <1>3, SaveAdopts DEF StoreOK, marks
<1>4. ASSUME NEW c \in Clients, Reconnect(c) \/ ConnectStep(c) \/ Exits(c) PROVE StoreOK'
  BY <1>1, <1>4 DEF Reconnect, ConnectStep, Load, Open, Refreshed, ConnectFails, Exits
<1>5. CASE SwitchStep
  <2>1. CASE SwitchBacksUp \/ SwitchConnected \/ SwitchChecks \/ SwitchNotCleared \/ SwitchReviews
             \/ \E c \in Clients : SwitchConnects(c)
    BY <1>1, <2>1 DEF SwitchBacksUp, SwitchConnected, SwitchChecks, SwitchNotCleared,
                      SwitchReviews, SwitchConnects
  <2>2. CASE SwitchReplaces
    BY <1>1, <1>2, <2>2 DEF SwitchReplaces, panel
  <2>3. CASE SwitchSaves
    BY <1>1, <1>3, <2>3 DEF SwitchSaves, panel
  <2>4. CASE SwitchVerified
    BY <2>4, MarksStay DEF SwitchVerified
  <2>5. CASE SwitchEnds
    BY <2>5, MarksStay DEF SwitchEnds
  <2>6. QED BY <1>5, <2>1, <2>2, <2>3, <2>4, <2>5 DEF SwitchStep
<1>6. CASE LoginStep
  <2>1. CASE LoginStorage \/ LoginConnected \/ LoginStarts \/ CancelAnswered
    BY <1>1, <2>1 DEF LoginStorage, LoginConnected, LoginStarts, CancelAnswered
  <2>2. CASE LoginSaves
    BY <1>1, <1>3, <2>2 DEF LoginSaves, panel
  <2>3. ASSUME NEW id \in Logins, LoginClears(id) PROVE StoreOK'
    BY <2>3, MarksStay DEF LoginClears
  <2>4. QED BY <1>6, <2>1, <2>2, <2>3 DEF LoginStep
<1>7. ASSUME NEW id \in Logins, NEW p \in Plus, LogsIn(id, p) PROVE StoreOK'
  BY <1>7 DEF LogsIn, StoreOK, panel
<1>8. ASSUME NEW id \in Logins, LoginCompleted(id) \/ LoginFailed(id) PROVE StoreOK'
  BY <1>1, <1>3, <1>8 DEF LoginCompleted, LoginFailed, panel
<1>9. CASE StartLogin \/ CancelLogin BY <1>1, <1>9 DEF StartLogin, CancelLogin
<1>10. CASE ListAccounts BY <1>10 DEF ListAccounts, StoreOK, store, marks
<1>11. ASSUME NEW c \in Conn, Switch(c) \/ Delete(c) PROVE StoreOK'
  <2>1. CASE Switch(c) BY <1>1, <2>1 DEF Switch
  <2>2. CASE Delete(c) BY <2>2 DEF Delete, StoreOK, Store!Delete, Unmark
  <2>3. QED BY <1>11, <2>1, <2>2
<1>12. ASSUME NEW a \in Apis, SaveApi(a) PROVE StoreOK'
  BY <1>12 DEF SaveApi, StoreOK, store, marks
<1>13. CASE ApiSaved
  <2>1. CASE UNCHANGED <<store, marks, sw, shown>> /\ saving' = None
    BY <2>1 DEF StoreOK, store, marks
  <2>2. CASE Store!List(saving) /\ Unmark(saving) /\ shown' = active /\ saving' = None
             /\ saving # None
    BY <2>2 DEF StoreOK, Store!List, Unmark, Conn
  <2>3. QED BY <1>13, <2>1, <2>2 DEF ApiSaved
<1>14. CASE UNCHANGED vars BY <1>1, <1>14 DEF vars
<1>15. QED
  BY <1>4, <1>5, <1>6, <1>7, <1>8, <1>9, <1>10, <1>11, <1>12, <1>13, <1>14 DEF Next

-----------------------------------------------------------------------------
(* Clients, switch and logins keep their types.                            *)

\* What a switch goes through next.
LEMMA SwitchRecordsStay ==
  ASSUME SwitchOK, NEW pc \in SwitchPoints
  PROVE  /\ At(pc) => SwitchOK'
         /\ \A mark \in BOOLEAN : Fail(mark) => SwitchOK'
         /\ sw' = [sw EXCEPT !.pc = pc, !.replaced = TRUE] => SwitchOK'
         /\ \A c \in Clients \cup {None} : sw' = [sw EXCEPT !.pc = pc, !.client = c] => SwitchOK'
<1>1. At(pc) => SwitchOK' BY DEF SwitchOK, At, SwitchRecords
<1>2. ASSUME NEW mark \in BOOLEAN, Fail(mark) PROVE SwitchOK'
  BY <1>2 DEF SwitchOK, Fail, SwitchRecords, SwitchPoints
<1>3. sw' = [sw EXCEPT !.pc = pc, !.replaced = TRUE] => SwitchOK'
  BY DEF SwitchOK, SwitchRecords
<1>4. ASSUME NEW c \in Clients \cup {None}, sw' = [sw EXCEPT !.pc = pc, !.client = c]
      PROVE  SwitchOK'
  BY <1>4 DEF SwitchOK, SwitchRecords
<1>5. QED BY <1>1, <1>2, <1>3, <1>4

\* A switch to a connection that is listed begins.
LEMMA StartedIsSwitch ==
  ASSUME StoreOK, RefOK, NEW c \in Conn, StartSwitch(c)
  PROVE  SwitchOK'
BY DEF StartSwitch, NoSwitch, StoreOK, RefOK, SwitchOK, SwitchRecords, SwitchPoints

\* The switch keeps its type.
LEMMA SwitchSteps ==
  ASSUME TypeInv, [Next]_vars
  PROVE  SwitchOK'
<1> USE DEF TypeInv
<1>1. CASE UNCHANGED sw BY <1>1 DEF SwitchOK
<1>2. SwitchPoints = {"idle", "history", "replace", "connect", "connecting", "check",
                      "save", "clear", "review", "undone", "mark"} BY DEF SwitchPoints
<1>3. CASE sw' = NoSwitch BY <1>3 DEF NoSwitch, SwitchOK, SwitchRecords, SwitchPoints
<1>4. ASSUME NEW mark \in BOOLEAN, Fail(mark) PROVE SwitchOK'
  BY <1>2, <1>4, SwitchRecordsStay
<1>5. ASSUME NEW pc \in SwitchPoints, At(pc) PROVE SwitchOK'
  BY <1>5, SwitchRecordsStay
<1>6. clientRef \in Clients \cup {None} BY DEF ClientsOK, RefOK
<1>7. CASE SwitchStep
  <2>1. CASE SwitchBacksUp BY <1>2, <1>4, <2>1, SwitchRecordsStay DEF SwitchBacksUp
  <2>2. CASE SwitchReplaces BY <1>2, <1>4, <2>2, SwitchRecordsStay DEF SwitchReplaces
  <2>3. CASE SwitchConnected BY <1>2, <1>4, <1>6, <2>3, SwitchRecordsStay DEF SwitchConnected
  <2>4. CASE SwitchChecks BY <1>2, <1>4, <1>5, <2>4 DEF SwitchChecks
  <2>5. CASE SwitchSaves BY <1>2, <1>4, <1>5, <2>5 DEF SwitchSaves
  <2>6. CASE SwitchVerified BY <1>2, <1>5, <2>6 DEF SwitchVerified
  <2>7. CASE SwitchNotCleared BY <1>4, <2>7 DEF SwitchNotCleared
  <2>8. CASE SwitchReviews BY <1>3, <1>4, <2>8 DEF SwitchReviews
  <2>9. CASE SwitchEnds BY <1>3, <2>9 DEF SwitchEnds
  <2>10. CASE \E c \in Clients : SwitchConnects(c) BY <1>2, <1>5, <2>10 DEF SwitchConnects
  <2>11. QED BY <1>7, <2>1, <2>2, <2>3, <2>4, <2>5, <2>6, <2>7, <2>8, <2>9, <2>10
               DEF SwitchStep
<1>8. ASSUME NEW c \in Conn, Switch(c) PROVE SwitchOK'
  BY <1>8, StartedIsSwitch DEF Switch, ClientsOK
<1>9. CASE ApiSaved
  BY <1>1, <1>9, StartedIsSwitch DEF ApiSaved, StoreOK, ClientsOK, Conn
<1>10. ASSUME NEW c \in Clients, Reconnect(c) \/ ConnectStep(c) \/ Exits(c) PROVE SwitchOK'
  BY <1>1, <1>10 DEF Reconnect, ConnectStep, Load, Open, Refreshed, ConnectFails, Exits
<1>11. CASE LoginStep
  BY <1>1, <1>11 DEF LoginStep, LoginStorage, LoginConnected, LoginSaves, LoginStarts,
                     CancelAnswered, LoginClears
<1>12. ASSUME NEW id, LoginCompleted(id) \/ LoginFailed(id) \/ \E p \in Plus : LogsIn(id, p)
       PROVE  SwitchOK'
  BY <1>1, <1>12 DEF LoginCompleted, LoginFailed, LogsIn
<1>13. CASE StartLogin \/ CancelLogin \/ ListAccounts
  BY <1>1, <1>13 DEF StartLogin, CancelLogin, ListAccounts
<1>14. ASSUME NEW c, Delete(c) \/ SaveApi(c) PROVE SwitchOK'
  BY <1>1, <1>14 DEF Delete, SaveApi
<1>15. CASE UNCHANGED vars BY <1>1, <1>15 DEF vars
<1>16. QED
  BY <1>7, <1>8, <1>9, <1>10, <1>11, <1>12, <1>13, <1>14, <1>15 DEF Next

\* A login under way keeps its type.
LEMMA LoginSteps ==
  ASSUME TypeInv, [Next]_vars
  PROVE  LoginsOK'
<1> USE DEF TypeInv
<1>1. CASE UNCHANGED logins
  BY <1>1 DEF logins, LoginsOK, FlowOK, PrepOK
<1>2. clientRef \in Clients \cup {None} BY DEF ClientsOK, RefOK
<1>3. NoPrep \in [pc : {"idle", "storage", "connecting", "save", "start"},
                  client : Clients \cup {None}]
  BY DEF NoPrep
<1>4. ASSUME FlowOK',
             \/ UNCHANGED prep
             \/ prep' = NoPrep
             \/ prep' = [prep EXCEPT !.pc = "save", !.client = clientRef]
             \/ \E pc \in {"connecting", "start"} : prep' = [prep EXCEPT !.pc = pc]
      PROVE  LoginsOK'
  BY <1>2, <1>3, <1>4 DEF LoginsOK, PrepOK
<1>5. UNCHANGED flow \/ flow' = None => FlowOK' BY DEF LoginsOK, FlowOK
<1>6. CASE LoginStep
  <2>1. CASE LoginStorage BY <1>4, <1>5, <2>1 DEF LoginStorage
  <2>2. CASE LoginConnected BY <1>4, <1>5, <2>2 DEF LoginConnected
  <2>3. CASE LoginSaves BY <1>4, <1>5, <2>3 DEF LoginSaves
  <2>4. CASE LoginStarts
    <3>1. prep' = NoPrep /\ FlowOK' BY <1>5, <2>4 DEF LoginStarts, FlowOK
    <3>2. QED BY <1>4, <3>1
  <2>5. CASE CancelAnswered BY <1>4, <1>5, <2>5 DEF CancelAnswered
  <2>6. ASSUME NEW id \in Logins, LoginClears(id) PROVE LoginsOK'
    BY <1>1, <2>6 DEF LoginClears
  <2>7. QED BY <1>6, <2>1, <2>2, <2>3, <2>4, <2>5, <2>6 DEF LoginStep
<1>7. ASSUME NEW id \in Logins,
             LoginCompleted(id) \/ LoginFailed(id) \/ \E p \in Plus : LogsIn(id, p)
      PROVE  LoginsOK'
  <2>1. UNCHANGED prep /\ (UNCHANGED flow \/ flow' = None)
    BY <1>7 DEF LoginCompleted, LoginFailed, LogsIn, logins
  <2>2. QED BY <1>4, <1>5, <2>1
<1>8. CASE StartLogin
  <2>1. UNCHANGED flow /\ prep' = [NoPrep EXCEPT !.pc = "storage"] BY <1>8 DEF StartLogin
  <2>2. PrepOK' BY <2>1 DEF NoPrep, PrepOK
  <2>3. QED BY <1>5, <2>1, <2>2 DEF LoginsOK
<1>9. CASE CancelLogin BY <1>4, <1>5, <1>9 DEF CancelLogin
<1>10. ASSUME NEW a \in Apis, SaveApi(a) PROVE LoginsOK'
  BY <1>1, <1>10 DEF SaveApi
<1>11. CASE ApiSaved \/ ListAccounts BY <1>1, <1>11 DEF ApiSaved, ListAccounts
<1>12. CASE SwitchStep
  BY <1>1, <1>12 DEF SwitchStep, SwitchBacksUp, SwitchReplaces, SwitchConnected, SwitchChecks,
     SwitchSaves, SwitchVerified, SwitchNotCleared, SwitchReviews, SwitchEnds, SwitchConnects
<1>13. ASSUME NEW c \in Clients, Reconnect(c) \/ ConnectStep(c) \/ Exits(c) PROVE LoginsOK'
  BY <1>1, <1>13 DEF Reconnect, ConnectStep, Load, Open, Refreshed, ConnectFails, Exits
<1>14. ASSUME NEW c \in Conn, Switch(c) \/ Delete(c) PROVE LoginsOK'
  BY <1>1, <1>14 DEF Switch, Delete
<1>15. CASE UNCHANGED vars BY <1>1, <1>15 DEF vars
<1>16. QED
  BY <1>6, <1>7, <1>8, <1>9, <1>10, <1>11, <1>12, <1>13, <1>14, <1>15 DEF Next

\* The logins of a client that is gone, and the request to cancel one, end.
LEMMA WithoutTyped ==
  ASSUME ClientsOK, NEW c
  PROVE  /\ WithoutLogins(c) \in [Logins -> Attempts]
         /\ WithoutCancel(c) \in [id : Logins \cup {None}, client : Clients \cup {None}]
         /\ WithoutLoaded(c) \in [Clients -> Disk]
<1>1. NoAttempt \in Attempts BY DEF NoAttempt, Attempts
<1>2. WithoutLogins(c) \in [Logins -> Attempts]
  BY <1>1 DEF WithoutLogins, ClientsOK, AskedOK, AttemptOK
<1>3. WithoutCancel(c) \in [id : Logins \cup {None}, client : Clients \cup {None}]
  BY DEF WithoutCancel, NoCancel, ClientsOK, AskedOK, CancelOK
<1>4. NoDisk \in Disk BY DEF NoDisk, Disk
<1>5. WithoutLoaded(c) \in [Clients -> Disk]
  BY <1>4 DEF WithoutLoaded, ClientsOK, LoadedOK
<1>6. QED BY <1>2, <1>3, <1>5

\* Connecting keeps the types of the clients.
LEMMA BeginTyped ==
  ASSUME ClientsOK, NEW c \in Clients, NEW caller \in {"user", "switch", "login"},
         BeginConnect(c, caller)
  PROVE  ClientsOK'
<1> USE DEF ClientsOK
<1>1. PhaseOK' BY DEF BeginConnect, PhaseOK, Phases, WithoutClient
<1>2. ByOK' BY DEF BeginConnect, ByOK, WithoutCaller
<1>3. LoadedOK' /\ AskedOK' BY WithoutTyped DEF BeginConnect, LoadedOK, AskedOK, AttemptOK, CancelOK
<1>4. RefOK' /\ ShowsOK' BY DEF BeginConnect, RefOK, ShowsOK, States
<1>5. QED BY <1>1, <1>2, <1>3, <1>4

\* So does disconnecting.
LEMMA DropTyped ==
  ASSUME ClientsOK, DropClient
  PROVE  ClientsOK'
<1> USE DEF ClientsOK
<1>1. PhaseOK' BY DEF DropClient, PhaseOK, Phases, WithoutClient
<1>2. ByOK' BY DEF DropClient, ByOK, WithoutCaller
<1>3. LoadedOK' /\ AskedOK' BY WithoutTyped DEF DropClient, LoadedOK, AskedOK, AttemptOK, CancelOK
<1>4. RefOK' /\ ShowsOK' BY DEF DropClient, RefOK, ShowsOK, States
<1>5. QED BY <1>1, <1>2, <1>3, <1>4

\* And so does each step of a client.
LEMMA ClientTyped ==
  ASSUME StoreOK, ClientsOK, NEW c \in Clients, ConnectStep(c) \/ Exits(c)
  PROVE  ClientsOK'
<1> USE DEF ClientsOK
<1>1. PhaseOK'
  BY DEF ConnectStep, Load, Open, Refreshed, ConnectFails, Exits, PhaseOK, Phases, WithoutClient
<1>2. ByOK'
  BY DEF ConnectStep, Load, Open, Refreshed, ConnectFails, Exits, ByOK, WithoutCaller
<1>3. RefOK'
  BY DEF ConnectStep, Load, Open, Refreshed, ConnectFails, Exits, RefOK
<1>4. LoadedOK'
  <2>1. OnDisk \in Disk BY DEF OnDisk, Disk, StoreOK
  <2>2. QED
    BY <2>1, WithoutTyped
       DEF ConnectStep, Load, Open, Refreshed, ConnectFails, Exits, LoadedOK
<1>5. AskedOK'
  BY WithoutTyped
     DEF ConnectStep, Load, Open, Refreshed, ConnectFails, Exits, AskedOK, AttemptOK, CancelOK
<1>6. ShowsOK'
  BY DEF ConnectStep, Load, Open, Refreshed, ConnectFails, Exits, ShowsOK, States
<1>7. QED BY <1>1, <1>2, <1>3, <1>4, <1>5, <1>6

\* Logins begin, go on and end.
LEMMA LoginTyped ==
  ASSUME ClientsOK, NEW id \in Logins, NEW a \in Attempts
  PROVE  [attempt EXCEPT ![id] = a] \in [Logins -> Attempts] /\ NoAttempt \in Attempts
<1>1. NoAttempt \in Attempts BY DEF NoAttempt, Attempts
<1>2. QED BY <1>1 DEF ClientsOK, AskedOK, AttemptOK

\* The steps of logins that touch what an app-server has.
LEMMA AttemptSteps ==
  ASSUME TypeInv,
         \/ LoginStarts \/ CancelLogin \/ CancelAnswered
         \/ \E id \in Logins : \/ LoginCompleted(id) \/ LoginFailed(id) \/ LoginClears(id)
                               \/ \E p \in Plus : LogsIn(id, p)
  PROVE  ClientsOK'
<1> USE DEF TypeInv
<1>1. ASSUME UNCHANGED <<phase, loaded, by, clientRef, state, launching>>, AskedOK'
      PROVE  ClientsOK'
  BY <1>1 DEF ClientsOK, PhaseOK, LoadedOK, ByOK, RefOK, ShowsOK
<1>2. ASSUME UNCHANGED <<phase, loaded, by, cancel, clientRef, state, launching>>,
             UNCHANGED attempt \/ \E id \in Logins : \E a \in Attempts :
                                    attempt' = [attempt EXCEPT ![id] = a]
      PROVE  ClientsOK'
  <2>1. AttemptOK' BY <1>2, LoginTyped DEF ClientsOK, AskedOK, AttemptOK
  <2>2. QED BY <1>1, <1>2, <2>1 DEF ClientsOK, AskedOK, CancelOK
<1>3. NoAttempt \in Attempts BY DEF NoAttempt, Attempts
<1>4. CASE LoginStarts
  <2>1. prep.client \in Clients \cup {None} BY DEF LoginsOK, PrepOK
  <2>2. [NoAttempt EXCEPT !.pc = "open", !.client = prep.client] \in Attempts
    BY <2>1 DEF NoAttempt, Attempts
  <2>3. QED BY <1>2, <1>4, <2>2 DEF LoginStarts
<1>5. CASE CancelLogin
  <2>1. UNCHANGED <<phase, loaded, by, attempt, clientRef, state, launching>>
    BY <1>5 DEF CancelLogin
  <2>2. CancelOK'
    BY <1>5 DEF CancelLogin, LoginsOK, FlowOK, ClientsOK, AskedOK, CancelOK, RefOK
  <2>3. QED BY <1>1, <2>1, <2>2 DEF ClientsOK, AskedOK, AttemptOK
<1>6. CASE CancelAnswered
  <2>1. UNCHANGED <<phase, loaded, by, clientRef, state, launching>> /\ cancel' = NoCancel
        /\ (UNCHANGED attempt \/ attempt' = [attempt EXCEPT ![cancel.id] = NoAttempt])
    BY <1>6 DEF CancelAnswered
  <2>2. CancelOK' BY <2>1 DEF CancelOK, NoCancel
  <2>3. AttemptOK' BY <1>3, <2>1 DEF ClientsOK, AskedOK, AttemptOK
  <2>4. QED BY <1>1, <2>1, <2>2, <2>3 DEF AskedOK
<1>7. ASSUME NEW id \in Logins, LoginCompleted(id) PROVE ClientsOK'
  <2>1. UNCHANGED <<phase, loaded, by, cancel, clientRef, state, launching>>
    BY <1>7 DEF LoginCompleted
  <2>2. active' \in Conn
    BY <1>7, StoreSteps DEF Next, TypeInv, StoreOK
  <2>3. [NoAttempt EXCEPT !.pc = "clear", !.key = Clears] \in Attempts
    BY <2>2 DEF Clears, NoAttempt, Attempts
  <2>4. QED BY <1>2, <1>3, <1>7, <2>1, <2>3 DEF LoginCompleted
<1>8. ASSUME NEW id \in Logins, LoginFailed(id) PROVE ClientsOK'
  BY <1>2, <1>3, <1>8 DEF LoginFailed
<1>9. ASSUME NEW id \in Logins, LoginClears(id) PROVE ClientsOK'
  BY <1>2, <1>3, <1>9 DEF LoginClears
<1>10. ASSUME NEW id \in Logins, NEW p \in Plus, LogsIn(id, p) PROVE ClientsOK'
  <2>1. UNCHANGED <<phase, by, cancel, clientRef, state, launching>>
        /\ attempt' = [attempt EXCEPT ![id].pc = "written"]
        /\ loaded' = [loaded EXCEPT ![attempt[id].client].login = p]
    BY <1>10 DEF LogsIn
  <2>2. [attempt[id] EXCEPT !.pc = "written"] \in Attempts
    BY DEF ClientsOK, AskedOK, AttemptOK, Attempts
  <2>3. attempt' = [attempt EXCEPT ![id] = [attempt[id] EXCEPT !.pc = "written"]]
    BY <2>1
  <2>4. AttemptOK' BY <2>2, <2>3, LoginTyped DEF AttemptOK
  <2>5. LoadedOK'
    <3>1. \A c \in Clients : [loaded[c] EXCEPT !.login = p] \in Disk
      BY DEF ClientsOK, LoadedOK, Disk
    <3>2. loaded' = [loaded EXCEPT ![attempt[id].client] =
                       [loaded[attempt[id].client] EXCEPT !.login = p]]
      BY <2>1
    <3>3. QED BY <3>1, <3>2 DEF ClientsOK, LoadedOK
  <2>6. QED
    BY <2>1, <2>4, <2>5 DEF ClientsOK, PhaseOK, ByOK, AskedOK, CancelOK, RefOK, ShowsOK
<1>11. QED BY <1>4, <1>5, <1>6, <1>7, <1>8, <1>9, <1>10

\* The clients keep their types.
LEMMA ClientSteps ==
  ASSUME TypeInv, [Next]_vars
  PROVE  ClientsOK'
<1> USE DEF TypeInv
<1>1. CASE UNCHANGED clients
  BY <1>1 DEF clients, ClientsOK, PhaseOK, LoadedOK, ByOK, AskedOK, AttemptOK, CancelOK, RefOK,
              ShowsOK
<1>2. ASSUME NEW c \in Clients, Reconnect(c) \/ ConnectStep(c) \/ Exits(c) PROVE ClientsOK'
  <2>1. CASE Reconnect(c) BY <2>1, BeginTyped DEF Reconnect
  <2>2. CASE ConnectStep(c) \/ Exits(c) BY <2>2, ClientTyped
  <2>3. QED BY <1>2, <2>1, <2>2
<1>3. CASE SwitchStep
  <2>1. CASE SwitchReplaces BY <2>1, DropTyped DEF SwitchReplaces
  <2>2. CASE \E c \in Clients : SwitchConnects(c) BY <2>2, BeginTyped DEF SwitchConnects
  <2>3. CASE SwitchEnds
    BY <2>3 DEF SwitchEnds, ClientsOK, PhaseOK, LoadedOK, ByOK, AskedOK, AttemptOK, CancelOK,
                RefOK, ShowsOK, States
  <2>4. CASE SwitchBacksUp \/ SwitchConnected \/ SwitchChecks \/ SwitchSaves \/ SwitchVerified
             \/ SwitchNotCleared \/ SwitchReviews
    BY <1>1, <2>4 DEF SwitchBacksUp, SwitchConnected, SwitchChecks, SwitchSaves,
                      SwitchVerified, SwitchNotCleared, SwitchReviews
  <2>5. QED BY <1>3, <2>1, <2>2, <2>3, <2>4 DEF SwitchStep
<1>4. CASE LoginStep
  BY <1>1, <1>4, BeginTyped, AttemptSteps
     DEF LoginStep, LoginStorage, LoginConnected, LoginSaves
<1>5. ASSUME NEW id \in Logins,
             LoginCompleted(id) \/ LoginFailed(id) \/ \E p \in Plus : LogsIn(id, p)
      PROVE  ClientsOK'
  BY <1>5, AttemptSteps
<1>6. CASE StartLogin \/ CancelLogin \/ ListAccounts \/ ApiSaved
  BY <1>1, <1>6, AttemptSteps DEF StartLogin, ListAccounts, ApiSaved
<1>7. ASSUME NEW c, Switch(c) \/ Delete(c) \/ SaveApi(c) PROVE ClientsOK'
  BY <1>1, <1>7 DEF Switch, Delete, SaveApi
<1>8. CASE UNCHANGED vars BY <1>1, <1>8 DEF vars
<1>9. QED BY <1>2, <1>3, <1>4, <1>5, <1>6, <1>7, <1>8 DEF Next

\* The panel begins well typed.
LEMMA InitTyped == Init => TypeInv
<1> SUFFICES ASSUME Init PROVE TypeInv OBVIOUS
<1>1. StoreOK BY DEF Init, StoreOK, Conn
<1>2. ClientsOK
  <2>1. PhaseOK /\ ByOK /\ RefOK /\ ShowsOK
    BY DEF Init, PhaseOK, Phases, ByOK, RefOK, ShowsOK, States
  <2>2. LoadedOK BY DEF Init, LoadedOK, NoDisk, Disk
  <2>3. AskedOK
    BY DEF Init, AskedOK, AttemptOK, CancelOK, NoAttempt, NoCancel, Attempts
  <2>4. QED BY <2>1, <2>2, <2>3 DEF ClientsOK
<1>3. SwitchOK BY DEF Init, SwitchOK, NoSwitch, SwitchRecords, SwitchPoints
<1>4. LoginsOK
  BY DEF Init, LoginsOK, FlowOK, PrepOK, NoPrep
<1>5. QED BY <1>1, <1>2, <1>3, <1>4 DEF TypeInv

\* The types are kept by every step.
LEMMA StepTyped == TypeInv /\ [Next]_vars => TypeInv'
BY StoreSteps, ClientSteps, SwitchSteps, LoginSteps DEF TypeInv

\* The strengthened type invariant has the type invariant of the runs.
LEMMA TypeFollows == TypeInv => TypeOK
<1> SUFFICES ASSUME TypeInv PROVE TypeOK OBVIOUS
<1>1. listed \subseteq Conn /\ active \in Conn \cup {None} /\ selected \in Apis \cup {None}
      /\ login \in Plus \cup {None} /\ invalid \subseteq Conn /\ suspect \subseteq invalid
      /\ shown \in Conn \cup {None} /\ saving \in Apis \cup {None}
  BY DEF TypeInv, StoreOK
<1>2. /\ phase \in [Clients -> {"free", "starting", "loaded", "refresh", "open"}]
      /\ loaded \in [Clients -> Disk]
      /\ by \in [Clients -> {None, "user", "switch", "login"}]
      /\ attempt \in [Logins -> [pc : {"free", "open", "written", "clear"},
                                 client : Clients \cup {None}, key : Conn \cup {None}]]
      /\ cancel \in [id : Logins \cup {None}, client : Clients \cup {None}]
      /\ clientRef \in Clients \cup {None}
      /\ state \in {"disconnected", "connecting", "connected", "error"}
      /\ launching \in BOOLEAN
  BY DEF TypeInv, ClientsOK, PhaseOK, Phases, LoadedOK, ByOK, AskedOK, AttemptOK, Attempts,
         CancelOK, RefOK, ShowsOK, States
<1>3. sw \in [pc : {"idle", "history", "replace", "connect", "connecting", "check",
                    "save", "clear", "review", "undone", "mark"},
              target : Conn \cup {None}, prev : Conn \cup {None}, client : Clients \cup {None},
              replaced : BOOLEAN, undoing : BOOLEAN, mark : BOOLEAN]
  BY DEF TypeInv, SwitchOK, SwitchRecords, SwitchPoints
<1>4. /\ flow \in Logins \cup {None}
      /\ prep \in [pc : {"idle", "storage", "connecting", "save", "start"},
                   client : Clients \cup {None}]
  BY DEF TypeInv, LoginsOK, FlowOK, PrepOK
<1>5. QED BY <1>1, <1>2, <1>3, <1>4 DEF TypeOK

\* The stored and the held, clients and handlers, keep their types for any
\* accounts, connections, clients and interleavings (src/App.tsx).
THEOREM TypeCorrect == Spec => []TypeOK
<1>1. TypeInv /\ [Next]_vars => TypeInv' BY StepTyped
<1>2. Spec => []TypeInv BY <1>1, InitTyped, PTL DEF Spec
<1>3. QED BY <1>2, TypeFollows, PTL

-----------------------------------------------------------------------------
(* Without any assumption on what interleaves: what a switch goes back to. *)

\* Nothing of the list goes away, and the connection before stays what it is.
LEMMA BackStays ==
  ASSUME PreviousStaysListed, UNCHANGED sw, listed \subseteq listed'
  PROVE  PreviousStaysListed'
BY DEF PreviousStaysListed, Switching

\* The steps of a switch keep the connection before, or end it.
LEMMA SwitchKeepsPrevious ==
  ASSUME TypeInv, SwitchStep
  PROVE  /\ sw.pc # "idle" /\ listed \subseteq listed'
         /\ sw' = NoSwitch \/ sw'.prev = sw.prev
<1> USE DEF TypeInv, SwitchOK, SwitchRecords
<1>1. UNCHANGED store => listed \subseteq listed' BY DEF store
<1>2. ASSUME NEW mark, Fail(mark) PROVE sw'.prev = sw.prev BY <1>2 DEF Fail
<1>3. ASSUME NEW pc, At(pc) PROVE sw'.prev = sw.prev BY <1>3 DEF At
<1>4. CASE SwitchBacksUp BY <1>1, <1>2, <1>4 DEF SwitchBacksUp
<1>5. CASE SwitchReplaces BY <1>1, <1>2, <1>5, InstallPlaces DEF SwitchReplaces
<1>6. CASE SwitchConnected BY <1>1, <1>2, <1>6 DEF SwitchConnected
<1>7. CASE SwitchChecks BY <1>1, <1>2, <1>3, <1>7 DEF SwitchChecks
<1>8. CASE SwitchSaves BY <1>1, <1>2, <1>3, <1>8, SaveAdopts DEF SwitchSaves
<1>9. CASE SwitchVerified BY <1>1, <1>3, <1>9 DEF SwitchVerified
<1>10. CASE SwitchNotCleared BY <1>1, <1>2, <1>10 DEF SwitchNotCleared
<1>11. CASE SwitchReviews BY <1>1, <1>2, <1>11 DEF SwitchReviews
<1>12. CASE SwitchEnds BY <1>1, <1>12 DEF SwitchEnds
<1>13. CASE \E c \in Clients : SwitchConnects(c)
  BY <1>1, <1>3, <1>13 DEF SwitchConnects
<1>14. QED
  BY <1>4, <1>5, <1>6, <1>7, <1>8, <1>9, <1>10, <1>11, <1>12, <1>13 DEF SwitchStep

\* A switch begins with the connection shown, which is listed.
LEMMA StartKeepsBack ==
  ASSUME TypeInv, NEW c, StartSwitch(c), listed \subseteq listed'
  PROVE  PreviousStaysListed'
<1>1. sw'.prev = shown BY DEF StartSwitch, NoSwitch
<1>2. shown \in listed' BY DEF TypeInv, StoreOK
<1>3. QED BY <1>1, <1>2 DEF PreviousStaysListed

\* Every step keeps it.
LEMMA StepBack ==
  ASSUME TypeInv, PreviousStaysListed, [Next]_vars
  PROVE  PreviousStaysListed'
<1>1. CASE UNCHANGED <<store, sw>> BY <1>1, BackStays DEF store
<1>2. CASE SwitchStep
  BY <1>2, SwitchKeepsPrevious DEF PreviousStaysListed, Switching, NoSwitch
<1>3. CASE LoginStep
  <2>1. CASE LoginStorage \/ LoginConnected \/ LoginStarts \/ CancelAnswered
             \/ \E id \in Logins : LoginClears(id)
    BY <1>1, <2>1 DEF LoginStorage, LoginConnected, LoginStarts, CancelAnswered, LoginClears
  <2>2. CASE LoginSaves
    <3>1. UNCHANGED sw BY <2>2 DEF LoginSaves
    <3>2. listed \subseteq listed' BY <2>2, SaveAdopts DEF LoginSaves, TypeInv, store
    <3>3. QED BY <3>1, <3>2, BackStays
  <2>3. QED BY <1>3, <2>1, <2>2 DEF LoginStep
<1>4. ASSUME NEW id \in Logins, LoginCompleted(id) PROVE PreviousStaysListed'
  <2>1. UNCHANGED sw BY <1>4 DEF LoginCompleted
  <2>2. listed \subseteq listed' BY <1>4, SaveAdopts DEF LoginCompleted, TypeInv, store
  <2>3. QED BY <2>1, <2>2, BackStays
<1>5. ASSUME NEW id \in Logins, LoginFailed(id) \/ \E p \in Plus : LogsIn(id, p)
      PROVE  PreviousStaysListed'
  BY <1>5, BackStays DEF LoginFailed, LogsIn, store
<1>6. ASSUME NEW c \in Conn, Switch(c) PROVE PreviousStaysListed'
  BY <1>6, StartKeepsBack DEF Switch, store
<1>7. CASE ApiSaved
  <2>1. CASE UNCHANGED <<store, sw>> BY <1>1, <2>1
  <2>2. CASE Store!List(saving) /\ (StartSwitch(saving) \/ UNCHANGED sw)
    <3>1. listed \subseteq listed' BY <2>2 DEF Store!List
    <3>2. QED BY <2>2, <3>1, StartKeepsBack, BackStays
  <2>3. QED BY <1>7, <2>1, <2>2 DEF ApiSaved
<1>8. ASSUME NEW c \in Conn, Delete(c) PROVE PreviousStaysListed'
  BY <1>8 DEF Delete, PreviousStaysListed, Switching
<1>9. ASSUME NEW a \in Apis, SaveApi(a) PROVE PreviousStaysListed'
  BY <1>1, <1>9 DEF SaveApi
<1>10. CASE StartLogin \/ CancelLogin \/ ListAccounts
  BY <1>1, <1>10 DEF StartLogin, CancelLogin, ListAccounts
<1>11. ASSUME NEW c \in Clients, Reconnect(c) \/ ConnectStep(c) \/ Exits(c)
       PROVE  PreviousStaysListed'
  BY <1>1, <1>11 DEF Reconnect, ConnectStep, Load, Open, Refreshed, ConnectFails, Exits
<1>12. CASE UNCHANGED vars BY <1>1, <1>12 DEF vars
<1>13. QED
  BY <1>2, <1>3, <1>4, <1>5, <1>6, <1>7, <1>8, <1>9, <1>10, <1>11, <1>12 DEF Next

\* However logins, deletions and API connections whose saving began before a
\* switch interleave with it, and although the panel's copy of the registry may be
\* older than the registry, the connection that its roll-back goes to is still
\* listed (App.tsx:2384).
THEOREM PreviousListed == Spec => []PreviousStaysListed
<1>1. Init => PreviousStaysListed
  BY Constants DEF Init, PreviousStaysListed, Switching, NoSwitch
<1>2. TypeInv /\ PreviousStaysListed /\ [Next]_vars => (TypeInv /\ PreviousStaysListed)'
  BY StepTyped, StepBack
<1>3. QED BY <1>1, <1>2, InitTyped, PTL DEF Spec

-----------------------------------------------------------------------------
(* With no handler connecting beside another one: the clients.             *)

Serial == Interleave = {}

Connected(c) == phase[c] \in {"refresh", "open"}
InFlight(c) == phase[c] \in {"starting", "loaded"}
Quiet == \A c \in Clients : ~ InFlight(c)

\* The client in use is the only one that is connected, and while one is being
\* made there is none in use; isLaunching covers both stretches.
OnlyOne == \A c \in Clients : Connected(c) => c = clientRef
RefIsConnected == clientRef # None => Connected(clientRef)
RefreshLaunches == \A c \in Clients : phase[c] = "refresh" => launching
FlightLaunches ==
  \A c \in Clients : InFlight(c) =>
    launching /\ clientRef = None /\ \A d \in Clients : InFlight(d) => d = c
ClientsInv == OnlyOne /\ RefIsConnected /\ RefreshLaunches /\ FlightLaunches

\* Where the handlers may be while a client is being made.
NoLoginBeside == Switching => prep.pc = "idle"
KnownClient == sw.pc = "history" /\ sw.client # None => Quiet
FreshHistory == sw.pc = "history" => sw.replaced = FALSE
QuietSwitch ==
  sw.pc \in {"replace", "connect", "check", "save", "clear", "review", "undone"} => Quiet
Dropped == sw.pc = "connect" => clientRef = None
OwnFlight ==
  sw.pc = "connecting" => \A c \in Clients : InFlight(c) => by[c] = "switch"
StorageWaits == prep.pc = "storage" => launching = FALSE
HandlersInv == /\ NoLoginBeside /\ KnownClient /\ FreshHistory /\ QuietSwitch
               /\ Dropped /\ OwnFlight /\ StorageWaits

\* Nothing of the clients and handlers changes.
LEMMA ClientsStay ==
  ASSUME ClientsInv, UNCHANGED <<phase, clientRef, launching>>
  PROVE  ClientsInv'
BY DEF ClientsInv, OnlyOne, RefIsConnected, RefreshLaunches, FlightLaunches, Connected, InFlight

\* A client is made while none else is and none is waited for.
LEMMA BeginKeeps ==
  ASSUME ClientsOK, ClientsInv, Quiet, ~ Refreshing(clientRef),
         NEW c \in Clients, NEW caller, BeginConnect(c, caller)
  PROVE  ClientsInv'
<1>1. clientRef' = None /\ launching' = TRUE BY DEF BeginConnect
<1>2. \A d \in Clients : d # c => phase'[d] = "free"
  <2> SUFFICES ASSUME NEW d \in Clients, d # c PROVE phase'[d] = "free" OBVIOUS
  <2>1. CASE d = clientRef
    BY <2>1, Constants DEF BeginConnect, WithoutClient, ClientsOK, PhaseOK, Phases
  <2>2. CASE d # clientRef
    <3>1. phase[d] = "free"
      BY <2>2 DEF ClientsOK, PhaseOK, Phases, ClientsInv, OnlyOne, Connected, Quiet, InFlight
    <3>2. QED
      BY <2>2, <3>1 DEF BeginConnect, WithoutClient, ClientsOK, PhaseOK, Phases
  <2>3. QED BY <2>1, <2>2
<1>3. phase'[c] = "starting"
  BY DEF BeginConnect, WithoutClient, ClientsOK, PhaseOK, Phases
<1>4. \A d \in Clients : ~ Connected(d)' /\ phase'[d] # "refresh" /\ (InFlight(d)' => d = c)
  BY <1>2, <1>3 DEF Connected, InFlight
<1>5. QED
  BY <1>1, <1>4 DEF ClientsInv, OnlyOne, RefIsConnected, RefreshLaunches, FlightLaunches

\* The client in use is disconnected while none is being made.
LEMMA DropKeeps ==
  ASSUME ClientsOK, ClientsInv, Quiet, DropClient
  PROVE  ClientsInv' /\ Quiet' /\ clientRef' = None /\ \A d \in Clients : phase'[d] = "free"
<1>1. clientRef' = None BY DEF DropClient
<1>2. ASSUME NEW d \in Clients PROVE phase'[d] = "free"
  <2>1. CASE d = clientRef
    BY <2>1, Constants DEF DropClient, WithoutClient, ClientsOK, PhaseOK, Phases
  <2>2. CASE d # clientRef
    <3>1. phase[d] = "free"
      BY <2>2 DEF ClientsOK, PhaseOK, Phases, ClientsInv, OnlyOne, Connected, Quiet, InFlight
    <3>2. QED
      BY <2>2, <3>1 DEF DropClient, WithoutClient, ClientsOK, PhaseOK, Phases
  <2>3. QED BY <2>1, <2>2
<1>3. \A d \in Clients : ~ Connected(d)' /\ phase'[d] # "refresh" /\ ~ InFlight(d)'
  BY <1>2 DEF Connected, InFlight
<1>4. QED
  BY <1>1, <1>2, <1>3
     DEF ClientsInv, OnlyOne, RefIsConnected, RefreshLaunches, FlightLaunches, Quiet

\* One phase becomes another one.
LEMMA PhaseMoves ==
  ASSUME ClientsOK, NEW c \in Clients, NEW p, phase' = [phase EXCEPT ![c] = p]
  PROVE  phase'[c] = p /\ \A d \in Clients : d # c => phase'[d] = phase[d]
BY DEF ClientsOK, PhaseOK

\* Each step of a client keeps the clients apart.
LEMMA ClientKeeps ==
  ASSUME ClientsOK, ClientsInv, NEW c \in Clients, ConnectStep(c) \/ Exits(c)
  PROVE  ClientsInv'
<1> USE DEF ClientsInv
<1>1. CASE Load(c)
  <2>1. phase' = [phase EXCEPT ![c] = "loaded"] /\ phase[c] = "starting"
        /\ UNCHANGED <<clientRef, launching>>
    BY <1>1 DEF Load
  <2>2. phase'[c] = "loaded" /\ \A d \in Clients : d # c => phase'[d] = phase[d]
    BY <2>1, PhaseMoves
  <2>3. \A d \in Clients : /\ Connected(d)' <=> Connected(d)
                           /\ InFlight(d)' <=> InFlight(d)
                           /\ phase'[d] = "refresh" <=> phase[d] = "refresh"
    BY <2>1, <2>2 DEF Connected, InFlight
  <2>4. QED
    BY <2>1, <2>3 DEF OnlyOne, RefIsConnected, RefreshLaunches, FlightLaunches, ClientsOK, RefOK
<1>2. CASE Open(c)
  <2>1. phase' = [phase EXCEPT ![c] = "refresh"] /\ InFlight(c) /\ clientRef' = c
        /\ UNCHANGED launching
    BY <1>2 DEF Open, InFlight
  <2>2. phase'[c] = "refresh" /\ \A d \in Clients : d # c => phase'[d] = phase[d]
    BY <2>1, PhaseMoves
  <2>3. launching /\ clientRef = None /\ \A d \in Clients : d # c => ~ InFlight(d)
    BY <2>1 DEF FlightLaunches
  <2>4. \A d \in Clients : ~ Connected(d) BY <2>3, Constants DEF OnlyOne
  <2>5. \A d \in Clients : (Connected(d)' => d = c) /\ ~ InFlight(d)'
    BY <2>2, <2>3, <2>4 DEF Connected, InFlight
  <2>6. Connected(c)' BY <2>2 DEF Connected
  <2>7. QED
    BY <2>1, <2>3, <2>5, <2>6 DEF OnlyOne, RefIsConnected, RefreshLaunches, FlightLaunches
<1>3. CASE Refreshed(c)
  <2>1. phase' = [phase EXCEPT ![c] = "open"] /\ phase[c] = "refresh" /\ UNCHANGED clientRef
    BY <1>3 DEF Refreshed
  <2>2. phase'[c] = "open" /\ \A d \in Clients : d # c => phase'[d] = phase[d]
    BY <2>1, PhaseMoves
  <2>3. Connected(c) /\ clientRef = c /\ clientRef # None
    BY <2>1, Constants DEF Connected, OnlyOne
  <2>4. \A d \in Clients : ~ InFlight(d) BY <2>3 DEF FlightLaunches
  <2>5. \A d \in Clients : /\ Connected(d)' <=> Connected(d)
                           /\ ~ InFlight(d)'
                           /\ phase'[d] # "refresh"
    <3> SUFFICES ASSUME NEW d \in Clients
                 PROVE  /\ Connected(d)' <=> Connected(d)
                        /\ ~ InFlight(d)'
                        /\ phase'[d] # "refresh"
      OBVIOUS
    <3>1. CASE d = c BY <2>1, <2>2, <3>1 DEF Connected, InFlight
    <3>2. CASE d # c
      <4>1. ~ Connected(d) BY <2>3, <3>2 DEF OnlyOne
      <4>2. QED BY <2>2, <2>4, <3>2, <4>1 DEF Connected, InFlight
    <3>3. QED BY <3>1, <3>2
  <2>6. QED
    BY <2>1, <2>3, <2>5 DEF OnlyOne, RefIsConnected, RefreshLaunches, FlightLaunches
<1>4. CASE ConnectFails(c)
  <2>1. phase' = [phase EXCEPT ![c] = "free"] /\ InFlight(c) /\ clientRef' = None
    BY <1>4 DEF ConnectFails, InFlight
  <2>2. phase'[c] = "free" /\ \A d \in Clients : d # c => phase'[d] = phase[d]
    BY <2>1, PhaseMoves
  <2>3. clientRef = None /\ \A d \in Clients : d # c => ~ InFlight(d)
    BY <2>1 DEF FlightLaunches
  <2>4. \A d \in Clients : ~ Connected(d) BY <2>3, Constants DEF OnlyOne
  <2>5. \A d \in Clients : ~ Connected(d)' /\ ~ InFlight(d)' /\ phase'[d] # "refresh"
    BY <2>2, <2>3, <2>4 DEF Connected, InFlight
  <2>6. QED
    BY <2>1, <2>5 DEF OnlyOne, RefIsConnected, RefreshLaunches, FlightLaunches
<1>5. CASE Exits(c)
  <2>1. phase' = [phase EXCEPT ![c] = "free"] /\ Connected(c) /\ clientRef' = None
    BY <1>5, Constants DEF Exits, WithoutClient, Alive, Connected
  <2>2. phase'[c] = "free" /\ \A d \in Clients : d # c => phase'[d] = phase[d]
    BY <2>1, PhaseMoves
  <2>3. clientRef = c /\ clientRef # None BY <2>1, Constants DEF OnlyOne
  <2>4. \A d \in Clients : ~ InFlight(d) BY <2>3 DEF FlightLaunches
  <2>5. \A d \in Clients : d # c => ~ Connected(d) BY <2>3 DEF OnlyOne
  <2>6. \A d \in Clients : ~ Connected(d)' /\ ~ InFlight(d)' /\ phase'[d] # "refresh"
    BY <2>2, <2>4, <2>5 DEF Connected, InFlight
  <2>7. QED
    BY <2>1, <2>6 DEF OnlyOne, RefIsConnected, RefreshLaunches, FlightLaunches
<1>6. QED BY <1>1, <1>2, <1>3, <1>4, <1>5 DEF ConnectStep

-----------------------------------------------------------------------------
(* The handlers beside the clients.                                        *)

\* A step of a client begins no connect, takes no caller from another client,
\* and sets clientRef only at the end of a connect.
LEMMA ClientBeginsNone ==
  ASSUME ClientsOK, NEW c \in Clients, ConnectStep(c) \/ Exits(c)
  PROVE  /\ \A d \in Clients : InFlight(d)' => InFlight(d) /\ by'[d] = by[d]
         /\ clientRef = None => clientRef' = None \/ InFlight(c)
         /\ launching = FALSE => launching' = FALSE
         /\ UNCHANGED <<sw, prep>>
<1>1. UNCHANGED <<sw, prep>>
  BY DEF ConnectStep, Load, Open, Refreshed, ConnectFails, Exits, logins
<1>2. clientRef = None => clientRef' = None \/ InFlight(c)
  BY DEF ConnectStep, Load, Open, Refreshed, ConnectFails, Exits, InFlight
<1>3. launching = FALSE => launching' = FALSE
  BY DEF ConnectStep, Load, Open, Refreshed, ConnectFails, Exits
<1>4. \A d \in Clients : InFlight(d)' => InFlight(d) /\ by'[d] = by[d]
  <2>1. CASE Load(c) BY <2>1 DEF Load, InFlight, ClientsOK, PhaseOK
  <2>2. CASE Open(c) BY <2>2 DEF Open, InFlight, ClientsOK, PhaseOK
  <2>3. CASE Refreshed(c) BY <2>3 DEF Refreshed, InFlight, ClientsOK, PhaseOK, ByOK
  <2>4. CASE ConnectFails(c) BY <2>4 DEF ConnectFails, InFlight, ClientsOK, PhaseOK, ByOK
  <2>5. CASE Exits(c)
    BY <2>5 DEF Exits, WithoutClient, WithoutCaller, InFlight, ClientsOK, PhaseOK, ByOK
  <2>6. QED BY <2>1, <2>2, <2>3, <2>4, <2>5 DEF ConnectStep
<1>5. QED BY <1>1, <1>2, <1>3, <1>4

\* Neither clients nor handlers move.
LEMMA HandlersStay ==
  ASSUME HandlersInv, UNCHANGED <<phase, by, clientRef, launching, sw, prep>>
  PROVE  HandlersInv'
BY DEF HandlersInv, NoLoginBeside, KnownClient, FreshHistory, QuietSwitch, Dropped, OwnFlight,
       StorageWaits, Switching, Quiet, InFlight

\* A client moves on.
LEMMA HandlersLetClients ==
  ASSUME ClientsOK, HandlersInv, NEW c \in Clients, ConnectStep(c) \/ Exits(c)
  PROVE  HandlersInv'
<1> USE DEF HandlersInv
<1>1. Quiet => Quiet' BY ClientBeginsNone DEF Quiet
<1>2. NoLoginBeside' /\ StorageWaits' /\ FreshHistory'
  BY ClientBeginsNone DEF NoLoginBeside, StorageWaits, FreshHistory, Switching
<1>3. KnownClient' /\ QuietSwitch'
  BY <1>1, ClientBeginsNone DEF KnownClient, QuietSwitch
<1>4. Dropped' BY ClientBeginsNone DEF Dropped, QuietSwitch, Quiet
<1>5. OwnFlight' BY ClientBeginsNone DEF OwnFlight
<1>6. QED BY <1>2, <1>3, <1>4, <1>5

\* A switch that has begun knows the client in use, so none is being made.
LEMMA StartedKnows ==
  ASSUME Serial, ClientsInv, HandlersInv, NEW c, StartSwitch(c),
         UNCHANGED <<phase, by, clientRef, launching, prep>>
  PROVE  HandlersInv'
<1>1. /\ sw'.pc = "history" /\ sw'.client = clientRef /\ sw'.replaced = FALSE
      /\ prep.pc = "idle"
  BY DEF StartSwitch, NoSwitch, Serial
<1>2. clientRef # None => Quiet
  BY DEF ClientsInv, FlightLaunches, Quiet
<1>3. Quiet => Quiet' BY DEF Quiet, InFlight
<1>4. QED
  BY <1>1, <1>2, <1>3
     DEF HandlersInv, NoLoginBeside, KnownClient, FreshHistory, QuietSwitch, Dropped, OwnFlight,
       StorageWaits, Switching

\* Where the handler of a switch may go on while no client is being made.
LEMMA QuietGoesOn ==
  ASSUME HandlersInv, Quiet', Switching, sw'.pc \notin {"connect", "history"}, UNCHANGED prep,
         launching = FALSE => launching' = FALSE
  PROVE  HandlersInv'
<1>1. prep.pc = "idle" BY DEF HandlersInv, NoLoginBeside
<1>2. QED
  BY <1>1 DEF HandlersInv, NoLoginBeside, KnownClient, FreshHistory, QuietSwitch, Dropped,
              OwnFlight, StorageWaits, Quiet

\* A switch that ends leaves the clients to themselves.
LEMMA EndKeeps ==
  ASSUME HandlersInv, Switching, sw'.pc \in {"idle", "mark"}, UNCHANGED prep
  PROVE  HandlersInv'
BY DEF HandlersInv, NoLoginBeside, KnownClient, FreshHistory, QuietSwitch, Dropped, OwnFlight,
       StorageWaits

\* Where Fail leads, and the other steps of a switch.
LEMMA Leads ==
  ASSUME SwitchOK
  PROVE  /\ \A mark : Fail(mark) =>
                sw'.pc \in {"replace", "mark"} /\ (~ sw.replaced => sw'.pc = "mark")
         /\ \A pc : At(pc) => sw'.pc = pc
         /\ NoSwitch.pc = "idle"
BY DEF SwitchOK, SwitchRecords, Fail, At, NoSwitch

\* No switch is under way, before and after.
LEMMA NoSwitchNoWorry ==
  ASSUME sw.pc = "idle", UNCHANGED sw, prep'.pc = "storage" => launching' = FALSE
  PROVE  HandlersInv'
BY DEF HandlersInv, NoLoginBeside, KnownClient, FreshHistory, QuietSwitch, Dropped, OwnFlight,
       StorageWaits, Switching

SerialInv == ClientsInv /\ HandlersInv

\* What SerialInv says of handlers and clients that do not move.
LEMMA SerialStays ==
  ASSUME SerialInv, UNCHANGED <<phase, by, clientRef, launching, sw, prep>>
  PROVE  SerialInv'
BY ClientsStay, HandlersStay DEF SerialInv

\* Nobody is launching: a connect may begin.
LEMMA MayConnect ==
  ASSUME ClientsOK, ClientsInv, ~ launching
  PROVE  Quiet /\ ~ Refreshing(clientRef)
<1>1. Quiet BY DEF ClientsInv, FlightLaunches, Quiet
<1>2. ~ Refreshing(clientRef)
  BY DEF ClientsInv, RefreshLaunches, Refreshing, ClientsOK, RefOK
<1>3. QED BY <1>1, <1>2

\* The steps of a switch.
LEMMA SwitchSerial ==
  ASSUME TypeInv, SerialInv, SwitchStep
  PROVE  SerialInv'
<1> USE DEF TypeInv, SerialInv
<1>1. Switching BY SwitchKeepsPrevious DEF Switching
<1>2. UNCHANGED logins => UNCHANGED prep BY DEF logins
<1>3. ASSUME UNCHANGED <<clients, prep>>, Quiet, sw'.pc \notin {"connect", "history"}
      PROVE  SerialInv'
  <2>1. ClientsInv' BY <1>3, ClientsStay DEF clients
  <2>2. Quiet' BY <1>3 DEF clients, Quiet, InFlight
  <2>3. UNCHANGED launching BY <1>3 DEF clients
  <2>4. QED BY <1>1, <1>3, <2>1, <2>2, <2>3, QuietGoesOn
<1>4. ASSUME UNCHANGED <<phase, clientRef, launching, prep>>, sw'.pc \in {"idle", "mark"}
      PROVE  SerialInv'
  BY <1>1, <1>4, ClientsStay, EndKeeps
<1>5. CASE SwitchBacksUp
  <2>1. UNCHANGED <<clients, prep>> /\ sw.pc = "history" BY <1>2, <1>5 DEF SwitchBacksUp
  <2>2. CASE Alive(sw.client) /\ sw' = [sw EXCEPT !.pc = "replace", !.client = None]
    <3>1. Quiet BY <2>1, <2>2 DEF HandlersInv, KnownClient, Alive
    <3>2. sw'.pc = "replace" BY <2>2 DEF SwitchOK, SwitchRecords
    <3>3. QED BY <1>3, <2>1, <3>1, <3>2
  <2>3. CASE Fail(FALSE)
    <3>1. sw'.pc = "mark" BY <2>1, <2>3, Leads DEF HandlersInv, FreshHistory
    <3>2. QED BY <1>4, <2>1, <3>1 DEF clients
  <2>4. QED BY <1>5, <2>2, <2>3 DEF SwitchBacksUp
<1>6. CASE SwitchReplaces
  <2>1. DropClient /\ UNCHANGED prep /\ sw.pc = "replace" BY <1>2, <1>6 DEF SwitchReplaces
  <2>2. Quiet BY <2>1 DEF HandlersInv, QuietSwitch
  <2>3. ClientsInv' /\ Quiet' /\ clientRef' = None BY <2>1, <2>2, DropKeeps
  <2>4. prep.pc = "idle" BY <1>1 DEF HandlersInv, NoLoginBeside
  <2>5. launching = FALSE => launching' = FALSE BY <2>1 DEF DropClient
  <2>6. CASE sw' = [sw EXCEPT !.pc = "connect", !.replaced = TRUE]
    <3>1. sw'.pc = "connect" BY <2>6 DEF SwitchOK, SwitchRecords
    <3>2. HandlersInv'
      BY <2>1, <2>3, <2>4, <3>1
         DEF HandlersInv, NoLoginBeside, KnownClient, FreshHistory, QuietSwitch, Dropped,
             OwnFlight, StorageWaits
    <3>3. QED BY <2>3, <3>2
  <2>7. ASSUME NEW mark \in BOOLEAN, Fail(mark) PROVE SerialInv'
    <3>1. sw'.pc \notin {"connect", "history"} BY <2>7, Leads
    <3>2. QED BY <1>1, <2>1, <2>3, <2>5, <3>1, QuietGoesOn
  <2>8. QED BY <1>6, <2>6, <2>7 DEF SwitchReplaces
<1>7. ASSUME NEW c \in Clients, SwitchConnects(c) PROVE SerialInv'
  <2>1. BeginConnect(c, "switch") /\ At("connecting") /\ sw.pc = "connect" /\ UNCHANGED prep
    BY <1>2, <1>7 DEF SwitchConnects
  <2>2. Quiet /\ clientRef = None BY <2>1 DEF HandlersInv, QuietSwitch, Dropped
  <2>3. ~ Refreshing(clientRef) BY <2>2 DEF Refreshing
  <2>4. ClientsInv' BY <2>1, <2>2, <2>3, BeginKeeps
  <2>5. sw'.pc = "connecting" BY <2>1, Leads
  <2>6. phase'[c] = "starting" /\ by'[c] = "switch"
    BY <2>1, <2>2 DEF BeginConnect, WithoutClient, WithoutCaller, ClientsOK, PhaseOK, ByOK
  <2>7. OwnFlight'
    BY <2>4, <2>6 DEF OwnFlight, ClientsInv, FlightLaunches, InFlight
  <2>8. prep'.pc = "idle" BY <1>1, <2>1 DEF HandlersInv, NoLoginBeside
  <2>9. HandlersInv'
    BY <2>5, <2>7, <2>8
       DEF HandlersInv, NoLoginBeside, KnownClient, FreshHistory, QuietSwitch, Dropped,
           StorageWaits
  <2>10. QED BY <2>4, <2>9
<1>8. CASE SwitchConnected
  <2>1. UNCHANGED <<clients, prep>> /\ sw.pc = "connecting" /\ Returned("switch")
    BY <1>2, <1>8 DEF SwitchConnected
  <2>2. Quiet BY <2>1 DEF HandlersInv, OwnFlight, Returned, Quiet
  <2>3. sw'.pc \in {"check", "replace", "mark"}
    <3>1. CASE sw' = [sw EXCEPT !.pc = "check", !.client = clientRef]
      BY <3>1 DEF SwitchOK, SwitchRecords
    <3>2. CASE Fail(TRUE) BY <3>2, Leads
    <3>3. QED BY <1>8, <3>1, <3>2 DEF SwitchConnected
  <2>4. QED BY <1>3, <2>1, <2>2, <2>3
<1>9. CASE SwitchChecks \/ SwitchSaves \/ SwitchVerified \/ SwitchNotCleared \/ SwitchReviews
  <2>1. UNCHANGED <<clients, prep>>
    BY <1>2, <1>9
       DEF SwitchChecks, SwitchSaves, SwitchVerified, SwitchNotCleared, SwitchReviews
  <2>2. sw.pc \in {"check", "save", "clear", "review"}
    BY <1>9 DEF SwitchChecks, SwitchSaves, SwitchVerified, SwitchNotCleared, SwitchReviews
  <2>3. Quiet BY <2>2 DEF HandlersInv, QuietSwitch
  <2>4. sw'.pc \in {"save", "clear", "review", "undone", "replace", "mark", "idle"}
    BY <1>9, Leads
       DEF SwitchChecks, SwitchSaves, SwitchVerified, SwitchNotCleared, SwitchReviews
  <2>5. QED BY <1>3, <2>1, <2>3, <2>4
<1>10. CASE SwitchEnds
  <2>1. UNCHANGED <<phase, clientRef, launching, prep>> /\ sw'.pc = "idle"
    BY <1>2, <1>10, Leads DEF SwitchEnds
  <2>2. QED BY <1>4, <2>1
<1>11. QED BY <1>5, <1>6, <1>7, <1>8, <1>9, <1>10 DEF SwitchStep

\* The steps of a login.
LEMMA LoginSerial ==
  ASSUME TypeInv, SerialInv, LoginStep
  PROVE  SerialInv'
<1> USE DEF TypeInv, SerialInv
<1>1. CASE CancelAnswered \/ \E id \in Logins : LoginClears(id)
  BY <1>1, SerialStays DEF CancelAnswered, LoginClears, logins
<1>2. CASE LoginStorage \/ LoginConnected \/ LoginSaves \/ LoginStarts
  <2>1. prep.pc # "idle" /\ UNCHANGED sw
    BY <1>2 DEF LoginStorage, LoginConnected, LoginSaves, LoginStarts
  <2>2. sw.pc = "idle" BY <2>1 DEF HandlersInv, NoLoginBeside, Switching
  <2>3. prep'.pc # "storage"
    <3> USE DEF LoginsOK, PrepOK, NoPrep
    <3>6. prep \in [pc : {"idle", "storage", "connecting", "save", "start"},
                   client : Clients \cup {None}]
      OBVIOUS
    <3>1. CASE LoginStorage
      <4>1. \/ prep' = NoPrep
            \/ prep' = [prep EXCEPT !.pc = "save", !.client = clientRef]
            \/ prep' = [prep EXCEPT !.pc = "connecting"]
        BY <3>1 DEF LoginStorage
      <4>2. CASE prep' = NoPrep BY <4>2
      <4>3. CASE prep' = [prep EXCEPT !.pc = "save", !.client = clientRef]
        BY <3>6, <4>3, SMT
      <4>4. CASE prep' = [prep EXCEPT !.pc = "connecting"] BY <3>6, <4>4, SMT
      <4>5. QED BY <4>1, <4>2, <4>3, <4>4
    <3>2. CASE LoginConnected BY <3>2 DEF LoginConnected
    <3>3. CASE LoginSaves BY <3>3 DEF LoginSaves
    <3>4. CASE LoginStarts BY <3>4 DEF LoginStarts
    <3>5. QED BY <1>2, <3>1, <3>2, <3>3, <3>4
  <2>4. HandlersInv' BY <2>1, <2>2, <2>3, NoSwitchNoWorry
  <2>5. ASSUME UNCHANGED clients \/ UNCHANGED <<phase, clientRef, launching>> PROVE ClientsInv'
    BY <2>5, ClientsStay DEF clients
  <2>6. ASSUME NEW c \in Clients, prep.pc = "storage", BeginConnect(c, "login")
        PROVE  ClientsInv'
    <3>1. ~ launching BY <2>6 DEF HandlersInv, StorageWaits
    <3>2. QED BY <2>6, <3>1, MayConnect, BeginKeeps
  <2>7. ClientsInv'
    BY <1>2, <2>5, <2>6 DEF LoginStorage, LoginConnected, LoginSaves, LoginStarts
  <2>8. QED BY <2>4, <2>7
<1>3. QED BY <1>1, <1>2 DEF LoginStep

\* Every step keeps clients and handlers apart.
LEMMA StepSerial ==
  ASSUME Serial, TypeInv, SerialInv, [Next]_vars
  PROVE  SerialInv'
<1> USE DEF TypeInv, SerialInv
<1>1. CASE UNCHANGED <<phase, by, clientRef, launching, sw, prep>> BY <1>1, SerialStays
<1>2. ASSUME NEW c \in Clients, Reconnect(c) PROVE SerialInv'
  <2>1. ~ launching /\ sw.pc = "idle" /\ prep.pc = "idle" /\ UNCHANGED <<sw, prep>>
        /\ BeginConnect(c, "user")
    BY <1>2 DEF Reconnect, Serial, Switching, logins
  <2>2. ClientsInv' BY <2>1, MayConnect, BeginKeeps
  <2>3. HandlersInv' BY <2>1, NoSwitchNoWorry
  <2>4. QED BY <2>2, <2>3
<1>3. ASSUME NEW c \in Clients, ConnectStep(c) \/ Exits(c) PROVE SerialInv'
  BY <1>3, ClientKeeps, HandlersLetClients
<1>4. CASE SwitchStep BY <1>4, SwitchSerial
<1>5. CASE LoginStep BY <1>5, LoginSerial
<1>6. ASSUME NEW c, StartSwitch(c), UNCHANGED <<clients, prep>> PROVE SerialInv'
  BY <1>6, StartedKnows, ClientsStay DEF clients
<1>7. CASE ApiSaved BY <1>1, <1>6, <1>7 DEF ApiSaved, clients, logins
<1>8. ASSUME NEW c \in Conn, Switch(c) PROVE SerialInv'
  BY <1>6, <1>8 DEF Switch, logins
<1>9. CASE StartLogin
  <2>1. sw.pc = "idle" /\ UNCHANGED <<clients, sw>> /\ ~ launching
    BY <1>9 DEF StartLogin, Switching
  <2>2. launching' = FALSE
    <3>1. launching' = launching BY <2>1 DEF clients
    <3>2. launching \in BOOLEAN BY DEF ClientsOK, ShowsOK
    <3>3. QED BY <2>1, <3>1, <3>2
  <2>3. HandlersInv' BY <2>1, <2>2, NoSwitchNoWorry
  <2>4. QED BY <2>1, <2>3, ClientsStay DEF clients
<1>10. ASSUME NEW id, LoginCompleted(id) \/ LoginFailed(id) \/ \E p \in Plus : LogsIn(id, p)
       PROVE  SerialInv'
  BY <1>1, <1>10 DEF LoginCompleted, LoginFailed, LogsIn, logins
<1>11. CASE CancelLogin \/ ListAccounts
  BY <1>1, <1>11 DEF CancelLogin, ListAccounts, clients, logins
<1>12. ASSUME NEW c, Delete(c) \/ SaveApi(c) PROVE SerialInv'
  BY <1>1, <1>12 DEF Delete, SaveApi, clients, logins
<1>13. CASE UNCHANGED vars BY <1>1, <1>13 DEF vars, clients, logins
<1>14. QED
  BY <1>2, <1>3, <1>4, <1>5, <1>7, <1>8, <1>9, <1>10, <1>11, <1>12, <1>13 DEF Next

\* There is no client at first.
LEMMA InitSerial == Init => SerialInv
BY Constants
   DEF Init, SerialInv, ClientsInv, OnlyOne, RefIsConnected, RefreshLaunches, FlightLaunches,
       Connected, InFlight, HandlersInv, NoLoginBeside, KnownClient, FreshHistory, QuietSwitch,
       Dropped, OwnFlight, StorageWaits, Switching, NoSwitch, NoPrep

-----------------------------------------------------------------------------
(* The logins under way end with their client, so none is left once a      *)
(* switch has replaced the files.                                          *)

Pending(id) == attempt[id].pc \in {"open", "written"}
NonePending == \A id \in Logins : ~ Pending(id)

HeldByClient ==
  \A id \in Logins :
    Pending(id) => attempt[id].client \in Clients /\ Connected(attempt[id].client)

Placed == {"connect", "connecting", "check", "save", "clear", "review", "undone"}
Settled == sw.pc \in Placed \/ sw.mark
SettledInv == (Settled => NonePending) /\ (~ Switching => ~ sw.mark)

\* The login on the disk that is still to be notified is not suspect: it was
\* written after the account was marked.
OwnLogin == \A id \in Logins : attempt[id].pc = "written" => login \notin suspect

PendingInv == HeldByClient /\ SettledInv /\ OwnLogin

\* Nothing begins, and nothing is marked.
LEMMA PendingStays ==
  ASSUME PendingInv, UNCHANGED login, suspect' \subseteq suspect, Settled' => Settled,
         \A id \in Logins : attempt'[id] = attempt[id] \/ attempt'[id].pc \in {"free", "clear"},
         \A c \in Clients : Connected(c) =>
           Connected(c)' \/ \A id \in Logins : Pending(id)' => attempt[id].client # c,
         Switching' => Switching \/ ~ sw'.mark, ~ Switching' => UNCHANGED sw \/ sw' = NoSwitch
  PROVE  PendingInv'
<1>1. ASSUME NEW id \in Logins, Pending(id)' PROVE Pending(id) /\ attempt'[id] = attempt[id]
  BY <1>1 DEF Pending
<1>2. HeldByClient' BY <1>1 DEF PendingInv, HeldByClient
<1>3. OwnLogin' BY DEF PendingInv, OwnLogin
<1>4. Settled' => NonePending' BY <1>1 DEF PendingInv, SettledInv, NonePending
<1>5. ~ Switching' => ~ sw'.mark
  BY DEF PendingInv, SettledInv, Switching, NoSwitch
<1>6. QED BY <1>2, <1>3, <1>4, <1>5 DEF PendingInv, SettledInv

\* Neither clients nor their logins nor the switch move.
LEMMA PendingUntouched ==
  ASSUME PendingInv, UNCHANGED <<login, phase, attempt, sw>>, suspect' \subseteq suspect
  PROVE  PendingInv'
BY PendingStays DEF Settled, Switching, Connected, Pending

\* Of the logins of a client that is gone none is left.
LEMMA GonePending ==
  ASSUME NEW c \in Clients \cup {None}, attempt' = WithoutLogins(c)
  PROVE  \A id \in Logins : /\ attempt'[id] = attempt[id] \/ attempt'[id].pc = "free"
                            /\ c # None /\ Pending(id)' => attempt[id].client # c
BY DEF WithoutLogins, NoAttempt, Pending

\* A connect keeps the logins apart: only its own client goes away.
LEMMA BeginPending ==
  ASSUME TypeInv, PendingInv, NEW c \in Clients, NEW caller, BeginConnect(c, caller),
         UNCHANGED <<login, suspect>>, sw' = sw \/ (At("connecting") /\ sw.pc = "connect")
  PROVE  PendingInv'
<1>1. clientRef \in Clients \cup {None} /\ attempt' = WithoutLogins(clientRef)
  BY DEF BeginConnect, TypeInv, ClientsOK, RefOK
<1>2. \A d \in Clients : Connected(d) => Connected(d)' \/ d = clientRef
  BY Constants DEF BeginConnect, WithoutClient, Connected, TypeInv, ClientsOK, PhaseOK
<1>3. Settled' => Settled
  BY DEF Settled, Placed, At, TypeInv, SwitchOK, SwitchRecords
<1>4. (Switching' => Switching) /\ (~ Switching' => UNCHANGED sw)
  BY DEF Switching, At, TypeInv, SwitchOK, SwitchRecords
<1>5. QED BY <1>1, <1>2, <1>3, <1>4, GonePending, Constants, PendingStays

\* A client moves on, or exits with its logins.
LEMMA ClientPending ==
  ASSUME TypeInv, PendingInv, NEW c \in Clients, ConnectStep(c) \/ Exits(c)
  PROVE  PendingInv'
<1>1. UNCHANGED <<login, suspect, sw>>
  BY DEF ConnectStep, Load, Open, Refreshed, ConnectFails, Exits, store, marks
<1>2. CASE ConnectStep(c)
  <2>1. UNCHANGED attempt BY <1>2 DEF ConnectStep, Load, Open, Refreshed, ConnectFails
  <2>2. \A d \in Clients : Connected(d) => Connected(d)'
    BY <1>2 DEF ConnectStep, Load, Open, Refreshed, ConnectFails, Connected, TypeInv, ClientsOK,
                PhaseOK
  <2>3. QED BY <1>1, <2>1, <2>2, PendingStays DEF Settled, Switching
<1>3. CASE Exits(c)
  <2>1. attempt' = WithoutLogins(c) BY <1>3 DEF Exits
  <2>2. \A d \in Clients : Connected(d) => Connected(d)' \/ d = c
    BY <1>3 DEF Exits, WithoutClient, Connected, TypeInv, ClientsOK, PhaseOK
  <2>3. QED
    BY <1>1, <2>1, <2>2, GonePending, Constants, PendingStays DEF Settled, Switching
<1>4. QED BY <1>2, <1>3

\* What a failure marks: nothing that it did not mark, but for a failed check.
LEMMA FailMarks ==
  ASSUME SwitchOK, NEW mark, Fail(mark)
  PROVE  sw'.pc \notin Placed /\ Switching' /\ (sw'.mark => sw.mark \/ mark)
BY DEF SwitchOK, SwitchRecords, Fail, Placed, Switching

\* A step of a switch that leaves clients and files alone.
LEMMA SwitchPending ==
  ASSUME TypeInv, PendingInv, sw.pc # "idle", UNCHANGED <<login, phase, attempt>>,
         suspect' \subseteq suspect,
         \/ sw' = NoSwitch
         \/ sw.pc \in Placed /\ \E pc \in Placed : At(pc)
         \/ sw.pc \in Placed /\ sw' = [sw EXCEPT !.pc = "check", !.client = clientRef]
         \/ \E mark \in BOOLEAN : Fail(mark) /\ (mark => sw.pc \in Placed)
         \/ sw' = [sw EXCEPT !.pc = "replace", !.client = None]
  PROVE  PendingInv'
<1> USE DEF TypeInv, SwitchOK, SwitchRecords
<1>1. CASE sw' = NoSwitch
  BY <1>1, PendingStays DEF NoSwitch, Settled, Placed, Switching, Connected, Pending
<1>2. CASE sw.pc \in Placed /\ \E pc \in Placed : At(pc)
  <2>1. Switching' /\ Settled BY <1>2 DEF At, Switching, Settled, Placed
  <2>2. QED BY <2>1, PendingStays DEF Switching, Connected, Pending
<1>3. CASE sw.pc \in Placed /\ sw' = [sw EXCEPT !.pc = "check", !.client = clientRef]
  <2>1. Switching' /\ Settled BY <1>3 DEF Switching, Settled
  <2>2. QED BY <2>1, PendingStays DEF Switching, Connected, Pending
<1>4. ASSUME NEW mark \in BOOLEAN, Fail(mark), mark => sw.pc \in Placed PROVE PendingInv'
  <2>1. Switching' /\ (Settled' => Settled) BY <1>4, FailMarks DEF Settled
  <2>2. QED BY <2>1, PendingStays DEF Switching, Connected, Pending
<1>5. CASE sw' = [sw EXCEPT !.pc = "replace", !.client = None]
  <2>1. Switching' /\ (Settled' => Settled) BY <1>5 DEF Switching, Settled, Placed
  <2>2. QED BY <2>1, PendingStays DEF Switching, Connected, Pending
<1>6. QED BY <1>1, <1>2, <1>3, <1>4, <1>5

\* The client in use goes before the files are replaced, and with it all logins.
LEMMA ReplacePending ==
  ASSUME TypeInv, SerialInv, PendingInv, SwitchReplaces
  PROVE  PendingInv' /\ NonePending'
<1> USE DEF TypeInv
<1>1. clientRef \in Clients \cup {None} /\ attempt' = WithoutLogins(clientRef) /\ sw.pc = "replace"
  BY DEF SwitchReplaces, DropClient, ClientsOK, RefOK
<1>2. NonePending'
  <2> SUFFICES ASSUME NEW id \in Logins, Pending(id)' PROVE FALSE BY DEF NonePending
  <2>1. attempt'[id] = attempt[id] /\ Pending(id)
    BY <1>1, GonePending DEF Pending
  <2>2. attempt[id].client \in Clients /\ attempt[id].client = clientRef
    BY <2>1 DEF PendingInv, HeldByClient, SerialInv, ClientsInv, OnlyOne
  <2>3. QED BY <1>1, <2>2, GonePending, Constants
<1>3. Switching'
  <2>1. CASE sw' = [sw EXCEPT !.pc = "connect", !.replaced = TRUE]
    BY <2>1 DEF SwitchOK, SwitchRecords, Switching
  <2>2. ASSUME NEW mark, Fail(mark) PROVE Switching' BY <2>2, FailMarks
  <2>3. QED BY <2>1, <2>2 DEF SwitchReplaces
<1>4. QED
  BY <1>2, <1>3 DEF PendingInv, HeldByClient, SettledInv, OwnLogin, NonePending, Pending

\* The end of a switch marks an account only when no login is under way.
LEMMA EndPending ==
  ASSUME TypeInv, PendingInv, SwitchEnds
  PROVE  PendingInv'
<1>1. UNCHANGED <<login, phase, attempt>> /\ sw.pc # "idle" /\ sw' = NoSwitch
  BY DEF SwitchEnds, store
<1>2. CASE UNCHANGED suspect BY <1>1, <1>2, SwitchPending
<1>3. CASE sw.mark
  <2>1. NonePending' BY <1>1, <1>3 DEF PendingInv, SettledInv, Settled, NonePending, Pending
  <2>2. QED
    BY <1>1, <2>1
       DEF PendingInv, HeldByClient, SettledInv, OwnLogin, NonePending, Pending, Switching, NoSwitch
<1>4. QED BY <1>2, <1>3 DEF SwitchEnds, marks

\* A login begins only while no switch is under way.
LEMMA StartPending ==
  ASSUME TypeInv, SerialInv, PendingInv, LoginStarts
  PROVE  PendingInv'
<1>1. UNCHANGED <<login, suspect, phase, sw>> /\ prep.pc = "start"
  BY DEF LoginStarts, store, marks
<1>2. CASE UNCHANGED attempt BY <1>1, <1>2, PendingUntouched
<1>3. ASSUME NEW id \in Logins, Alive(prep.client),
             attempt' = [attempt EXCEPT ![id] = [NoAttempt EXCEPT !.pc = "open",
                                                                !.client = prep.client]]
      PROVE  PendingInv'
  <2>1. ~ Switching BY <1>1 DEF SerialInv, HandlersInv, NoLoginBeside
  <2>2. ~ Settled' /\ (~ Switching' => ~ sw'.mark)
    BY <1>1, <2>1 DEF PendingInv, SettledInv, Settled, Switching, Placed
  <2>3. prep.client \in Clients /\ Connected(prep.client)
    BY <1>3 DEF Alive, Connected, TypeInv, LoginsOK, PrepOK
  <2>4. attempt'[id].pc = "open" /\ attempt'[id].client = prep.client
    BY <1>3 DEF NoAttempt, TypeInv, ClientsOK, AskedOK, AttemptOK
  <2>5. \A i \in Logins : i # id => attempt'[i] = attempt[i]
    BY <1>3 DEF TypeInv, ClientsOK, AskedOK, AttemptOK
  <2>6. HeldByClient'
    BY <1>1, <2>3, <2>4, <2>5 DEF PendingInv, HeldByClient, Pending, Connected
  <2>7. OwnLogin' BY <1>1, <2>4, <2>5 DEF PendingInv, OwnLogin
  <2>8. QED BY <2>2, <2>6, <2>7 DEF PendingInv, SettledInv
<1>4. QED BY <1>2, <1>3 DEF LoginStarts

\* A login ends, or only the mark is left to be cleared.
LEMMA EndsPending ==
  ASSUME TypeInv, PendingInv, UNCHANGED <<login, phase, sw>>, suspect' \subseteq suspect,
         NEW id, NEW k,
         \/ attempt' = [attempt EXCEPT ![id] = NoAttempt]
         \/ attempt' = [attempt EXCEPT ![id] = [NoAttempt EXCEPT !.pc = "clear", !.key = k]]
  PROVE  PendingInv'
<1> DEFINE cleared == [NoAttempt EXCEPT !.pc = "clear", !.key = k]
<1>1. NoAttempt.pc = "free" /\ cleared.pc = "clear" BY DEF NoAttempt
<1> HIDE DEF cleared
<1>2. \A i \in Logins : \/ attempt'[i] = attempt[i]
                        \/ attempt'[i] = NoAttempt \/ attempt'[i] = cleared
  BY DEF TypeInv, ClientsOK, AskedOK, AttemptOK, cleared
<1>3. \A i \in Logins : attempt'[i] = attempt[i] \/ attempt'[i].pc \in {"free", "clear"}
  BY <1>1, <1>2
<1>4. QED BY <1>3, PendingStays DEF Settled, Switching, Connected

\* Codex writes a login: the account is suspect no more.
LEMMA WritePending ==
  ASSUME TypeInv, PendingInv, NEW id \in Logins, NEW p \in Plus, LogsIn(id, p)
  PROVE  PendingInv'
<1>1. /\ attempt[id].pc = "open" /\ attempt' = [attempt EXCEPT ![id].pc = "written"]
      /\ login' = p /\ suspect' = suspect \ {p} /\ UNCHANGED <<phase, sw>>
  BY DEF LogsIn
<1>2. \A i \in Logins : /\ attempt'[i].client = attempt[i].client
                        /\ Pending(i)' <=> Pending(i)
  <2> SUFFICES ASSUME NEW i \in Logins
               PROVE  attempt'[i].client = attempt[i].client /\ (Pending(i)' <=> Pending(i))
    OBVIOUS
  <2>1. CASE i = id
    BY <1>1, <2>1 DEF Pending, TypeInv, ClientsOK, AskedOK, AttemptOK, Attempts
  <2>2. CASE i # id
    BY <1>1, <2>2 DEF Pending, TypeInv, ClientsOK, AskedOK, AttemptOK
  <2>3. QED BY <2>1, <2>2
<1>3. HeldByClient' BY <1>1, <1>2 DEF PendingInv, HeldByClient, Connected
<1>4. SettledInv'
  BY <1>1, <1>2 DEF PendingInv, SettledInv, Settled, NonePending, Switching
<1>5. OwnLogin' BY <1>1 DEF OwnLogin
<1>6. QED BY <1>3, <1>4, <1>5 DEF PendingInv

\* The steps of a switch.
LEMMA SwitchStepPending ==
  ASSUME TypeInv, SerialInv, PendingInv, SwitchStep
  PROVE  PendingInv'
<1>1. CASE SwitchReplaces BY <1>1, ReplacePending
<1>2. CASE SwitchEnds BY <1>2, EndPending
<1>3. ASSUME NEW c \in Clients, SwitchConnects(c) PROVE PendingInv'
  <2>1. BeginConnect(c, "switch") /\ At("connecting") /\ sw.pc = "connect"
        /\ UNCHANGED <<login, suspect>>
    BY <1>3 DEF SwitchConnects, store, marks
  <2>2. QED BY <2>1, BeginPending
<1>4. UNCHANGED clients => UNCHANGED <<phase, attempt>> BY DEF clients
<1>5. UNCHANGED store => UNCHANGED login BY DEF store
<1>6. UNCHANGED marks => suspect' \subseteq suspect BY DEF marks
<1>7. sw.pc # "idle" BY SwitchKeepsPrevious
<1>8. CASE SwitchBacksUp
  BY <1>4, <1>5, <1>6, <1>7, <1>8, SwitchPending DEF SwitchBacksUp
<1>9. CASE SwitchConnected
  BY <1>4, <1>5, <1>6, <1>7, <1>9, SwitchPending DEF SwitchConnected, Placed
<1>10. CASE SwitchChecks
  BY <1>4, <1>5, <1>6, <1>7, <1>10, SwitchPending DEF SwitchChecks, Placed
<1>11. CASE SwitchSaves
  <2>1. UNCHANGED login BY <1>5, <1>11, SaveAdopts DEF SwitchSaves, TypeInv
  <2>2. QED BY <1>4, <1>6, <1>7, <1>11, <2>1, SwitchPending DEF SwitchSaves, Placed
<1>12. CASE SwitchVerified
  <2>1. suspect' \subseteq suspect BY <1>12 DEF SwitchVerified, Unmark
  <2>2. sw.pc \in Placed /\ \E pc \in Placed : At(pc) BY <1>12 DEF SwitchVerified, Placed
  <2>3. UNCHANGED <<login, phase, attempt>> BY <1>4, <1>5, <1>12 DEF SwitchVerified
  <2>4. QED BY <1>7, <2>1, <2>2, <2>3, SwitchPending
<1>13. CASE SwitchNotCleared
  BY <1>4, <1>5, <1>6, <1>7, <1>13, SwitchPending DEF SwitchNotCleared, Placed
<1>14. CASE SwitchReviews
  BY <1>4, <1>5, <1>6, <1>7, <1>14, SwitchPending DEF SwitchReviews
<1>15. QED
  BY <1>1, <1>2, <1>3, <1>8, <1>9, <1>10, <1>11, <1>12, <1>13, <1>14 DEF SwitchStep

\* The steps of the logins.
LEMMA LoginStepPending ==
  ASSUME TypeInv, SerialInv, PendingInv,
         LoginStep \/ \E id \in Logins : \/ LoginCompleted(id) \/ LoginFailed(id)
                                        \/ \E p \in Plus : LogsIn(id, p)
  PROVE  PendingInv'
<1>1. UNCHANGED clients => UNCHANGED <<phase, attempt>> BY DEF clients
<1>2. UNCHANGED store => UNCHANGED login BY DEF store
<1>3. UNCHANGED marks => UNCHANGED suspect BY DEF marks
<1>4. CASE LoginStorage
  <2>1. UNCHANGED <<login, suspect, sw>> BY <1>2, <1>3, <1>4 DEF LoginStorage
  <2>2. CASE UNCHANGED clients BY <1>1, <2>1, <2>2, PendingUntouched
  <2>3. ASSUME NEW c \in Clients, BeginConnect(c, "login") PROVE PendingInv'
    BY <2>1, <2>3, BeginPending
  <2>4. QED BY <1>4, <2>2, <2>3 DEF LoginStorage
<1>5. CASE LoginConnected
  BY <1>1, <1>2, <1>3, <1>5, PendingUntouched DEF LoginConnected
<1>6. CASE LoginSaves
  <2>1. UNCHANGED login BY <1>2, <1>6, SaveAdopts DEF LoginSaves, TypeInv
  <2>2. UNCHANGED <<suspect, phase, attempt, sw>> BY <1>1, <1>3, <1>6 DEF LoginSaves
  <2>3. QED BY <2>1, <2>2, PendingUntouched
<1>7. CASE LoginStarts BY <1>7, StartPending
<1>8. CASE CancelAnswered
  <2>1. UNCHANGED <<login, suspect, phase, sw>> BY <1>2, <1>3, <1>8 DEF CancelAnswered
  <2>2. UNCHANGED attempt \/ attempt' = [attempt EXCEPT ![cancel.id] = NoAttempt]
    BY <1>8 DEF CancelAnswered
  <2>3. QED BY <2>1, <2>2, PendingUntouched, EndsPending
<1>9. ASSUME NEW id \in Logins, LoginClears(id) PROVE PendingInv'
  <2>1. UNCHANGED <<login, phase, sw>> /\ attempt' = [attempt EXCEPT ![id] = NoAttempt]
    BY <1>2, <1>9 DEF LoginClears
  <2>2. suspect' \subseteq suspect BY <1>3, <1>9 DEF LoginClears, Unmark
  <2>3. QED BY <2>1, <2>2, EndsPending
<1>10. ASSUME NEW id \in Logins, LoginCompleted(id) PROVE PendingInv'
  <2>1. UNCHANGED login BY <1>2, <1>10, SaveAdopts DEF LoginCompleted, TypeInv
  <2>2. UNCHANGED <<suspect, phase, sw>> BY <1>3, <1>10 DEF LoginCompleted
  <2>3. \/ attempt' = [attempt EXCEPT ![id] = NoAttempt]
        \/ attempt' = [attempt EXCEPT ![id] = [NoAttempt EXCEPT !.pc = "clear", !.key = Clears]]
    BY <1>10 DEF LoginCompleted
  <2>4. QED BY <2>1, <2>2, <2>3, EndsPending
<1>11. ASSUME NEW id \in Logins, LoginFailed(id) PROVE PendingInv'
  <2>1. UNCHANGED <<login, suspect, phase, sw>> /\ attempt' = [attempt EXCEPT ![id] = NoAttempt]
    BY <1>2, <1>3, <1>11 DEF LoginFailed
  <2>2. QED BY <2>1, EndsPending
<1>12. ASSUME NEW id \in Logins, NEW p \in Plus, LogsIn(id, p) PROVE PendingInv'
  BY <1>12, WritePending
<1>13. QED
  BY <1>4, <1>5, <1>6, <1>7, <1>8, <1>9, <1>10, <1>11, <1>12 DEF LoginStep

\* Every step keeps the logins with their client.
LEMMA StepPending ==
  ASSUME TypeInv, SerialInv, PendingInv, [Next]_vars
  PROVE  PendingInv'
<1>1. CASE UNCHANGED <<login, phase, attempt, sw>> /\ suspect' \subseteq suspect
  BY <1>1, PendingUntouched
<1>2. ASSUME NEW c, StartSwitch(c), UNCHANGED <<login, phase, attempt>>, suspect' \subseteq suspect
      PROVE  PendingInv'
  <2>1. sw'.pc = "history" /\ ~ sw'.mark BY <1>2 DEF StartSwitch, NoSwitch
  <2>2. QED
    BY <1>2, <2>1, PendingStays DEF Settled, Placed, Switching, Connected, Pending
<1>3. ASSUME NEW c \in Clients, Reconnect(c) PROVE PendingInv'
  BY <1>3, BeginPending DEF Reconnect, store, marks
<1>4. ASSUME NEW c \in Clients, ConnectStep(c) \/ Exits(c) PROVE PendingInv'
  BY <1>4, ClientPending
<1>5. CASE SwitchStep BY <1>5, SwitchStepPending
<1>6. CASE LoginStep \/ \E id \in Logins : \/ LoginCompleted(id) \/ LoginFailed(id)
                                          \/ \E p \in Plus : LogsIn(id, p)
  BY <1>6, LoginStepPending
<1>7. CASE StartLogin \/ CancelLogin \/ ListAccounts
  BY <1>1, <1>7 DEF StartLogin, CancelLogin, ListAccounts, store, marks, clients
<1>8. CASE ApiSaved
  <2>1. CASE UNCHANGED <<store, marks, clients, sw>>
    BY <1>1, <2>1 DEF store, marks, clients
  <2>2. CASE /\ Store!List(saving) /\ Unmark(saving) /\ UNCHANGED clients
             /\ StartSwitch(saving) \/ UNCHANGED sw
    <3>1. UNCHANGED <<login, phase, attempt>> /\ suspect' \subseteq suspect
      BY <2>2 DEF Store!List, Unmark, clients
    <3>2. QED BY <1>1, <1>2, <2>2, <3>1
  <2>3. QED BY <1>8, <2>1, <2>2 DEF ApiSaved
<1>9. ASSUME NEW c \in Conn, Switch(c) PROVE PendingInv'
  BY <1>2, <1>9 DEF Switch, store, marks, clients
<1>10. ASSUME NEW c \in Conn, Delete(c) PROVE PendingInv'
  BY <1>1, <1>10 DEF Delete, Store!Delete, Unmark, clients
<1>11. ASSUME NEW a \in Apis, SaveApi(a) PROVE PendingInv'
  BY <1>1, <1>11 DEF SaveApi, store, marks, clients
<1>12. CASE UNCHANGED vars BY <1>1, <1>12 DEF vars, store, marks, clients
<1>13. QED
  BY <1>3, <1>4, <1>5, <1>6, <1>7, <1>8, <1>9, <1>10, <1>11, <1>12 DEF Next

\* No login is under way at first.
LEMMA InitPending == Init => PendingInv
BY DEF Init, PendingInv, HeldByClient, SettledInv, Settled, NonePending, OwnLogin, Pending,
       NoAttempt, NoSwitch, Switching, Placed

-----------------------------------------------------------------------------
(* From the replacement on, Codex and the new client are at the goal.      *)

GoalIsOnDisk == DiskIs(Goal) /\ active = Goal
ClientsRunIt ==
  \A c \in Clients : phase[c] \in {"loaded", "refresh", "open"} => loaded[c] = OnDisk
PlacedInv == sw.pc \in Placed => GoalIsOnDisk /\ ClientsRunIt

\* A step that touches neither files nor clients, and leaves Goal what it is.
LEMMA GoalStays ==
  ASSUME PlacedInv, sw.pc \in Placed, Goal' = Goal,
         UNCHANGED <<active, selected, login, phase, loaded>>
  PROVE  PlacedInv'
BY DEF PlacedInv, GoalIsOnDisk, DiskIs, ClientsRunIt, OnDisk

\* The goal of a switch stays until it fails.
LEMMA GoalKept ==
  ASSUME SwitchOK, NEW pc
  PROVE  /\ At(pc) => Goal' = Goal
         /\ sw' = [sw EXCEPT !.pc = pc, !.replaced = TRUE] => Goal' = Goal
         /\ sw' = [sw EXCEPT !.pc = pc, !.client = clientRef] => Goal' = Goal
BY DEF SwitchOK, SwitchRecords, At, Goal

\* A client moves on, and reads what is on the disk if it starts.
LEMMA ClientRunsIt ==
  ASSUME ClientsOK, PlacedInv, NEW c \in Clients, ConnectStep(c) \/ Exits(c)
  PROVE  PlacedInv'
<1> SUFFICES ASSUME sw.pc \in Placed, GoalIsOnDisk, ClientsRunIt
             PROVE  GoalIsOnDisk' /\ ClientsRunIt'
  BY DEF PlacedInv, ConnectStep, Load, Open, Refreshed, ConnectFails, Exits
<1>1. UNCHANGED <<store, sw>>
  BY DEF ConnectStep, Load, Open, Refreshed, ConnectFails, Exits
<1>2. GoalIsOnDisk' BY <1>1 DEF GoalIsOnDisk, DiskIs, Goal, store
<1>3. OnDisk' = OnDisk BY <1>1 DEF OnDisk, store
<1>4. ClientsRunIt'
  <2>1. CASE Load(c)
    BY <1>3, <2>1 DEF Load, ClientsRunIt, ClientsOK, PhaseOK, LoadedOK
  <2>2. CASE Open(c)
    BY <1>3, <2>2 DEF Open, ClientsRunIt, ClientsOK, PhaseOK
  <2>3. CASE Refreshed(c)
    BY <1>3, <2>3 DEF Refreshed, ClientsRunIt, ClientsOK, PhaseOK
  <2>4. CASE ConnectFails(c)
    BY <1>3, <2>4 DEF ConnectFails, WithoutLoaded, ClientsRunIt, ClientsOK, PhaseOK,
                LoadedOK
  <2>5. CASE Exits(c)
    BY <1>3, <2>5 DEF Exits, WithoutClient, WithoutLoaded, ClientsRunIt, ClientsOK, PhaseOK,
                LoadedOK
  <2>6. QED BY <2>1, <2>2, <2>3, <2>4, <2>5 DEF ConnectStep
<1>5. QED BY <1>2, <1>4

\* The replacement puts Codex at the goal and leaves no client.
LEMMA ReplacedIsPlaced ==
  ASSUME TypeInv, SerialInv, sw.pc = "replace", DropClient, Install(Goal),
         sw' = [sw EXCEPT !.pc = "connect", !.replaced = TRUE]
  PROVE  PlacedInv'
<1>1. Quiet BY DEF SerialInv, HandlersInv, QuietSwitch
<1>2. \A d \in Clients : phase'[d] = "free"
  BY <1>1, DropKeeps DEF TypeInv, SerialInv
<1>3. Goal' = Goal BY GoalKept DEF TypeInv
<1>4. /\ active' = Goal /\ Goal \in Conn
      /\ selected' = IF Goal \in Apis THEN Goal ELSE None
      /\ Goal \in Plus => login' = Goal
  BY InstallPlaces DEF TypeInv
<1>5. GoalIsOnDisk' BY <1>3, <1>4 DEF GoalIsOnDisk, DiskIs
<1>6. ClientsRunIt' BY <1>2 DEF ClientsRunIt
<1>7. QED BY <1>5, <1>6 DEF PlacedInv

\* A connect makes a client, which has loaded nothing.
LEMMA ConnectIsPlaced ==
  ASSUME TypeInv, SerialInv, PlacedInv, NEW c \in Clients, SwitchConnects(c)
  PROVE  PlacedInv'
<1> USE DEF TypeInv
<1>1. sw.pc = "connect" /\ At("connecting") /\ UNCHANGED store /\ BeginConnect(c, "switch")
  BY DEF SwitchConnects
<1>2. GoalIsOnDisk /\ ClientsRunIt BY <1>1 DEF PlacedInv, Placed
<1>3. Goal' = Goal BY <1>1, GoalKept
<1>4. GoalIsOnDisk' BY <1>1, <1>2, <1>3 DEF GoalIsOnDisk, DiskIs, store
<1>5. clientRef = None BY <1>1 DEF SerialInv, HandlersInv, Dropped
<1>6. phase' = [phase EXCEPT ![c] = "starting"] /\ UNCHANGED loaded
  BY <1>1, <1>5 DEF BeginConnect, WithoutClient, WithoutLoaded
<1>7. phase'[c] = "starting" /\ \A d \in Clients : d # c => phase'[d] = phase[d]
  BY <1>6, PhaseMoves
<1>8. OnDisk' = OnDisk BY <1>1 DEF OnDisk, store
<1>9. ClientsRunIt' BY <1>2, <1>6, <1>7, <1>8 DEF ClientsRunIt
<1>10. QED BY <1>4, <1>9 DEF PlacedInv

\* Saving changes only what is active, and the switch goes on if that is the goal.
LEMMA SavedIsPlaced ==
  ASSUME TypeInv, PlacedInv, SwitchSaves
  PROVE  PlacedInv'
<1> USE DEF TypeInv
<1>1. sw.pc = "save" /\ UNCHANGED <<phase, loaded>>
  BY DEF SwitchSaves, clients
<1>2. CASE Fail(TRUE)
  <2>1. sw'.pc \notin Placed BY <1>2, Leads DEF Placed
  <2>2. QED BY <2>1 DEF PlacedInv
<1>3. CASE SaveCurrent /\ active' = Goal /\ At("clear")
  <2>1. GoalIsOnDisk /\ ClientsRunIt BY <1>1 DEF PlacedInv, Placed
  <2>2. Goal' = Goal BY <1>3, GoalKept
  <2>3. UNCHANGED <<selected, login>> BY <1>3, SaveAdopts
  <2>4. GoalIsOnDisk' BY <1>3, <2>1, <2>2, <2>3 DEF GoalIsOnDisk, DiskIs
  <2>5. ClientsRunIt' BY <1>1, <2>1, <2>3 DEF ClientsRunIt, OnDisk
  <2>6. QED BY <2>4, <2>5 DEF PlacedInv
<1>4. QED BY <1>2, <1>3 DEF SwitchSaves

\* The steps of a switch.
LEMMA SwitchPlaced ==
  ASSUME TypeInv, SerialInv, PlacedInv, SwitchStep
  PROVE  PlacedInv'
<1> USE DEF TypeInv
<1>1. CASE sw'.pc \notin Placed BY <1>1 DEF PlacedInv
<1>2. ASSUME NEW mark \in BOOLEAN, Fail(mark) PROVE PlacedInv'
  BY <1>1, <1>2, Leads DEF Placed
<1>3. ASSUME sw.pc \in Placed, UNCHANGED <<store, clients>>, Goal' = Goal
      PROVE  PlacedInv'
  BY <1>3, GoalStays DEF store, clients
<1>4. CASE SwitchBacksUp
  <2>1. CASE sw' = [sw EXCEPT !.pc = "replace", !.client = None]
    <3>1. sw'.pc = "replace" BY <2>1 DEF SwitchOK, SwitchRecords
    <3>2. QED BY <1>1, <3>1 DEF Placed
  <2>2. QED BY <1>2, <1>4, <2>1 DEF SwitchBacksUp
<1>5. CASE SwitchReplaces
  BY <1>2, <1>5, ReplacedIsPlaced DEF SwitchReplaces
<1>6. CASE \E c \in Clients : SwitchConnects(c) BY <1>6, ConnectIsPlaced
<1>7. CASE SwitchConnected
  BY <1>2, <1>3, <1>7, GoalKept DEF SwitchConnected, Placed
<1>8. CASE SwitchChecks BY <1>2, <1>3, <1>8, GoalKept DEF SwitchChecks, Placed
<1>9. CASE SwitchSaves BY <1>9, SavedIsPlaced
<1>10. CASE SwitchVerified BY <1>3, <1>10, GoalKept DEF SwitchVerified, Placed
<1>11. CASE SwitchNotCleared BY <1>2, <1>11 DEF SwitchNotCleared
<1>12. CASE SwitchReviews BY <1>1, <1>2, <1>12, Leads DEF SwitchReviews, Placed
<1>13. CASE SwitchEnds BY <1>1, <1>13, Leads DEF SwitchEnds, Placed
<1>14. QED
  BY <1>4, <1>5, <1>6, <1>7, <1>8, <1>9, <1>10, <1>11, <1>12, <1>13 DEF SwitchStep

\* Every step keeps Codex and the client at the goal.
LEMMA StepPlaced ==
  ASSUME Serial, TypeInv, SerialInv, PendingInv, PlacedInv, [Next]_vars
  PROVE  PlacedInv'
<1> USE DEF TypeInv
<1>1. CASE UNCHANGED sw /\ sw.pc \notin Placed BY <1>1 DEF PlacedInv
<1>2. CASE UNCHANGED <<active, selected, login, phase, loaded, sw>>
  BY <1>1, <1>2, GoalStays DEF Goal
<1>3. sw.pc = "idle" => sw.pc \notin Placed BY DEF Placed
<1>4. ASSUME NEW c, StartSwitch(c) PROVE PlacedInv'
  BY <1>4 DEF StartSwitch, NoSwitch, PlacedInv, Placed
<1>5. ASSUME NEW c \in Clients, Reconnect(c) PROVE PlacedInv'
  BY <1>1, <1>3, <1>5 DEF Reconnect, Serial, Switching
<1>6. ASSUME NEW c \in Clients, ConnectStep(c) \/ Exits(c) PROVE PlacedInv'
  BY <1>6, ClientRunsIt
<1>7. CASE SwitchStep BY <1>7, SwitchPlaced
<1>8. CASE LoginStep
  <2>1. CASE CancelAnswered \/ \E id \in Logins : LoginClears(id)
    BY <1>2, <2>1 DEF CancelAnswered, LoginClears, store
  <2>2. CASE LoginStorage \/ LoginConnected \/ LoginSaves \/ LoginStarts
    <3>1. prep.pc # "idle" /\ UNCHANGED sw
      BY <2>2 DEF LoginStorage, LoginConnected, LoginSaves, LoginStarts
    <3>2. sw.pc = "idle" BY <3>1 DEF SerialInv, HandlersInv, NoLoginBeside, Switching
    <3>3. QED BY <1>1, <1>3, <3>1, <3>2
  <2>3. QED BY <1>8, <2>1, <2>2 DEF LoginStep
<1>9. ASSUME NEW id \in Logins,
             LoginCompleted(id) \/ LoginFailed(id) \/ \E p \in Plus : LogsIn(id, p)
      PROVE  PlacedInv'
  <2>1. Pending(id) /\ UNCHANGED sw
    BY <1>9 DEF LoginCompleted, LoginFailed, LogsIn, Pending
  <2>2. sw.pc \notin Placed
    BY <2>1 DEF PendingInv, SettledInv, Settled, NonePending
  <2>3. QED BY <1>1, <2>1, <2>2
<1>10. CASE StartLogin \/ CancelLogin \/ ListAccounts
  BY <1>2, <1>10 DEF StartLogin, CancelLogin, ListAccounts, store, clients
<1>11. ASSUME NEW c, Delete(c) PROVE PlacedInv'
  BY <1>1, <1>3, <1>11 DEF Delete, Switching
<1>12. ASSUME NEW a, SaveApi(a) PROVE PlacedInv'
  BY <1>2, <1>12 DEF SaveApi, store, clients
<1>13. CASE ApiSaved
  BY <1>2, <1>4, <1>13 DEF ApiSaved, Store!List, store, clients
<1>14. ASSUME NEW c \in Conn, Switch(c) PROVE PlacedInv' BY <1>4, <1>14 DEF Switch
<1>15. CASE UNCHANGED vars BY <1>2, <1>15 DEF vars, store, clients
<1>16. QED
  BY <1>5, <1>6, <1>7, <1>8, <1>9, <1>10, <1>11, <1>12, <1>13, <1>14, <1>15 DEF Next

-----------------------------------------------------------------------------
(* The theorems.                                                           *)

IInv == TypeInv /\ SerialInv /\ PendingInv /\ PlacedInv

\* The invariant holds of every state, if nobody connects beside a handler.
LEMMA SerialHolds ==
  ASSUME Serial
  PROVE  Spec => []IInv
<1>1. Init => IInv
  BY InitTyped, InitSerial, InitPending DEF IInv, Init, PlacedInv, Placed, NoSwitch
<1>2. IInv /\ [Next]_vars => IInv'
  BY StepTyped, StepSerial, StepPending, StepPlaced DEF IInv
<1>3. QED BY <1>1, <1>2, PTL DEF Spec

\* With no handler connecting beside another one, no app-server runs beside the
\* one in use: a connect, a switch, an undo or a login, each of which may fail at
\* any step, leaves no client behind (App.tsx:1744).
THEOREM NoneLeftBehind ==
  ASSUME Serial
  PROVE  Spec => []NoClientLeftBehind
<1>1. IInv => NoClientLeftBehind
  BY DEF IInv, SerialInv, ClientsInv, OnlyOne, Connected, NoClientLeftBehind
<1>2. QED BY <1>1, SerialHolds, PTL

\* Then no login ends the "log in again" mark of a ChatGPT account nobody has logged
\* in as since, whether its flow was cancelled, another one has been begun, or a
\* switch began and marked an account in between (App.tsx:1599): the login on the
\* disk is the one that was written last, and with its client gone before the files
\* are replaced, nobody is notified of one that was replaced.
THEOREM OwnMarkCleared ==
  ASSUME Serial
  PROVE  Spec => LoginClearsOwnMark
<1>1. IInv => \A id \in Logins :
                LoginCompleted(id) /\ attempt'[id].pc = "clear" /\ attempt'[id].key \in Plus =>
                  attempt'[id].key \notin suspect
  <2> SUFFICES ASSUME IInv, NEW id \in Logins, LoginCompleted(id), attempt'[id].pc = "clear",
                      attempt'[id].key \in Plus
               PROVE  attempt'[id].key \notin suspect
    OBVIOUS
  <2>1. attempt[id].pc = "written" /\ login \notin suspect
    BY DEF LoginCompleted, IInv, PendingInv, OwnLogin
  <2>2. attempt' # [attempt EXCEPT ![id] = NoAttempt]
    BY DEF NoAttempt, IInv, TypeInv, ClientsOK, AskedOK, AttemptOK
  <2>3. /\ attempt' = [attempt EXCEPT ![id] = [NoAttempt EXCEPT !.pc = "clear", !.key = active']]
        /\ SaveCurrent
    BY <2>2 DEF LoginCompleted, Clears
  <2>4. attempt'[id].key = active'
    BY <2>3 DEF NoAttempt, IInv, TypeInv, ClientsOK, AskedOK, AttemptOK
  <2>5. active' = IF active \in Apis THEN active ELSE login
    BY <2>3, SaveAdopts DEF IInv, TypeInv
  <2>6. QED BY <2>1, <2>4, <2>5, Constants
<1>2. QED BY <1>1, SerialHolds, PTL DEF LoginClearsOwnMark

\* What a client runs that is at the goal.
LEMMA RunsGoal ==
  ASSUME IInv, sw.pc \in Placed, Alive(clientRef)
  PROVE  Runs(clientRef) = Goal
<1>1. loaded[clientRef] = OnDisk /\ DiskIs(Goal)
  BY DEF IInv, PlacedInv, GoalIsOnDisk, ClientsRunIt, Alive, TypeInv, ClientsOK, RefOK
<1>2. QED BY <1>1, Constants DEF Runs, OnDisk, DiskIs, Conn

\* Then a switch that is reported as verified is one: the app-server in use runs
\* the target, although the check compares no account (App.tsx:2440).
THEOREM VerifiedLoads ==
  ASSUME Serial
  PROVE  Spec => VerifiedIsLoaded
<1>1. IInv => (SwitchVerified /\ ~ sw.undoing /\ Alive(clientRef) =>
                 Runs(clientRef) = sw.target)
  BY RunsGoal DEF SwitchVerified, Goal, Placed
<1>2. QED BY <1>1, SerialHolds, PTL DEF VerifiedIsLoaded

\* A step that ends a switch is one of the last two of its handler.
LEMMA WhoEnds ==
  ASSUME TypeInv, [Next]_vars, Switching, sw' = NoSwitch
  PROVE  SwitchReviews \/ SwitchEnds
<1>1. sw.pc # "idle" /\ sw'.pc = "idle" BY DEF Switching, NoSwitch
<1>2. ~ UNCHANGED sw BY <1>1
<1>3. CASE SwitchStep
  <2>1. ~ \E pc \in Placed : At(pc) BY <1>1, Leads DEF TypeInv, Placed
  <2>2. ~ \E mark \in BOOLEAN : Fail(mark) BY <1>1, Leads DEF TypeInv
  <2>3. ~ At("connecting") /\ ~ At("save") /\ ~ At("clear") /\ ~ At("review") /\ ~ At("undone")
    BY <2>1 DEF Placed
  <2>4. sw.pc \in SwitchPoints /\ sw \in SwitchRecords
    BY DEF TypeInv, SwitchOK, SwitchRecords
  <2>5. /\ sw' # [sw EXCEPT !.pc = "replace", !.client = None]
        /\ sw' # [sw EXCEPT !.pc = "connect", !.replaced = TRUE]
        /\ sw' # [sw EXCEPT !.pc = "check", !.client = clientRef]
    BY <1>1, <2>4 DEF SwitchRecords
  <2>6. ~ (SwitchBacksUp \/ SwitchReplaces \/ SwitchConnected)
    BY <2>2, <2>5 DEF SwitchBacksUp, SwitchReplaces, SwitchConnected
  <2>7. ~ (SwitchChecks \/ SwitchSaves \/ SwitchVerified \/ SwitchNotCleared)
    BY <2>2, <2>3 DEF SwitchChecks, SwitchSaves, SwitchVerified, SwitchNotCleared
  <2>8. ~ \E c \in Clients : SwitchConnects(c) BY <2>3 DEF SwitchConnects
  <2>9. QED BY <1>3, <2>6, <2>7, <2>8 DEF SwitchStep
<1>4. CASE LoginStep
  BY <1>2, <1>4 DEF LoginStep, LoginStorage, LoginConnected, LoginSaves, LoginStarts,
                    CancelAnswered, LoginClears
<1>5. CASE ApiSaved BY <1>1, <1>2, <1>5 DEF ApiSaved, StartSwitch, Switching
<1>6. ASSUME NEW c \in Clients, Reconnect(c) \/ ConnectStep(c) \/ Exits(c) PROVE FALSE
  BY <1>2, <1>6 DEF Reconnect, ConnectStep, Load, Open, Refreshed, ConnectFails, Exits
<1>7. ASSUME NEW id, LoginCompleted(id) \/ LoginFailed(id) \/ \E p \in Plus : LogsIn(id, p)
      PROVE  FALSE
  BY <1>2, <1>7 DEF LoginCompleted, LoginFailed, LogsIn
<1>8. CASE StartLogin \/ CancelLogin \/ ListAccounts
  BY <1>2, <1>8 DEF StartLogin, CancelLogin, ListAccounts
<1>9. ASSUME NEW c, Switch(c) \/ Delete(c) \/ SaveApi(c) PROVE FALSE
  BY <1>1, <1>2, <1>9 DEF Switch, StartSwitch, Switching, Delete, SaveApi
<1>10. CASE UNCHANGED vars BY <1>2, <1>10 DEF vars
<1>11. QED BY <1>3, <1>4, <1>5, <1>6, <1>7, <1>8, <1>9, <1>10 DEF Next

\* A switch ends at its target, with the target running; at the connection
\* before, with that one running; or with an error shown (App.tsx:2379).
THEOREM SwitchDecided ==
  ASSUME Serial
  PROVE  Spec => SwitchIsDecided
<1>1. IInv /\ [Next]_vars =>
        (Switching /\ sw' = NoSwitch =>
           \/ /\ sw.pc \in {"review", "undone"}
              /\ active = Goal
              /\ Alive(clientRef) => Runs(clientRef) = Goal
           \/ state' = "error")
  <2> SUFFICES ASSUME IInv, [Next]_vars, Switching, sw' = NoSwitch
               PROVE  \/ /\ sw.pc \in {"review", "undone"}
                         /\ active = Goal
                         /\ Alive(clientRef) => Runs(clientRef) = Goal
                      \/ state' = "error"
    OBVIOUS
  <2>1. CASE sw.pc \in {"review", "undone"}
    BY <2>1, RunsGoal DEF IInv, PlacedInv, GoalIsOnDisk, Placed
  <2>2. CASE sw.pc \notin {"review", "undone"}
    BY <2>2, WhoEnds DEF IInv, SwitchReviews, SwitchEnds
  <2>3. QED BY <2>1, <2>2
<1>2. QED BY <1>1, SerialHolds, PTL DEF SwitchIsDecided, Spec

=============================================================================
