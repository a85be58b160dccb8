----------------------------- MODULE SwitchFlow -----------------------------
(***************************************************************************)
(* How the panel switches connection and logs in (src/App.tsx): the async  *)
(* handlers handleSwitchAccount, connectToServer, handleStartAccountLogin, *)
(* handleCancelAccountLogin, handleAccountLoginCompleted,                  *)
(* handleSaveApiConnection and handleDeleteAccount, which interleave at    *)
(* each await.                                                             *)
(*                                                                         *)
(* The commands of the account store are the steps of ConnectionDirectory, *)
(* which AccountStore implements.  A client (ShellClient) is reduced to    *)
(* how far it has come and to what its app-server loaded.  Saving the      *)
(* current account, restarting the desktop client and what the panel only  *)
(* shows are left out.                                                     *)
(***************************************************************************)
EXTENDS Naturals

CONSTANTS
  Plus,       \* the ChatGPT accounts
  Apis,       \* the API connections
  Clients,    \* bound: app-server clients at one time
  Logins,     \* bound: the ids of logins under way at one time
  None,       \* nothing
  Interleave  \* "reconnect": the button is pressed during a switch; "login": a
              \* switch is begun while a login is being prepared or recorded

Conn == Plus \cup Apis
Disk == [provider : Apis \cup {None}, login : Plus \cup {None}]

ASSUME SwitchAssumption ==
  /\ Plus \cap Apis = {}
  /\ None \notin Conn \cup Clients \cup Logins \cup Disk
  /\ Interleave \subseteq {"reconnect", "login"}

VARIABLES
  listed, active, selected, login,  \* the account store: see ConnectionDirectory
  invalid,    \* the connections marked "log in again" in the registry
  suspect,    \* history: those of them that nobody has logged in as since
  phase,      \* each client: "free", "starting", "loaded", "refresh" (connected,
              \* the caller waits for the first snapshot), "open"
  loaded,     \* the provider and login its app-server runs with
  by,         \* the handler that waits for its connection
  attempt,    \* each login: "open" in its app-server's browser page, "written" to
              \* auth.json and to be notified, or "clear": the handler
              \* handleAccountLoginCompleted is about to clear a mark
  clientRef,
  state,      \* connectionState
  launching,  \* isLaunching
  sw,         \* handleSwitchAccount
  cancel,     \* handleCancelAccountLogin: the login and the client it asks
  flow,       \* the id of accountLoginFlow
  prep,       \* handleStartAccountLogin
  shown,      \* the active connection of authRegistry, the panel's copy
  saving      \* the API connection handleSaveApiConnection waits for

store == <<listed, active, selected, login>>
marks == <<invalid, suspect>>
clients == <<phase, loaded, by, attempt, cancel, clientRef, state, launching>>
logins == <<flow, prep>>
panel == <<shown, saving>>
vars == <<store, marks, clients, sw, logins, panel>>

Store == INSTANCE ConnectionDirectory

NoSwitch == [pc |-> "idle", target |-> None, prev |-> None, client |-> None,
             replaced |-> FALSE, undoing |-> FALSE, mark |-> FALSE]
NoPrep == [pc |-> "idle", client |-> None]
NoCancel == [id |-> None, client |-> None]
NoAttempt == [pc |-> "free", client |-> None, key |-> None]

NoDisk == [provider |-> None, login |-> None]
OnDisk == [provider |-> selected, login |-> login]
Runs(c) == IF loaded[c].provider # None THEN loaded[c].provider ELSE loaded[c].login
Alive(c) == c # None /\ phase[c] \in {"refresh", "open"}
Held == {sw.client, prep.client}
Switching == sw.pc # "idle"

-----------------------------------------------------------------------------
(* Commands of the store.                                                  *)

\* Mutant: every connection is installed as an API connection is.
InstallAlike(c) == Store!InstallApi(c)

\* switch_local_codex_account
Install(c) ==
  IF c \in Apis THEN Store!InstallApi(c) ELSE Store!InstallPlus(c)

\* save_current_codex_account: with an API connection active nothing is saved.
SaveCurrent ==
  IF active \in Apis THEN UNCHANGED store ELSE Store!Adopt(login)

-----------------------------------------------------------------------------
(* connectToServer and disconnectClient.                                   *)

\* Client c is disconnected.  That rejects its requests, so a connectToServer
\* that waits for the first snapshot returns, and resets isLaunching last, as does
\* handleCancelAccountLogin.  The logins of its app-server end, and of what they
\* wrote nobody is notified.
Refreshing(c) == c # None /\ phase[c] = "refresh"
WithoutCaller(c) == IF c = None THEN by ELSE [by EXCEPT ![c] = None]
WithoutClient(c) == IF c = None THEN phase ELSE [phase EXCEPT ![c] = "free"]
WithoutLoaded(c) == IF c = None THEN loaded ELSE [loaded EXCEPT ![c] = NoDisk]
WithoutLogins(c) ==
  [id \in Logins |->
     IF c # None /\ attempt[id].client = c THEN NoAttempt ELSE attempt[id]]
WithoutCancel(c) == IF c # None /\ cancel.client = c THEN NoCancel ELSE cancel

\* Mutant: the client in use is only forgotten.
BeginBeside(c, caller) ==
  /\ phase[c] = "free" /\ c \notin Held
  /\ phase' = [phase EXCEPT ![c] = "starting"]
  /\ by' = [by EXCEPT ![c] = caller]
  /\ clientRef' = None
  /\ state' = "connecting"
  /\ launching' = TRUE
  /\ UNCHANGED <<loaded, attempt, cancel>>

\* The client of clientRef is disconnected and a new one is made.
BeginConnect(c, caller) ==
  /\ phase[c] = "free" /\ c \notin Held
  /\ phase' = [WithoutClient(clientRef) EXCEPT ![c] = "starting"]
  /\ by' = [WithoutCaller(clientRef) EXCEPT ![c] = caller]
  /\ loaded' = WithoutLoaded(clientRef)
  /\ attempt' = WithoutLogins(clientRef)
  /\ cancel' = WithoutCancel(clientRef)
  /\ clientRef' = None
  /\ state' = "connecting"
  /\ launching' = ~ Refreshing(clientRef)

\* The panel connects when it is opened, or its button is pressed, which only a
\* connection being made disables.
Reconnect(c) ==
  /\ state # "connecting" /\ ~ launching
  /\ "reconnect" \in Interleave \/ (~ Switching /\ prep.pc = "idle")
  /\ BeginConnect(c, "user")
  /\ UNCHANGED <<store, marks, sw, logins, panel>>

\* The app-server reads config.toml and auth.json as it starts.
Load(c) ==
  /\ phase[c] = "starting"
  /\ phase' = [phase EXCEPT ![c] = "loaded"]
  /\ loaded' = [loaded EXCEPT ![c] = OnDisk]
  /\ UNCHANGED <<store, marks, by, attempt, cancel, clientRef, state, launching, sw, logins, panel>>

\* connect has resolved.
Open(c) ==
  /\ phase[c] = "loaded"
  /\ phase' = [phase EXCEPT ![c] = "refresh"]
  /\ clientRef' = c
  /\ state' = "connected"
  /\ UNCHANGED <<store, marks, loaded, by, attempt, cancel, launching, sw, logins, panel>>

\* refreshSnapshot is done, or its requests failed: connectToServer returns.
Refreshed(c) ==
  /\ phase[c] = "refresh"
  /\ phase' = [phase EXCEPT ![c] = "open"]
  /\ by' = [by EXCEPT ![c] = None]
  /\ launching' = FALSE
  /\ UNCHANGED <<store, marks, loaded, attempt, cancel, clientRef, state, sw, logins, panel>>

\* The providers could not be ensured, no command line could be run, or
\* "initialize" failed: connectToServer returns all the same.
ConnectFails(c) ==
  /\ phase[c] \in {"starting", "loaded"}
  /\ phase' = [phase EXCEPT ![c] = "free"]
  /\ by' = [by EXCEPT ![c] = None]
  /\ loaded' = WithoutLoaded(c)
  /\ clientRef' = None
  /\ state' = "error"
  /\ launching' = FALSE
  /\ UNCHANGED <<store, marks, attempt, cancel, sw, logins, panel>>

\* An app-server exits: onDisconnect, whichever client it is.
Exits(c) ==
  /\ Alive(c)
  /\ phase' = WithoutClient(c)
  /\ by' = WithoutCaller(c)
  /\ loaded' = WithoutLoaded(c)
  /\ attempt' = WithoutLogins(c)
  /\ cancel' = WithoutCancel(c)
  /\ clientRef' = None
  /\ state' = "disconnected"
  /\ launching' = (launching /\ ~ Refreshing(c))
  /\ UNCHANGED <<store, marks, sw, logins, panel>>

\* disconnectClient, by itself.
DropClient ==
  /\ phase' = WithoutClient(clientRef)
  /\ by' = WithoutCaller(clientRef)
  /\ loaded' = WithoutLoaded(clientRef)
  /\ attempt' = WithoutLogins(clientRef)
  /\ cancel' = WithoutCancel(clientRef)
  /\ clientRef' = None
  /\ state' = "disconnected"
  /\ launching' = (launching /\ ~ Refreshing(clientRef))

Returned(caller) == \A c \in Clients : by[c] # caller

-----------------------------------------------------------------------------
(* handleSwitchAccount.  The same steps are taken for the target and, when *)
(* a check fails after the replacement, for the connection before.         *)

Goal == IF sw.undoing THEN sw.prev ELSE sw.target
At(pc) == sw' = [sw EXCEPT !.pc = pc]

Recording == \E id \in Logins : attempt[id].pc = "clear"

\* The connection to go back to is the one the panel shows as active.
StartSwitch(target) ==
  /\ ~ Switching
  /\ "login" \in Interleave \/ (prep.pc = "idle" /\ ~ Recording)
  /\ sw' = [NoSwitch EXCEPT !.pc = "history", !.target = target, !.prev = shown,
                            !.client = clientRef]

\* A card's button: not for the account shown as active, not during a login.
Switch(target) ==
  /\ target \in listed \ {shown}
  /\ flow = None
  /\ StartSwitch(target)
  /\ UNCHANGED <<store, marks, clients, logins, panel>>

\* Mutant: a failure of the undo is undone, too.
FailAgain(mark) ==
  LET undo == sw.replaced /\ sw.prev \notin {None, sw.target}
  IN sw' = [sw EXCEPT !.pc = IF undo THEN "replace" ELSE "mark",
                      !.undoing = @ \/ undo,
                      !.client = None,
                      !.mark = IF sw.undoing THEN @ ELSE mark]

\* The catch: what was replaced is put back, once, if there was something else.
Fail(mark) ==
  LET undo == ~ sw.undoing /\ sw.replaced /\ sw.prev \notin {None, sw.target}
  IN sw' = [sw EXCEPT !.pc = IF undo THEN "replace" ELSE "mark",
                      !.undoing = @ \/ undo,
                      !.client = None,
                      !.mark = IF sw.undoing THEN @ ELSE mark]

\* All chats are listed and backed up; a failure is not the account's.
SwitchBacksUp ==
  /\ sw.pc = "history"
  /\ \/ Alive(sw.client) /\ sw' = [sw EXCEPT !.pc = "replace", !.client = None]
     \/ Fail(FALSE)
  /\ UNCHANGED <<store, marks, clients, logins, panel>>

\* Mutant: a client that is connected is kept, as handleStartAccountLogin does.
SwitchReplacesInPlace ==
  /\ sw.pc = "replace"
  /\ \/ /\ Install(Goal) /\ shown' = active'
        /\ sw' = [sw EXCEPT !.replaced = TRUE,
                            !.pc = IF Alive(clientRef) THEN "connecting" ELSE "connect"]
     \/ \E missing \in BOOLEAN : Fail(missing) /\ UNCHANGED <<store, shown>>
  /\ UNCHANGED <<marks, clients, logins, saving>>

\* The client is disconnected and switch_local_codex_account sent, a synchronous
\* command; a missing snapshot is the account's failure.
SwitchReplaces ==
  /\ sw.pc = "replace"
  /\ DropClient
  /\ \/ /\ Install(Goal) /\ shown' = active'
        /\ sw' = [sw EXCEPT !.pc = "connect", !.replaced = TRUE]
     \/ \E missing \in BOOLEAN : Fail(missing) /\ UNCHANGED <<store, shown>>
  /\ UNCHANGED <<marks, logins, saving>>

SwitchConnects(c) ==
  /\ sw.pc = "connect"
  /\ BeginConnect(c, "switch")
  /\ At("connecting")
  /\ UNCHANGED <<store, marks, logins, panel>>

SwitchConnected ==
  /\ sw.pc = "connecting" /\ Returned("switch")
  /\ \/ Alive(clientRef) /\ sw' = [sw EXCEPT !.pc = "check", !.client = clientRef]
     \/ ~ Alive(clientRef) /\ Fail(TRUE)
  /\ UNCHANGED <<store, marks, clients, logins, panel>>

\* account/read: a ChatGPT login is there, whose is not compared.  To an API
\* connection: config/read names its provider (read from the disk or from what
\* is loaded), a new chat starts under it.  An undo asks for a login in any case.
Verifies ==
  LET c == sw.client
      seen == {loaded[c].provider, selected}
  IN /\ Alive(c)
     /\ Goal \in Plus \/ sw.undoing => loaded[c].login # None
     /\ Goal \in Apis /\ ~ sw.undoing => Goal \in seen

SwitchChecks ==
  /\ sw.pc = "check"
  /\ \/ sw.client # None /\ Verifies /\ At("save")
     \/ Fail(TRUE)
  /\ UNCHANGED <<store, marks, clients, logins, panel>>

\* What Codex is logged in with is saved, and must be what was switched to.
SwitchSaves ==
  /\ sw.pc = "save"
  /\ \/ SaveCurrent /\ IF active' = Goal THEN At("clear") ELSE Fail(TRUE)
     \/ Fail(TRUE) /\ UNCHANGED store
  /\ UNCHANGED <<marks, clients, logins, panel>>

Mark(c) == invalid' = invalid \cup {c} /\ suspect' = suspect \cup {c}
Unmark(c) == invalid' = invalid \ {c} /\ suspect' = suspect \ {c}

\* The mark is cleared: "account/switch-verified" or "account/switch-rolled-back".
SwitchVerified ==
  /\ sw.pc = "clear"
  /\ Unmark(Goal)
  /\ shown' = active
  /\ At(IF sw.undoing THEN "undone" ELSE "review")
  /\ UNCHANGED <<store, clients, logins, saving>>

SwitchNotCleared ==
  /\ sw.pc = "clear"
  /\ Fail(TRUE)
  /\ UNCHANGED <<store, marks, clients, logins, panel>>

\* The chats are listed again: one missing stops the switch, and so does a
\* failure to list them.
SwitchReviews ==
  /\ sw.pc = "review"
  /\ \/ Alive(sw.client) /\ sw' = NoSwitch
     \/ Fail(FALSE)
  /\ UNCHANGED <<store, marks, clients, logins, panel>>

\* Mutant: the panel keeps the state its last connection left.
SwitchEndsQuietly ==
  /\ sw.pc \in {"mark", "undone"}
  /\ \/ sw.mark /\ sw.target \in listed /\ Mark(sw.target) /\ shown' = active
     \/ UNCHANGED <<marks, shown>>
  /\ sw' = NoSwitch
  /\ UNCHANGED <<store, clients, logins, saving>>

\* The end of the catch: the target is marked, unless only chats were missing
\* or the mark cannot be written.
SwitchEnds ==
  /\ sw.pc \in {"mark", "undone"}
  /\ \/ sw.mark /\ sw.target \in listed /\ Mark(sw.target) /\ shown' = active
     \/ UNCHANGED <<marks, shown>>
  /\ state' = IF sw.pc = "undone" THEN state ELSE "error"
  /\ sw' = NoSwitch
  /\ UNCHANGED <<store, phase, loaded, by, attempt, cancel, clientRef, launching, logins, saving>>

-----------------------------------------------------------------------------
(* Logging in.                                                             *)

\* The button of the panel, or that of an account to log in again, which only
\* the messages name.
StartLogin ==
  /\ ~ Switching /\ prep.pc = "idle" /\ flow = None
  /\ state # "connecting" /\ ~ launching
  /\ prep' = [NoPrep EXCEPT !.pc = "storage"]
  /\ UNCHANGED <<store, marks, clients, sw, flow, panel>>

\* ensure_file_auth_credentials_store fails, changed nothing, or the panel
\* connects (anew).
LoginStorage ==
  /\ prep.pc = "storage"
  /\ \/ prep' = NoPrep /\ UNCHANGED clients
     \/ Alive(clientRef) /\ prep' = [prep EXCEPT !.pc = "save", !.client = clientRef]
        /\ UNCHANGED clients
     \/ \E c \in Clients : BeginConnect(c, "login") /\ prep' = [prep EXCEPT !.pc = "connecting"]
  /\ UNCHANGED <<store, marks, sw, flow, panel>>

LoginConnected ==
  /\ prep.pc = "connecting" /\ Returned("login")
  /\ prep' = IF Alive(clientRef) THEN [prep EXCEPT !.pc = "save", !.client = clientRef]
             ELSE NoPrep
  /\ UNCHANGED <<store, marks, clients, sw, flow, panel>>

\* The login there is, if any, is saved first.
LoginSaves ==
  /\ prep.pc = "save"
  /\ \/ /\ Alive(prep.client)
        /\ IF loaded[prep.client].login = None THEN UNCHANGED <<store, shown>>
           ELSE SaveCurrent /\ shown' = active'
        /\ prep' = [prep EXCEPT !.pc = "start"]
     \/ prep' = NoPrep /\ UNCHANGED <<store, shown>>
  /\ UNCHANGED <<marks, clients, sw, flow, saving>>

\* The app-server begins a login, in the browser or with a device code, or not.
LoginStarts ==
  /\ prep.pc = "start"
  /\ \/ \E id \in Logins :
          /\ Alive(prep.client) /\ attempt[id].pc = "free" /\ cancel.id # id
          /\ attempt' = [attempt EXCEPT ![id] = [NoAttempt EXCEPT !.pc = "open",
                                                                !.client = prep.client]]
          /\ flow' = id
     \/ UNCHANGED <<attempt, flow>>
  /\ prep' = NoPrep
  /\ UNCHANGED <<store, marks, phase, loaded, by, cancel, clientRef, state, launching, sw, panel>>

\* Without a client the flow just ends; otherwise the app-server is asked.
CancelLogin ==
  /\ flow # None
  /\ \/ ~ Alive(clientRef) /\ flow' = None /\ UNCHANGED cancel
     \/ /\ Alive(clientRef) /\ cancel = NoCancel
        /\ cancel' = [id |-> flow, client |-> clientRef]
        /\ UNCHANGED flow
  /\ UNCHANGED <<store, marks, phase, loaded, by, attempt, clientRef, state, launching, sw,
                 prep, panel>>

\* It answers: a login that is still open ends, and so does the flow, whichever
\* it is by now.  Or the request fails.
CancelAnswered ==
  /\ cancel # NoCancel
  /\ \/ /\ attempt' = IF attempt[cancel.id].pc = "open" /\ attempt[cancel.id].client = cancel.client
                        THEN [attempt EXCEPT ![cancel.id] = NoAttempt] ELSE attempt
        /\ flow' = None
     \/ UNCHANGED <<attempt, flow>>
  /\ cancel' = NoCancel
  /\ UNCHANGED <<store, marks, phase, loaded, by, clientRef, state, launching, sw, prep, panel>>

\* The user logs in as p in the browser: Codex writes auth.json.
LogsIn(id, p) ==
  /\ attempt[id].pc = "open"
  /\ attempt' = [attempt EXCEPT ![id].pc = "written"]
  /\ loaded' = [loaded EXCEPT ![attempt[id].client].login = p]
  /\ login' = p
  /\ suspect' = suspect \ {p}
  /\ UNCHANGED <<listed, active, selected, invalid, phase, by, cancel, clientRef, state, launching,
                 sw, logins, panel>>

\* Mutant: the mark of the account the panel shows as active is cleared.
ClearsShown == shown

\* The account whose mark is cleared: the active one of the registry.
Clears == active'

\* account/login/completed: with another login's flow shown nothing is done, although
\* auth.json is another.  Otherwise the flow ends, if it has not been cancelled, and
\* save_current_codex_account is sent at once.
LoginCompleted(id) ==
  /\ attempt[id].pc = "written"
  /\ \/ /\ flow \notin {None, id}
        /\ attempt' = [attempt EXCEPT ![id] = NoAttempt]
        /\ UNCHANGED <<store, flow>>
     \/ /\ flow \in {None, id}
        /\ flow' = None
        /\ \/ /\ SaveCurrent
              /\ attempt' = [attempt EXCEPT ![id] = [NoAttempt EXCEPT !.pc = "clear",
                                                                    !.key = Clears]]
           \/ attempt' = [attempt EXCEPT ![id] = NoAttempt] /\ UNCHANGED store
  /\ UNCHANGED <<marks, phase, loaded, by, cancel, clientRef, state, launching, sw, prep, panel>>

\* The login failed or was given up; its notification ends its flow only.
LoginFailed(id) ==
  /\ attempt[id].pc = "open"
  /\ attempt' = [attempt EXCEPT ![id] = NoAttempt]
  /\ flow' = IF flow = id THEN None ELSE flow
  /\ UNCHANGED <<store, marks, phase, loaded, by, cancel, clientRef, state, launching, sw, prep,
                 panel>>

\* The second command of the handler; then the snapshot is refreshed.
LoginClears(id) ==
  /\ attempt[id].pc = "clear"
  /\ \/ attempt[id].key \in listed /\ Unmark(attempt[id].key) /\ shown' = active
     \/ UNCHANGED <<marks, shown>>
  /\ attempt' = [attempt EXCEPT ![id] = NoAttempt]
  /\ UNCHANGED <<store, phase, loaded, by, cancel, clientRef, state, launching, sw, logins, saving>>

-----------------------------------------------------------------------------
(* The other handlers.                                                     *)

\* An API connection is to be saved, with a new key perhaps: it is tested first.
SaveApi(a) ==
  /\ ~ Switching /\ saving = None
  /\ saving' = a
  /\ UNCHANGED <<store, marks, clients, sw, logins, shown>>

\* The test or the writing of the key fails; or the connection is saved, be it
\* during a switch, and if it is the active one the panel switches to it again,
\* unless it is switching.
ApiSaved ==
  /\ saving # None
  /\ saving' = None
  /\ \/ UNCHANGED <<store, marks, sw, shown>>
     \/ /\ Store!List(saving) /\ Unmark(saving) /\ shown' = active
        /\ \/ saving = active /\ StartSwitch(saving)
           \/ (saving # active \/ Switching) /\ UNCHANGED sw
  /\ UNCHANGED <<clients, logins>>

\* Mutant: an account can be deleted during a switch.
DeleteAnytime(c) ==
  /\ flow = None /\ c # shown
  /\ Store!Delete(c)
  /\ Unmark(c) /\ shown' = active
  /\ UNCHANGED <<clients, sw, logins, saving>>

\* The command refuses the active account of the registry, too.
Delete(c) ==
  /\ ~ Switching /\ flow = None /\ c # shown
  /\ Store!Delete(c)
  /\ Unmark(c) /\ shown' = active
  /\ UNCHANGED <<clients, sw, logins, saving>>

\* loadAuthAccounts, by its button: the panel's copy is read again.
ListAccounts ==
  /\ ~ Switching /\ prep.pc = "idle"
  /\ shown' = active
  /\ UNCHANGED <<store, marks, clients, sw, logins, saving>>

-----------------------------------------------------------------------------
(* The specification.                                                      *)

\* The panel is opened with some accounts saved, one of them in use.
Init ==
  /\ listed \in SUBSET Conn /\ active \in listed
  /\ selected = IF active \in Apis THEN active ELSE None
  /\ login \in Plus /\ (active \in Plus => login = active)
  /\ invalid = {} /\ suspect = {}
  /\ phase = [c \in Clients |-> "free"]
  /\ loaded = [c \in Clients |-> NoDisk]
  /\ by = [c \in Clients |-> None]
  /\ attempt = [id \in Logins |-> NoAttempt]
  /\ clientRef = None /\ state = "disconnected" /\ launching = FALSE
  /\ sw = NoSwitch
  /\ flow = None /\ prep = NoPrep /\ cancel = NoCancel
  /\ shown = active /\ saving = None

ConnectStep(c) == Load(c) \/ Open(c) \/ Refreshed(c) \/ ConnectFails(c)
SwitchStep ==
  \/ SwitchBacksUp \/ SwitchReplaces \/ SwitchConnected \/ SwitchChecks
  \/ SwitchSaves \/ SwitchVerified \/ SwitchNotCleared \/ SwitchReviews \/ SwitchEnds
  \/ \E c \in Clients : SwitchConnects(c)
LoginStep ==
  \/ LoginStorage \/ LoginConnected \/ LoginSaves \/ LoginStarts \/ CancelAnswered
  \/ \E id \in Logins : LoginClears(id)

Next ==
  \/ \E c \in Clients : Reconnect(c) \/ ConnectStep(c) \/ Exits(c)
  \/ SwitchStep \/ LoginStep \/ ApiSaved
  \/ \E id \in Logins :
       LoginCompleted(id) \/ LoginFailed(id) \/ \E p \in Plus : LogsIn(id, p)
  \/ StartLogin \/ CancelLogin \/ ListAccounts
  \/ \E target \in Conn : Switch(target) \/ Delete(target)
  \/ \E a \in Apis : SaveApi(a)

Spec == Init /\ [][Next]_vars

\* Every request times out and every command returns, so a switch and the connecting
\* it waits for go on.
Fairness ==
  /\ \A c \in Clients : WF_vars(ConnectStep(c))
  /\ WF_vars(SwitchStep)
FairSpec == Spec /\ Fairness

-----------------------------------------------------------------------------
(* Properties.                                                             *)

\* Every variable has its type.
TypeOK ==
  /\ listed \subseteq Conn /\ active \in Conn \cup {None}
  /\ selected \in Apis \cup {None} /\ login \in Plus \cup {None}
  /\ invalid \subseteq Conn /\ suspect \subseteq invalid
  /\ phase \in [Clients -> {"free", "starting", "loaded", "refresh", "open"}]
  /\ loaded \in [Clients -> Disk]
  /\ by \in [Clients -> {None, "user", "switch", "login"}]
  /\ attempt \in [Logins -> [pc : {"free", "open", "written", "clear"},
                             client : Clients \cup {None}, key : Conn \cup {None}]]
  /\ clientRef \in Clients \cup {None}
  /\ state \in {"disconnected", "connecting", "connected", "error"} /\ launching \in BOOLEAN
  /\ sw \in [pc : {"idle", "history", "replace", "connect", "connecting", "check",
                   "save", "clear", "review", "undone", "mark"},
             target : Conn \cup {None}, prev : Conn \cup {None}, client : Clients \cup {None},
             replaced : BOOLEAN, undoing : BOOLEAN, mark : BOOLEAN]
  /\ flow \in Logins \cup {None}
  /\ prep \in [pc : {"idle", "storage", "connecting", "save", "start"},
               client : Clients \cup {None}]
  /\ cancel \in [id : Logins \cup {None}, client : Clients \cup {None}]
  /\ shown \in Conn \cup {None} /\ saving \in Apis \cup {None}

\* A switch can go back: the connection the panel showed as active when it began
\* stays listed while it is under way, although logins and saved API connections
\* change the registry meanwhile.
PreviousStaysListed == Switching /\ sw.prev # None => sw.prev \in listed

\* No app-server of the panel keeps running beside the one it uses: connecting
\* anew, a switch, an undo or a login leaves no client behind.
NoClientLeftBehind ==
  \A c \in Clients : phase[c] \in {"refresh", "open"} => c = clientRef

\* docs/account-switching.md:130, "the tool can guarantee that its own app-server
\* ... uses the verified account": a switch is reported as verified only when
\* the client in use runs the target.
VerifiedIsLoaded ==
  [][SwitchVerified /\ ~ sw.undoing /\ Alive(clientRef) =>
       Runs(clientRef) = sw.target]_vars

\* A switch ends in one of three ways: the target is installed, and what the
\* panel is connected to runs it; the connection before is, and runs again; or
\* the panel shows an error.
SwitchIsDecided ==
  [][Switching /\ sw' = NoSwitch =>
       \/ /\ sw.pc \in {"review", "undone"}
          /\ active = Goal
          /\ Alive(clientRef) => Runs(clientRef) = Goal
       \/ state' = "error"]_vars

\* The ChatGPT account whose mark a login ends is one that somebody logged in as
\* since it was marked, also when the flow was cancelled, another login has been
\* begun, or a switch replaces auth.json.  (With an API connection active it is that
\* one's mark that ends, although nothing of it was verified.)
LoginClearsOwnMark ==
  [][\A id \in Logins :
       LoginCompleted(id) /\ attempt'[id].pc = "clear" /\ attempt'[id].key \in Plus =>
         attempt'[id].key \notin suspect]_vars

\* A switch comes to an end, failed checks, failed undo and lost clients included.
SwitchTerminates == Switching ~> ~ Switching

=============================================================================
