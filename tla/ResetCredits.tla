----------------------------- MODULE ResetCredits -----------------------------
(***************************************************************************)
(* The reset credits that the panel shows (src/App.tsx).  The panel asks   *)
(* for them whenever it refreshes, at most once in five minutes; the       *)
(* command read_codex_reset_credits (src-tauri/src/lib.rs) reads auth.json *)
(* when it runs and answers when the service does, in any order.  An       *)
(* answer is shown if the generation has not changed since it was asked    *)
(* for; the generation changes when a switch begins, when one is undone,   *)
(* and with each notification about the account.                           *)
(*                                                                         *)
(* A switch runs as in SwitchFlow: the chats are backed up with the old    *)
(* app-server, the command replaces the files, the panel takes over its    *)
(* result, a new app-server is started and asked.                          *)
(***************************************************************************)
EXTENDS Naturals

CONSTANTS
  Plus,        \* the ChatGPT accounts
  Apis,        \* the API connections
  None,        \* no credits, no login read yet
  Requests,    \* bound: requests that are under way at a time
  MaxChanges   \* bound: changes of the generation

Connections == Plus \cup Apis

ASSUME CreditsAssumption ==
  /\ None \notin Connections
  /\ Plus \cap Apis = {}
  /\ MaxChanges \in Nat

VARIABLES
  login,       \* the account whose login auth.json holds
  active,      \* the active connection in registry.json
  shown,       \* the active connection in authRegistry, the panel's copy
  phase,       \* "idle", "error", "backup", "replaced", "verify", "undo", "undone", "reverify"
  target,      \* the connection that is switched to
  previous,    \* the one to go back to
  told,        \* the notifications about the account that are still to come
  generation,  \* resetCreditsGenerationRef
  due,         \* the last attempt is long enough ago
  credits,     \* resetCredits: the account they are of, or None
  failed,      \* resetCreditsError
  request,     \* each request: the generation it carries, the login it read
  since        \* the logins that auth.json held since the generation changed

switch == <<phase, target, previous>>
files == <<login, active>>
shows == <<generation, due, credits, failed>>
vars == <<files, shown, switch, told, shows, request, since>>

Free == [generation |-> None, login |-> None]
Asked(g) == [generation |-> g, login |-> None]
LoginOf(c) == IF c \in Plus THEN c ELSE login

-----------------------------------------------------------------------------
(* refreshResetCredits.                                                    *)

\* The switch begins, or is undone, or the account has changed.
Forget ==
  /\ generation < MaxChanges
  /\ generation' = generation + 1
  /\ credits' = None /\ failed' = FALSE
  /\ due' = TRUE

HideCredits == credits' = None /\ failed' = FALSE

\* The panel is refreshed for the connection c; a request is sent when it is due.
Refresh(c, forced, g) ==
  \/ c \in Apis /\ HideCredits /\ UNCHANGED <<due, request>>
  \/ /\ c \in Plus /\ ~ forced /\ ~ due
     /\ UNCHANGED <<due, credits, failed, request>>
  \/ /\ c \in Plus /\ (forced \/ due)
     /\ \E r \in Requests : request[r] = Free /\ request' = [request EXCEPT ![r] = Asked(g)]
     /\ due' = FALSE
     /\ UNCHANGED <<credits, failed>>

\* What Forget and a forced refresh do in one handler.
ForgetAndRefresh(c) ==
  /\ generation < MaxChanges
  /\ generation' = generation + 1
  /\ credits' = None /\ failed' = FALSE
  /\ IF c \in Plus
       THEN /\ due' = FALSE
            /\ \E r \in Requests : /\ request[r] = Free
                                   /\ request' = [request EXCEPT ![r] = Asked(generation')]
       ELSE due' = TRUE /\ UNCHANGED request

\* There is a client to ask: the timer, a notification or the user refreshes.
Connected == phase \in {"idle", "error", "backup", "verify", "reverify"}

Tick ==
  /\ Connected
  /\ Refresh(shown, FALSE, generation)
  /\ UNCHANGED <<files, shown, switch, told, generation, since>>

RefreshClicked ==
  /\ Connected
  /\ Refresh(shown, TRUE, generation)
  /\ UNCHANGED <<files, shown, switch, told, generation, since>>

\* Mutant: an attempt is counted again only after a failure.
DueOnlyAfterFailure == failed /\ ~ due

TooLongAgo == ~ due

Elapse ==
  /\ TooLongAgo
  /\ due' = TRUE
  /\ UNCHANGED <<files, shown, switch, told, generation, credits, failed, request, since>>

\* read_codex_reset_credits reads auth.json.
ReadLogin(r) ==
  /\ request[r] # Free /\ request[r].login = None
  /\ request' = [request EXCEPT ![r].login = login]
  /\ UNCHANGED <<files, shown, switch, told, shows, since>>

\* Mutant: any answer is shown.
AnyAnswer(r) == TRUE

Current(r) == request[r].generation = generation

\* The answer comes in, or the request fails: the credits then stay.
Answer(r) ==
  /\ request[r].login # None
  /\ request' = [request EXCEPT ![r] = Free]
  /\ IF Current(r) THEN credits' = request[r].login /\ failed' = FALSE
                   ELSE UNCHANGED <<credits, failed>>
  /\ UNCHANGED <<files, shown, switch, told, generation, due, since>>

RequestFails(r) ==
  /\ request[r].login # None
  /\ request' = [request EXCEPT ![r] = Free]
  /\ failed' = (failed \/ Current(r))
  /\ UNCHANGED <<files, shown, switch, told, generation, due, credits, since>>

-----------------------------------------------------------------------------
(* A switch, as far as it changes what is asked for.                       *)

Begin(c) ==
  /\ phase \in {"idle", "error"}
  /\ phase' = "backup" /\ target' = c /\ previous' = shown
  /\ Forget
  /\ since' = {login}
  /\ UNCHANGED <<files, shown, told, request>>

\* switch_local_codex_account replaces the files.
Replace(c) == login' = LoginOf(c) /\ active' = c /\ since' = since \cup {LoginOf(c)}

Switch ==
  /\ phase = "backup"
  /\ phase' = "replaced"
  /\ Replace(target)
  /\ UNCHANGED <<shown, target, previous, told, shows, request>>

\* The backup, the command or the verification of an undone switch failed: the
\* panel counts as not connected, although its client may be.
GiveUp ==
  /\ phase \in {"backup", "undo", "reverify"}
  /\ phase' = "error"
  /\ UNCHANGED <<files, shown, target, previous, told, shows, request, since>>

\* The panel has the registry of the target, and connects.
Return ==
  /\ phase = "replaced"
  /\ phase' = "verify"
  /\ shown' = active
  /\ UNCHANGED <<files, target, previous, told, shows, request, since>>

\* The target is verified, and the panel refreshed.
Verified ==
  /\ phase = "verify"
  /\ phase' = "idle"
  /\ Refresh(target, FALSE, generation)
  /\ UNCHANGED <<files, shown, target, previous, told, generation, since>>

NotVerified ==
  /\ phase = "verify"
  /\ phase' = IF target = previous THEN "error" ELSE "undo"
  /\ UNCHANGED <<files, shown, target, previous, told, shows, request, since>>

Undo ==
  /\ phase = "undo"
  /\ phase' = "undone"
  /\ Replace(previous)
  /\ UNCHANGED <<shown, target, previous, told, shows, request>>

\* The user connects again.
Reconnect ==
  /\ phase = "error"
  /\ phase' = "idle"
  /\ Refresh(shown, FALSE, generation)
  /\ UNCHANGED <<files, shown, target, previous, told, generation, since>>

UndoReturns ==
  /\ phase = "undone"
  /\ phase' = "reverify"
  /\ shown' = active
  /\ Forget
  /\ since' = {login}
  /\ UNCHANGED <<files, target, previous, told, request>>

Restored ==
  /\ phase = "reverify"
  /\ phase' = "idle"
  /\ Refresh(previous, FALSE, generation)
  /\ UNCHANGED <<files, shown, target, previous, told, generation, since>>

-----------------------------------------------------------------------------
(* A login through the app-server, which writes auth.json and tells.       *)

Login(p) ==
  /\ phase \in {"idle", "error"} /\ told = {}
  /\ generation + 1 < MaxChanges
  /\ login' = p /\ since' = since \cup {p}
  /\ told' = {"account/updated", "account/login/completed"}
  /\ UNCHANGED <<active, shown, switch, shows, request>>

AccountUpdated ==
  /\ "account/updated" \in told
  /\ told' = told \ {"account/updated"}
  /\ ForgetAndRefresh(shown)
  /\ since' = {login}
  /\ UNCHANGED <<files, shown, switch>>

\* handleAccountLoginCompleted: the credits go at once, the account is saved,
\* unless an API connection is active, and the panel is refreshed.
LoginCompleted ==
  /\ "account/login/completed" \in told
  /\ told' = (told \ {"account/login/completed"}) \cup {"saved"}
  /\ Forget
  /\ since' = {login}
  /\ UNCHANGED <<files, shown, switch, request>>

LoginSaved ==
  /\ "saved" \in told
  /\ told' = told \ {"saved"}
  /\ active' = IF active \in Apis THEN active ELSE login
  /\ shown' = active'
  /\ \/ Connected /\ Refresh(shown', TRUE, generation)
     \/ ~ Connected /\ UNCHANGED <<due, credits, failed, request>>
  /\ UNCHANGED <<login, switch, generation, since>>

-----------------------------------------------------------------------------
(* The specification.                                                      *)

Init ==
  /\ login \in Plus /\ active \in {login} \cup Apis /\ shown = active
  /\ phase = "idle" /\ target = active /\ previous = active
  /\ told = {}
  /\ generation = 0 /\ due = TRUE /\ credits = None /\ failed = FALSE
  /\ request = [r \in Requests |-> Free]
  /\ since = {login}

Undoing == GiveUp \/ Undo \/ UndoReturns \/ Restored \/ Reconnect
Switching == (\E c \in Connections : Begin(c)) \/ Switch \/ Return \/ Verified \/ NotVerified
Notified == AccountUpdated \/ LoginCompleted \/ LoginSaved
Read(r) == ReadLogin(r) \/ Answer(r) \/ RequestFails(r)

Next ==
  \/ Tick \/ RefreshClicked \/ Elapse
  \/ \E r \in Requests : Read(r)
  \/ Switching \/ Undoing \/ Notified
  \/ \E p \in Plus : Login(p)

Spec == Init /\ [][Next]_vars

\* The timer runs while the panel counts as connected, every request is answered or
\* times out after twelve seconds, and what was notified is handled.
Timer == phase # "error" /\ Tick
Fairness ==
  /\ WF_vars(Timer) /\ WF_vars(Elapse) /\ WF_vars(Notified)
  /\ \A r \in Requests : WF_vars(Read(r))
FairSpec == Spec /\ Fairness

-----------------------------------------------------------------------------
(* Properties.                                                             *)

\* What is shown was read from auth.json after the panel last forgot it: no
\* answer from before the switch, or before the account changed, gets through,
\* however late it comes.
ShownIsRecent == credits # None => credits \in since

\* When no switch is under way and every notification was handled, the credits
\* are those of the login in auth.json.
ShownIsActive ==
  phase = "idle" /\ told = {} /\ credits # None => credits = login /\ shown \in Plus

\* Credits that are not the active account's do not stay: they are replaced or
\* the panel says that it could not read them, unless another switch begins.
ShownIsRenewed ==
  phase = "idle" /\ shown \in Plus /\ credits # login
    ~> credits = login \/ failed \/ phase # "idle" \/ shown \in Apis

=============================================================================
