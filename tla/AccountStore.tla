---------------------------- MODULE AccountStore ----------------------------
(***************************************************************************)
(* The files behind account switching (src-tauri/src/lib.rs): what the     *)
(* Tauri commands save_current_codex_account, switch_local_codex_account,  *)
(* delete_local_codex_account, save_api_connection_profile and the config  *)
(* repairs read and write, one action per file written, with the failures  *)
(* and the roll-backs of each.                                             *)
(*                                                                         *)
(* Synchronous commands run one at a time on the main thread (variables pc *)
(* and cmd); save_api_connection_profile is async and runs on the tokio    *)
(* pool beside them (variable save).  Codex itself, which refreshes and    *)
(* replaces auth.json, is external.                                        *)
(***************************************************************************)
EXTENDS Naturals

CONSTANTS
  Plus,        \* the ChatGPT accounts, told apart by chatgpt_account_id
  KeyLogins,   \* those of Plus whose auth.json holds an API key, no tokens
  Apis,        \* the API connections (connection_kind "api")
  None,        \* an absent file, an unset key, the built-in provider
  MaxToken,    \* bound: how many times an account's tokens are issued
  Faults,      \* what may go wrong: a subset of FaultKinds
  Interleave,  \* what may run between two steps of a command
  Windows      \* replace_json_file removes the destination before renaming

\* "write": a write fails; "landed": it returns Err though the file was replaced
\* (the last chmod failed); "undo": a write of a roll-back fails; "keyring": a
\* call to the system keyring fails; "crash": the process dies.
FaultKinds == {"write", "landed", "undo", "keyring", "crash"}

ASSUME AccountAssumption ==
  /\ KeyLogins \subseteq Plus
  /\ Plus \cap Apis = {}
  /\ None \notin Plus \cup Apis \cup Nat
  /\ MaxToken \in Nat

ASSUME FaultAssumption ==
  /\ Faults \subseteq FaultKinds
  /\ Interleave \subseteq {"save", "codex"}
  /\ Windows \in BOOLEAN

Conn == Plus \cup Apis
Token == 0 .. MaxToken

(***************************************************************************)
(* Contents of the files.  A config is reduced to the entries the switch   *)
(* reads or writes: model_provider, whether `model` is set, the provider   *)
(* tables of our connections, those of them that hold a bearer token, and  *)
(* cli_auth_credentials_store = "file".                                    *)
(***************************************************************************)
Config == [provider : Apis \cup {None}, model : BOOLEAN, defs : SUBSET Apis,
           keys : SUBSET Apis, fileAuth : BOOLEAN]
Auth == [owner : Plus, token : Token]
Registry == [active : Conn \cup {None}, accounts : SUBSET Conn]
Route == [key : Conn \cup {None}, provider : Apis \cup {None}]

\* An absent file is none of the contents a file can have.
ASSUME NoneAssumption == None \notin Config \cup Auth \cup Registry \cup Route

VARIABLES
  registry,  \* accounts/registry.json
  auth,      \* auth.json
  config,    \* config.toml
  baseline,  \* status-floater/chatgpt-config.toml
  route,     \* status-floater/active-history-route.json
  snapshot,  \* accounts/<key>.auth.json, one per ChatGPT account
  catalogs,  \* the connections with a model-catalogs/<provider>.json
  secrets,   \* the connections with an API key in the system keyring
  latest,    \* the newest tokens OpenAI issued to each account; 0: none yet
  pc,        \* the step the running command is at
  cmd,       \* what the running command holds in memory
  save       \* save_api_connection_profile after its network test

files == <<registry, auth, config, baseline, route, snapshot, catalogs, secrets>>
vars == <<files, latest, pc, cmd, save>>

-----------------------------------------------------------------------------
(* Reading.                                                                *)

EmptyConfig ==
  [provider |-> None, model |-> FALSE, defs |-> {}, keys |-> {}, fileAuth |-> FALSE]
EmptyRegistry == [active |-> None, accounts |-> {}]

\* A missing config reads as an empty document, a missing registry as an
\* empty one.
ConfigText(c) == IF c = None THEN EmptyConfig ELSE c
ReadRegistry == IF registry = None THEN EmptyRegistry ELSE registry

ActiveIsApi(r) == r.active \in Apis \cap r.accounts
HasTokens(a) == a # None /\ a.owner \notin KeyLogins

\* configure_api_provider
ApiConfig(base, a) ==
  [base EXCEPT !.provider = a, !.model = TRUE, !.fileAuth = TRUE,
               !.defs = @ \cup {a}, !.keys = @ \cup {a}]

\* Mutants: every account gets a table; none does.
RetainAllAccounts(c, r) == [c EXCEPT !.defs = @ \cup r.accounts]
RetainNothing(c, r) == c

\* retain_saved_provider_definitions
RetainProviders(c, r) == [c EXCEPT !.defs = @ \cup (r.accounts \cap Apis)]

\* Mutant: whoever is logged in is saved as the active account.
SyncAnyLogin(r) == ~ ActiveIsApi(r) /\ auth # None /\ r.active \in r.accounts

\* sync_active_account_snapshot writes a snapshot only under this condition.
SyncApplies(r) ==
  /\ ~ ActiveIsApi(r)
  /\ auth # None
  /\ auth.owner = r.active
  /\ r.active \in r.accounts

\* chatgpt_auth_for_api_switch.  Candidates are taken by last_used_at, which
\* has a resolution of one second: any of them may come first.
AuthsForApi(r, current) ==
  LET saved == {[owner |-> p, token |-> snapshot[p]] :
                  p \in {q \in (r.accounts \cap Plus) \ KeyLogins : snapshot[q] # None}}
  IN IF HasTokens(current) THEN {current}
     ELSE IF saved # {} THEN saved
     ELSE IF current # None THEN {current}
     ELSE {}

-----------------------------------------------------------------------------
(* Writing.                                                                *)

\* write_private_file that returns Err: nothing was replaced, or the new file
\* is there and the last chmod failed; on Windows the rename may fail after
\* the destination was removed.
AfterFailedWrite(old, new) ==
  {old} \cup (IF "landed" \in Faults THEN {new} ELSE {})
        \cup (IF Windows THEN {None} ELSE {})

\* A write_private_file in the command: go on to `ok`, or to `failed`.
Write(file, content, ok, failed) ==
  \/ file' = content /\ pc' = ok
  \/ /\ "write" \in Faults
     /\ file' \in AfterFailedWrite(file, content)
     /\ pc' = failed

\* A write (or removal) that undoes an earlier one; its error is only reported.
Restore(file, content, next) ==
  /\ \/ file' = content
     \/ "undo" \in Faults /\ file' \in AfterFailedWrite(file, content)
  /\ pc' = next

NoFiles == [config |-> None, auth |-> None, route |-> None, catalog |-> FALSE]
NoCommand ==
  [target |-> None, reg |-> EmptyRegistry, prev |-> NoFiles,
   nextConfig |-> None, nextAuth |-> None, late |-> FALSE]

\* The locals of a command live until it returns.
KeepLocals == cmd' = IF pc' = "idle" THEN NoCommand ELSE cmd

MainMayStart == pc = "idle" /\ (save.pc = "idle" \/ "save" \in Interleave)

-----------------------------------------------------------------------------
(* save_current_codex_account, and the commands that only rewrite registry. *)

\* mark_ and clear_local_codex_account_invalid write the registry they read
\* with only the flags of one account changed.
MarkInvalidBegin ==
  /\ MainMayStart
  /\ ReadRegistry.accounts # {}
  /\ pc' = "commit"
  /\ cmd' = [NoCommand EXCEPT !.reg = ReadRegistry]
  /\ UNCHANGED <<files, latest, save>>

\* While an API connection is active, save_current_codex_account only renews
\* its last_used_at: auth.json is not looked at.
SaveCurrentOfApi ==
  /\ MainMayStart
  /\ ActiveIsApi(ReadRegistry)
  /\ pc' = "commit"
  /\ cmd' = [NoCommand EXCEPT !.target = ReadRegistry.active, !.reg = ReadRegistry]
  /\ UNCHANGED <<files, latest, save>>

\* Mutant: the registry lists the account with its snapshot still to be written.
SaveCurrentUnsaved ==
  /\ MainMayStart
  /\ ~ ActiveIsApi(ReadRegistry)
  /\ auth # None
  /\ pc' = "commit"
  /\ cmd' = [NoCommand EXCEPT
               !.reg = [active |-> auth.owner,
                        accounts |-> ReadRegistry.accounts \cup {auth.owner}]]
  /\ UNCHANGED <<files, latest, save>>

\* Otherwise the account is derived from auth.json and becomes the active one.
SaveCurrentBegin ==
  /\ MainMayStart
  /\ ~ ActiveIsApi(ReadRegistry)
  /\ auth # None
  /\ pc' = "snapshot"
  /\ cmd' = [NoCommand EXCEPT
               !.reg = [active |-> auth.owner,
                        accounts |-> ReadRegistry.accounts \cup {auth.owner}],
               !.nextAuth = auth]
  /\ UNCHANGED <<files, latest, save>>

\* The snapshot file of account p is replaced, or the write fails.
WriteSnapshot(p, token, ok) ==
  \/ snapshot' = [snapshot EXCEPT ![p] = token] /\ pc' = ok
  \/ /\ "write" \in Faults
     /\ \E t \in AfterFailedWrite(snapshot[p], token) :
           snapshot' = [snapshot EXCEPT ![p] = t]
     /\ pc' = "idle"

SaveCurrentSnapshot ==
  /\ pc = "snapshot"
  /\ WriteSnapshot(cmd.nextAuth.owner, cmd.nextAuth.token, "commit")
  /\ KeepLocals
  /\ UNCHANGED <<registry, auth, config, baseline, route, catalogs, secrets, latest, save>>

WriteRegistry ==
  /\ pc = "commit"
  /\ Write(registry, cmd.reg, "idle", "idle")
  /\ KeepLocals
  /\ UNCHANGED <<auth, config, baseline, route, snapshot, catalogs, secrets, latest, save>>

-----------------------------------------------------------------------------
(* switch_local_codex_account.                                             *)

\* The panel calls ensure_file_auth_credentials_store before every switch.
SwitchBegin(target) ==
  /\ MainMayStart
  /\ target \in ReadRegistry.accounts
  /\ ConfigText(config).fileAuth
  /\ pc' = "sync"
  /\ cmd' = [NoCommand EXCEPT !.target = target, !.reg = ReadRegistry]
  /\ UNCHANGED <<files, latest, save>>

SwitchSync ==
  /\ pc = "sync"
  /\ IF SyncApplies(cmd.reg)
       THEN WriteSnapshot(cmd.reg.active, auth.token, "read")
       ELSE pc' = "read" /\ UNCHANGED snapshot
  /\ KeepLocals
  /\ UNCHANGED <<registry, auth, config, baseline, route, catalogs, secrets, latest, save>>

\* The files a failure restores are read, then backed up: a backup that
\* cannot be written stops the switch.
SwitchRead ==
  /\ pc = "read"
  /\ \/ /\ pc' = "prepare"
        /\ cmd' = [cmd EXCEPT !.prev =
                     [config |-> config, auth |-> auth, route |-> route,
                      catalog |-> cmd.target \in catalogs]]
     \/ "write" \in Faults /\ pc' = "idle" /\ cmd' = NoCommand
  /\ UNCHANGED <<files, latest, save>>

\* Mutants: the baseline is refreshed on every switch to an API connection; an
\* API config is built on the current one; leaving a connection keeps its config.
AlwaysRefresh == FALSE
CurrentAsApiBase == ConfigText(cmd.prev.config)
CurrentAsPlusBase == ConfigText(cmd.prev.config)

\* Coming from an API connection the baseline is left as it is.
BaselineStays == ActiveIsApi(cmd.reg)

\* What the new config is built on: for an API connection always the baseline,
\* for a ChatGPT account the baseline when the current config is an API one.
ApiBase == baseline
PlusBase == IF ActiveIsApi(cmd.reg) THEN baseline ELSE ConfigText(cmd.prev.config)

\* To an API connection: its key is read; coming from ChatGPT the config is
\* kept as the baseline.
SwitchBaseline ==
  /\ pc = "prepare"
  /\ cmd.target \in Apis
  /\ \/ /\ cmd.target \notin secrets \/ "keyring" \in Faults
        /\ pc' = "idle"
        /\ UNCHANGED baseline
     \/ /\ cmd.target \in secrets
        /\ IF BaselineStays
             THEN pc' = "catalog" /\ UNCHANGED baseline
             ELSE Write(baseline, ConfigText(cmd.prev.config), "catalog", "idle")
  /\ KeepLocals
  /\ UNCHANGED <<registry, auth, config, route, snapshot, catalogs, secrets, latest, save>>

\* The model catalog is written and the new config and auth are computed;
\* with no baseline the catalog is not reached, with no login to keep it
\* stays behind.
SwitchCatalog ==
  /\ pc = "catalog"
  /\ LET target == cmd.target
         logins == AuthsForApi(cmd.reg, cmd.prev.auth)
         Stop == pc' = "idle" /\ cmd' = NoCommand
     IN \/ baseline = None /\ Stop /\ UNCHANGED catalogs
        \/ /\ baseline # None
           /\ "write" \in Faults
           /\ catalogs' \in {catalogs}
                \cup (IF "landed" \in Faults THEN {catalogs \cup {target}} ELSE {})
                \cup (IF Windows THEN {catalogs \ {target}} ELSE {})
           /\ Stop
        \/ /\ baseline # None
           /\ catalogs' = catalogs \cup {target}
           /\ \/ logins = {} /\ Stop
              \/ \E a \in logins :
                   /\ pc' = "config"
                   /\ cmd' = [cmd EXCEPT
                        !.nextConfig = RetainProviders(ApiConfig(ApiBase, target), cmd.reg),
                        !.nextAuth = a]
  /\ UNCHANGED <<registry, auth, config, baseline, route, snapshot, secrets, latest, save>>

\* To a ChatGPT account: its snapshot becomes auth.json; coming from an API
\* connection the baseline becomes the config again.
SwitchToPlus ==
  /\ pc = "prepare"
  /\ cmd.target \in Plus
  /\ IF snapshot[cmd.target] = None \/ PlusBase = None
       THEN pc' = "idle" /\ cmd' = NoCommand
       ELSE /\ pc' = "config"
            /\ cmd' = [cmd EXCEPT
                 !.nextConfig = RetainProviders(PlusBase, cmd.reg),
                 !.nextAuth = [owner |-> cmd.target, token |-> snapshot[cmd.target]]]
  /\ UNCHANGED <<files, latest, save>>

SwitchWriteConfig ==
  /\ pc = "config"
  /\ Write(config, cmd.nextConfig, "auth", "undoConfig")
  /\ KeepLocals
  /\ UNCHANGED <<registry, auth, baseline, route, snapshot, catalogs, secrets, latest, save>>

SwitchWriteAuth ==
  /\ pc = "auth"
  /\ Write(auth, cmd.nextAuth, "route", "undoConfig")
  /\ KeepLocals
  /\ UNCHANGED <<registry, config, baseline, route, snapshot, catalogs, secrets, latest, save>>

\* write_history_route refuses a config that names no model.
SwitchWriteRoute ==
  /\ pc = "route"
  /\ IF cmd.nextConfig.model
       THEN Write(route, [key |-> cmd.target, provider |-> cmd.nextConfig.provider],
                  "registry", "undoConfig")
       ELSE pc' = "undoConfig" /\ UNCHANGED route
  /\ KeepLocals
  /\ UNCHANGED <<registry, auth, config, baseline, snapshot, catalogs, secrets, latest, save>>

\* Mutant: a registry write that fails is rolled back like an earlier one.
SwitchCommitForgotten ==
  /\ pc = "registry"
  /\ Write(registry, [cmd.reg EXCEPT !.active = cmd.target], "idle", "undoConfig")
  /\ KeepLocals
  /\ UNCHANGED <<auth, config, baseline, route, snapshot, catalogs, secrets, latest, save>>

SwitchCommit ==
  /\ pc = "registry"
  /\ Write(registry, [cmd.reg EXCEPT !.active = cmd.target], "idle", "undoConfig")
  /\ cmd' = IF pc' = "idle" THEN NoCommand ELSE [cmd EXCEPT !.late = TRUE]
  /\ UNCHANGED <<auth, config, baseline, route, snapshot, catalogs, secrets, latest, save>>

\* The roll-back, in the order of the code; the registry is put back only
\* when its own write was the one that failed.
UndoConfig ==
  /\ pc = "undoConfig"
  /\ Restore(config, cmd.prev.config, "undoAuth")
  /\ KeepLocals
  /\ UNCHANGED <<registry, auth, baseline, route, snapshot, catalogs, secrets, latest, save>>

UndoAuth ==
  /\ pc = "undoAuth"
  /\ Restore(auth, cmd.prev.auth, "undoRoute")
  /\ KeepLocals
  /\ UNCHANGED <<registry, config, baseline, route, snapshot, catalogs, secrets, latest, save>>

\* Mutant: the route is not put back.
UndoRouteSkipped ==
  /\ pc = "undoRoute"
  /\ pc' = "undoCatalog"
  /\ UNCHANGED <<files, latest, cmd, save>>

UndoRoute ==
  /\ pc = "undoRoute"
  /\ Restore(route, cmd.prev.route, "undoCatalog")
  /\ KeepLocals
  /\ UNCHANGED <<registry, auth, config, baseline, snapshot, catalogs, secrets, latest, save>>

UndoCatalog ==
  /\ pc = "undoCatalog"
  /\ LET gone == catalogs \ {cmd.target}
         restored == IF cmd.prev.catalog THEN catalogs \cup {cmd.target} ELSE gone
     IN IF cmd.target \in Plus
          THEN UNCHANGED catalogs
          ELSE \/ catalogs' = restored
               \/ "undo" \in Faults /\ catalogs' \in {catalogs} \cup (IF Windows THEN {gone} ELSE {})
  /\ pc' = IF cmd.late THEN "undoRegistry" ELSE "idle"
  /\ KeepLocals
  /\ UNCHANGED <<registry, auth, config, baseline, route, snapshot, secrets, latest, save>>

UndoRegistry ==
  /\ pc = "undoRegistry"
  /\ Restore(registry, cmd.reg, "idle")
  /\ KeepLocals
  /\ UNCHANGED <<auth, config, baseline, route, snapshot, catalogs, secrets, latest, save>>

-----------------------------------------------------------------------------
(* delete_local_codex_account.                                             *)

\* Mutant: the active account can be deleted.
DeleteAny(target) ==
  /\ MainMayStart
  /\ target \in ReadRegistry.accounts
  /\ pc' = "unlist"
  /\ cmd' = [NoCommand EXCEPT !.target = target, !.reg = ReadRegistry]
  /\ UNCHANGED <<files, latest, save>>

\* remove_inactive_account: the active account cannot be deleted.
DeleteBegin(target) ==
  /\ MainMayStart
  /\ target \in ReadRegistry.accounts
  /\ target # ReadRegistry.active
  /\ pc' = "unlist"
  /\ cmd' = [NoCommand EXCEPT !.target = target, !.reg = ReadRegistry]
  /\ UNCHANGED <<files, latest, save>>

DeleteUnlist ==
  /\ pc = "unlist"
  /\ Write(registry, [cmd.reg EXCEPT !.accounts = @ \ {cmd.target}],
           IF cmd.target \in Apis THEN "secret" ELSE "file", "idle")
  /\ KeepLocals
  /\ UNCHANGED <<auth, config, baseline, route, snapshot, catalogs, secrets, latest, save>>

DeleteSecret ==
  /\ pc = "secret"
  /\ \/ secrets' = secrets \ {cmd.target} /\ pc' = "catalogGone"
     \/ "keyring" \in Faults /\ UNCHANGED secrets /\ pc' = "relist"
  /\ UNCHANGED <<registry, auth, config, baseline, route, snapshot, catalogs, latest, cmd, save>>

\* Best effort, its error is ignored.
DeleteCatalog ==
  /\ pc = "catalogGone"
  /\ \/ catalogs' = catalogs \ {cmd.target}
     \/ "write" \in Faults /\ UNCHANGED catalogs
  /\ pc' = "idle"
  /\ KeepLocals
  /\ UNCHANGED <<registry, auth, config, baseline, route, snapshot, secrets, latest, save>>

DeleteSnapshot ==
  /\ pc = "file"
  /\ \/ snapshot' = [snapshot EXCEPT ![cmd.target] = None] /\ pc' = "idle"
     \/ /\ "write" \in Faults
        /\ snapshot[cmd.target] # None
        /\ UNCHANGED snapshot
        /\ pc' = "relist"
  /\ KeepLocals
  /\ UNCHANGED <<registry, auth, config, baseline, route, catalogs, secrets, latest, save>>

DeleteRelist ==
  /\ pc = "relist"
  /\ Restore(registry, cmd.reg, "idle")
  /\ KeepLocals
  /\ UNCHANGED <<auth, config, baseline, route, snapshot, catalogs, secrets, latest, save>>

-----------------------------------------------------------------------------
(* The config repairs.                                                     *)

EnsureFileAuth ==
  /\ MainMayStart
  /\ ~ ConfigText(config).fileAuth
  /\ Write(config, [ConfigText(config) EXCEPT !.fileAuth = TRUE], "idle", "idle")
  /\ UNCHANGED <<registry, auth, baseline, route, snapshot, catalogs, secrets, latest, cmd, save>>

\* ensure_history_provider_definitions: add the missing provider tables, then,
\* if the config names a model, record the route under the active key.
EnsureProviders ==
  /\ MainMayStart
  /\ config # None
  /\ LET kept == RetainProviders(config, ReadRegistry)
         ok == IF config.model THEN "historyRoute" ELSE "idle"
     IN IF kept # config
          THEN Write(config, kept, ok, "idle")
          ELSE config.model /\ pc' = ok /\ UNCHANGED config
  /\ UNCHANGED <<registry, auth, baseline, route, snapshot, catalogs, secrets, latest, cmd, save>>

EnsureRoute ==
  /\ pc = "historyRoute"
  /\ Write(route, [key |-> ReadRegistry.active, provider |-> config.provider], "idle", "idle")
  /\ UNCHANGED <<registry, auth, config, baseline, snapshot, catalogs, secrets, latest, cmd, save>>

-----------------------------------------------------------------------------
(* save_api_connection_profile, from the read of the registry that follows *)
(* its network test.                                                       *)

NoSave == [pc |-> "idle", api |-> None, reg |-> EmptyRegistry, had |-> FALSE]

\* `had`: previous_secret is Some; a keyring that fails to read looks like a
\* connection that has no key yet.
SaveApiBegin(a) ==
  /\ save.pc = "idle"
  /\ pc = "idle" \/ "save" \in Interleave
  /\ \E had \in {a \in secrets} \cup (IF "keyring" \in Faults THEN {FALSE} ELSE {}) :
       save' = [pc |-> "store", api |-> a, reg |-> ReadRegistry, had |-> had]
  /\ UNCHANGED <<files, latest, pc, cmd>>

SaveApiSecret ==
  /\ save.pc = "store"
  /\ \/ secrets' = secrets \cup {save.api} /\ save' = [save EXCEPT !.pc = "write"]
     \/ "keyring" \in Faults /\ UNCHANGED secrets /\ save' = NoSave
  /\ UNCHANGED <<registry, auth, config, baseline, route, snapshot, catalogs, latest, pc, cmd>>

SaveApiRegistry ==
  /\ save.pc = "write"
  /\ LET listed == [save.reg EXCEPT !.accounts = @ \cup {save.api}]
     IN \/ registry' = listed /\ save' = NoSave
        \/ /\ "write" \in Faults
           /\ registry' \in AfterFailedWrite(registry, listed)
           /\ save' = [save EXCEPT !.pc = "undo"]
  /\ UNCHANGED <<auth, config, baseline, route, snapshot, catalogs, secrets, latest, pc, cmd>>

SaveApiUndo ==
  /\ save.pc = "undo"
  /\ \/ secrets' = IF save.had THEN secrets \cup {save.api} ELSE secrets \ {save.api}
     \/ "keyring" \in Faults /\ UNCHANGED secrets
  /\ save' = NoSave
  /\ UNCHANGED <<registry, auth, config, baseline, route, snapshot, catalogs, latest, pc, cmd>>

-----------------------------------------------------------------------------
(* The environment.                                                        *)

CodexMayRun == pc = "idle" \/ "codex" \in Interleave

\* A running Codex exchanges the refresh token in auth.json: only the newest
\* one is accepted, and the answer replaces it.
CodexRefresh ==
  /\ CodexMayRun
  /\ HasTokens(auth)
  /\ ConfigText(config).fileAuth
  /\ auth.token = latest[auth.owner]
  /\ latest[auth.owner] < MaxToken
  /\ auth' = [auth EXCEPT !.token = @ + 1]
  /\ latest' = [latest EXCEPT ![auth.owner] = @ + 1]
  /\ UNCHANGED <<registry, config, baseline, route, snapshot, catalogs, secrets, pc, cmd, save>>

\* The official login flow writes the new login over auth.json.
CodexLogin(p) ==
  /\ CodexMayRun
  /\ ConfigText(config).fileAuth
  /\ latest[p] < MaxToken
  /\ latest' = [latest EXCEPT ![p] = IF p \in KeyLogins THEN 0 ELSE @ + 1]
  /\ auth' = [owner |-> p, token |-> latest'[p]]
  /\ UNCHANGED <<registry, config, baseline, route, snapshot, catalogs, secrets, pc, cmd, save>>

\* The process dies between two steps: files stay as they are.
Crash ==
  /\ "crash" \in Faults
  /\ pc # "idle" \/ save.pc # "idle"
  /\ pc' = "idle"
  /\ cmd' = NoCommand
  /\ save' = NoSave
  /\ UNCHANGED <<files, latest>>

-----------------------------------------------------------------------------
(* The specification.                                                      *)

\* A Codex that was used before this tool: perhaps a login, any own config.
Init ==
  /\ registry = None
  /\ latest = [p \in Plus |-> 0]
  /\ auth \in [owner : Plus, token : {0}] \cup {None}
  /\ config \in {None} \cup
       [provider : {None}, model : BOOLEAN, defs : {{}}, keys : {{}}, fileAuth : BOOLEAN]
  /\ baseline = None
  /\ route = None
  /\ snapshot = [p \in Plus |-> None]
  /\ catalogs = {}
  /\ secrets = {}
  /\ pc = "idle"
  /\ cmd = NoCommand
  /\ save = NoSave

SaveCurrent ==
  \/ MarkInvalidBegin \/ SaveCurrentOfApi
  \/ SaveCurrentBegin \/ SaveCurrentSnapshot \/ WriteRegistry

Switch ==
  \/ \E t \in Conn : SwitchBegin(t)
  \/ SwitchSync \/ SwitchRead \/ SwitchBaseline \/ SwitchCatalog \/ SwitchToPlus
  \/ SwitchWriteConfig \/ SwitchWriteAuth \/ SwitchWriteRoute \/ SwitchCommit
  \/ UndoConfig \/ UndoAuth \/ UndoRoute \/ UndoCatalog \/ UndoRegistry

Delete ==
  \/ \E t \in Conn : DeleteBegin(t)
  \/ DeleteUnlist \/ DeleteSecret \/ DeleteCatalog \/ DeleteSnapshot \/ DeleteRelist

Repair == EnsureFileAuth \/ EnsureProviders \/ EnsureRoute

SaveApi ==
  \/ \E a \in Apis : SaveApiBegin(a)
  \/ SaveApiSecret \/ SaveApiRegistry \/ SaveApiUndo

Codex == CodexRefresh \/ \E p \in Plus : CodexLogin(p)

Next == SaveCurrent \/ Switch \/ Delete \/ Repair \/ SaveApi \/ Codex \/ Crash

Spec == Init /\ [][Next]_vars

-----------------------------------------------------------------------------
(* Properties.                                                             *)

Steps == {"idle", "commit", "snapshot", "sync", "read", "prepare", "catalog", "config",
          "auth", "route", "registry", "undoConfig", "undoAuth", "undoRoute", "undoCatalog",
          "undoRegistry", "unlist", "secret", "catalogGone", "file", "relist", "historyRoute"}

FileTypes ==
  /\ registry \in Registry \cup {None}
  /\ auth \in Auth \cup {None}
  /\ config \in Config \cup {None}
  /\ baseline \in Config \cup {None}
  /\ route \in Route \cup {None}
  /\ snapshot \in [Plus -> Token \cup {None}]
  /\ catalogs \in SUBSET Apis
  /\ secrets \in SUBSET Apis
  /\ latest \in [Plus -> Token]

Files == [config : Config \cup {None}, auth : Auth \cup {None},
          route : Route \cup {None}, catalog : BOOLEAN]
Command == [target : Conn \cup {None}, reg : Registry, prev : Files,
            nextConfig : Config \cup {None}, nextAuth : Auth \cup {None}, late : BOOLEAN]
ApiSave == [pc : {"idle", "store", "write", "undo"}, api : Apis \cup {None},
            reg : Registry, had : BOOLEAN]

\* Every file is absent or well formed, and so is what a command holds.
TypeOK ==
  /\ FileTypes
  /\ pc \in Steps
  /\ cmd \in Command
  /\ save \in ApiSave

\* Between commands, config.toml routes to the API connection the registry
\* calls active, and to the built-in provider when that is a ChatGPT account
\* (switch_local_codex_account writes one before the other and rolls back).
ActiveConnectionInstalled ==
  pc = "idle" =>
    LET r == ReadRegistry
    IN ConfigText(config).provider = IF ActiveIsApi(r) THEN r.active ELSE None

\* Between commands, the route the compatibility bridge reads names the
\* provider that config.toml selects.
RouteFollowsConfig ==
  pc = "idle" /\ route # None => route.provider = ConfigText(config).provider

\* chatgpt-config.toml is a ChatGPT config: no API provider is selected in it,
\* no bearer token kept, and it reads its login from auth.json.
BaselineIsPlusConfig ==
  baseline # None => baseline.provider = None /\ baseline.keys = {} /\ baseline.fileAuth

\* At every step, the only API key in config.toml is that of the connection
\* it selects: leaving a connection takes its key out of the file.
KeyOnlyWhileActive ==
  config # None => config.keys \subseteq {config.provider}

\* Between commands, what the panel lists can be switched to: a ChatGPT
\* account has its snapshot, an API connection its key.
ListedAccountsUsable ==
  pc = "idle" /\ save.pc = "idle" =>
    \A c \in ReadRegistry.accounts :
      IF c \in Plus THEN snapshot[c] # None ELSE c \in secrets

\* The active key always names an account of the list: no delete, roll-back or
\* crash leaves the registry pointing at an account that is gone.
ActiveIsListed ==
  ReadRegistry.active \in ReadRegistry.accounts \cup {None}

\* Between commands, the model catalog the config points at exists.
SelectedCatalogExists ==
  pc = "idle" /\ config # None => config.provider \in catalogs \cup {None}

RollsBack ==
  /\ pc \in {"undoCatalog", "undoRegistry"}
  /\ pc' = "idle"

\* A switch that fails, at whatever write, has put back every file it
\* replaced once it returns.
FailedSwitchRestores ==
  [][RollsBack => /\ config' = cmd.prev.config
                  /\ auth' = cmd.prev.auth
                  /\ route' = cmd.prev.route
                  /\ cmd.target \in Apis => (cmd.target \in catalogs') = cmd.prev.catalog
                  /\ ReadRegistry' = cmd.reg]_vars

\* The files hold connection t.
Installed(t) ==
  /\ ReadRegistry.active = t
  /\ config.provider = IF t \in Apis THEN t ELSE None
  /\ t \in Apis => t \in config.keys \cap catalogs
  /\ t \in Plus => auth = [owner |-> t, token |-> snapshot[t]]
  /\ route = [key |-> t, provider |-> config.provider]
  /\ ReadRegistry.accounts \cap Apis \subseteq config.defs

\* A switch that succeeds has installed one connection everywhere: the config
\* selects it, auth.json holds its login (for an API connection the ChatGPT
\* login stays), the route names it, and every listed API connection keeps
\* its provider table.
SwitchInstallsOneConnection ==
  [][pc = "registry" /\ pc' = "idle" => \A t \in Conn : t = cmd.target => Installed(t)']_vars

\* p's newest tokens are in auth.json or in its snapshot.
Held(p) ==
  \/ auth = [owner |-> p, token |-> latest[p]]
  \/ snapshot[p] = latest[p]

\* No step of any command loses the newest tokens of the ChatGPT account that
\* is active: the switch saves them before it replaces auth.json, and no
\* failure, roll-back or crash undoes that.
ActiveLoginKept ==
  [][\A p \in Plus :
       pc # "idle" /\ ReadRegistry.active = p /\ Held(p) => Held(p)']_vars

\* No write of config.toml drops the provider table of a listed API connection
\* (a roll-back may drop one the same switch added): chats created under a
\* connection can be opened as long as it is saved.
SavedProvidersStayDefined ==
  [][\A a \in Apis :
       /\ a \in ConfigText(config).defs \cap ReadRegistry.accounts
       /\ config' # config
       /\ pc # "undoConfig"
       => a \in ConfigText(config)'.defs]_vars

\* What the documents and comments say where the code does otherwise.

\* A switch away from an API connection keeps the newest tokens of the listed
\* ChatGPT account whose login auth.json retained meanwhile (README.md:42).
RetainedLoginKept ==
  [][\A p \in Plus \cap cmd.reg.accounts :
       /\ pc = "auth" /\ ActiveIsApi(cmd.reg)
       /\ auth # None /\ auth.owner = p /\ Held(p)
       => Held(p)']_vars

=============================================================================
