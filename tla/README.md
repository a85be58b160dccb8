# Verification of codex-status

codex-status is a Tauri panel that sits beside OpenAI's Codex.  It shows the
account's limits, switches Codex between ChatGPT accounts ("Plus") and
third-party API connections, keeps old chats usable across the two, and
restarts the official desktop client.  This directory holds TLA+ models of its
stateful parts, the TLC runs that check them on small instances, and the proofs
that hold for every instance.

Paths below are relative to the repository root (`src/` here).  `lib.rs` and
`history_bridge.rs` are in `src-tauri/src/`, `App.tsx` is in `src/`.

## 1. Inventory

| Component | Where | State | Operations |
|---|---|---|---|
| Account store | `lib.rs` 50-935, 1043-1220, 1376-1912 | `accounts/registry.json`, `accounts/<key>.auth.json`, `auth.json`, `config.toml`, the ChatGPT baseline, the history route, model catalogs, keys in the system keyring | save current, switch, delete, mark/clear invalid, save API connection, repair config |
| API provider configuration | `lib.rs` 764-1041 | entries of `config.toml` | configure provider, retain provider tables, redact keys, write catalog |
| Session history bridge | `history_bridge.rs` | the route read at start, one status file, rollout files and their backups | forward, rewrite or refuse a request; sanitize a rollout |
| Switch and login flow | `App.tsx` 1599-1671, 2152-2689 | React state: registry copy, flow, busy flags | switch, verify, roll back; start, cancel, complete login; delete |
| App-server shell client | `src/lib/tauri-shell.ts`, `App.tsx` 1451-1463, 1744-1804 | child process, `closing`, pending requests, stdout buffer | connect, disconnect, request, close event |
| Thread history listing and backup | `src/lib/thread-history.ts`, `lib.rs` 219-318 | the listing being paged, backup files | list, compare, back up |
| Thread board | `src/lib/thread-board.ts`, `lib.rs` 1324-1372 | metadata file and the panel's copy | list, set metadata |
| Reset credits, usage refresh | `lib.rs` 502-705, `App.tsx` 1465-1573 | generation counter, time of the last attempt, credits shown | refresh, discard a late answer |
| Desktop client restart | `lib.rs` 1939-2237 | acknowledgement file | quit, relaunch, verify |
| Updater; floating window and tray | `App.tsx`, `lib.rs` | presentation | - |
| Vendored crates, generated types, scripts | `src-tauri/patches`, `src/generated`, `scripts` | - | - |

**How they interact.**  The panel calls the Tauri commands of `lib.rs` one
`invoke` at a time, but several invocations can be under way.  A synchronous
command runs to its end on the main thread; an `async` one
(`save_api_connection_profile`) runs on the tokio pool beside it, and nothing
locks the files.  Codex itself - a CLI, the desktop client, the panel's own
app-server - reads `auth.json` and `config.toml` and replaces `auth.json` when
it refreshes tokens or logs in.  The history bridge runs between the desktop
client and its app-server, one process per start of the client; the only thing
it shares with the panel is the route file, which the switch rewrites.

**What is hard.**  A switch is eight files long and has no journal: it relies
on hand-written roll-backs, of which the errors are ignored.  A refresh token
can be used once, so an old copy over the newest login loses the account.
Windows deletes the destination before the rename.  One command is async.  The
bridge compares routes read at two times, and swaps rollout files by two
renames.  The panel's client is replaced while answers, close events and
timeouts of the old one are still to come.

**What makes each component correct.**

- *Account store*: a switch installs one connection everywhere or nowhere;
  nobody's newest tokens are lost; what is listed can be switched to; the key of
  a connection is in `config.toml` only while it is in use; provider tables of
  saved connections stay, since old chats need them.
- *Bridge*: a request that reaches the runtime is for the connection the
  runtime was started with; a thread's rollout exists at every instant; its
  original is never lost; each refused request is answered.
- *Switch and login flow*: an account is marked invalid only by evidence about
  that account; a failed switch ends at the account it started from; a login is
  saved under the account that logged in.
- *Shell client*: each request is settled exactly once; a disconnect of an old
  child does not end a new one; at most one live app-server.
- *History listing*: a thread reported missing is missing; a backup is complete
  or reported.
- *Board, reset credits*: the panel ends with the state of the newest answer
  for the account now active.

## 2. Modules

| Module | What it is |
|---|---|
| `AccountStore` | the files of the store and every command that changes them, one action per file written |
| `ConnectionDirectory` | what the store promises when commands are single steps |
| `AccountStoreRefinement` | the mapping from the first to the second |
| `AccountStoreProofs` | TLAPS proofs about `AccountStore`: types, the registry, the newest login |
| `AccountStoreRollbackProofs` | TLAPS proofs about `AccountStore`: roll-backs, what is installed between commands, the refinement of `ConnectionDirectory` |
| `MCAccountStore` | instance for TLC; one `.cfg` per run |
| `HistoryBridge` | the bridge between client and runtime: its two threads, the panel's switch as far as it shares files with it, the runtime and the client as the bridge sees them |
| `HistoryBridgeProofs` | TLAPS proofs about `HistoryBridge` |
| `HistoryBridgeFilesProofs` | TLAPS proofs about the files, the resumed chats and the status in `HistoryBridge` |
| `ShellClient` | the panel's client of an app-server it spawns, and the process with its pipes |
| `RequestTable` | what `request()` of that client promises to its caller |
| `ShellClientProofs` | TLAPS proofs about `ShellClient`, the refinement of `RequestTable` among them |
| `SwitchFlow` | the panel's async handlers for switching, connecting, logging in, saving and deleting, over `ConnectionDirectory` |
| `SwitchFlowProofs` | TLAPS proofs about `SwitchFlow` |
| `ThreadHistory` | listing, backing up and comparing the chats of a server that goes on changing |
| `ThreadHistoryProofs` | TLAPS proofs about `ThreadHistory` |
| `ResetCredits` | the reset credits shown, over switches, logins and late answers |
| `ResetCreditsProofs` | TLAPS proofs about `ResetCredits` |
| `MC...` | an instance of each for TLC; one `.cfg` per run |

**How they compose.**  `AccountStore` implements `ConnectionDirectory`, whose
actions are the store commands that `SwitchFlow` calls.  `ShellClient`
implements `RequestTable`; `SwitchFlow` has each client as the phases its
`connect` goes through.  `ThreadHistory` is what the steps `SwitchBacksUp` and
`SwitchReviews` of `SwitchFlow` do; `ResetCredits` has the switch as the steps
that change what it asks for.

### AccountStore and the code

| Variable | File or state |
|---|---|
| `registry` | `accounts/registry.json`: active key and listed keys |
| `auth` | `auth.json`: the account logged in and how new its tokens are |
| `config` | `config.toml`: provider selected, whether `model` is set, provider tables and bearer tokens of our connections, whether credentials are kept in files |
| `baseline` | `status-floater/chatgpt-config.toml` |
| `route` | `status-floater/active-history-route.json` |
| `snapshot` | `accounts/<key>.auth.json` of each account |
| `catalogs`, `secrets` | model catalogs on disk, API keys in the keyring |
| `latest` | the newest tokens OpenAI issued to each account (ghost) |
| `pc`, `cmd` | the step and the locals of the synchronous command under way |
| `save` | the same for `save_api_connection_profile` after its network test |

Each command is a `...Begin` action that reads the registry and checks the early
returns, then one action for every file it writes or removes, in the order of
the code.  `Write` is `write_private_file` in a command: it succeeds, or fails
and leads to the command's error path.  `AfterFailedWrite` says what a failed
one leaves behind: the old content; the new one, when the `chmod` after the
rename fails ("landed"); or, on Windows, nothing, when the rename fails after
the destination was removed.  `Restore` is a roll-back, whose error the code
only reports.  `Crash` keeps the files and drops the locals.

Which failures a behaviour may have is the constant `Faults`, so that a run
states under which failures a property holds; what may run between two steps of
a command is `Interleave`; `Windows` picks the branch of `replace_json_file`.
Reads of a file that exists succeed.  `harden_private_file` (permissions) and
texts are left out.  `last_used_at` and the invalid flags of an account are not
kept: `AuthsForApi` therefore takes the login of *any* saved account where the
code takes the one used last (timestamps have a resolution of one second).
An account of `Plus` is one `chatgpt_account_id`, by which the code tells the
owner of `auth.json` (`lib.rs:1152-1165`).  Two users of one workspace share it:
to the code, and here, they are one account, of which each save overwrites the
snapshot of the other user.

`ConnectionDirectory` has a list, an active connection, the provider and the
login of Codex, and one action per command.  In the mapping a switch takes
effect when the registry is written and a deletion when the credential is gone;
until then, the values are those the roll-back would restore.

### HistoryBridge and the code

| Variable | File or state |
|---|---|
| `config`, `before`, `route` | `config.toml` with `auth.json`, what a switch under way has replaced, `active-history-route.json` |
| `meta`, `rollout` | of each chat: the provider in its first `session_meta`, its response items |
| `strays`, `backup` | `.status-floater-original-*.tmp`, `history-compat-backups/<id>.before-cross-provider.jsonl` |
| `runtime`, `initial` | the configuration the runtime loaded, `initial_route` |
| `pc`, `cur` | the step of the stdin thread and the locals of the request it handles |
| `out` | the line the stdout thread has shown and not relayed yet |
| `inbox`, `wire`, `events` | the bridge's stdin, the runtime's stdin and stdout |
| `waiting`, `busy`, `loaded`, `running` | what the client waits for; the turns it has not seen end; the chats and turns of the runtime |
| `status` | `desktop-bridge-status.json` |
| `turns`, `original`, `calm` | ghosts: turns so far, what a chat held at first, whether no switch was under way while the bridge started |

The stdin thread is one action per read or write another process can see:
`Take` (status), `CheckRoute`, `Scan`, `BackUp`, then
`write_recoverable_replacement` as `Displace`, `Install`, `Discard`, then
`Forward`.  Every error path is a `Refuse`.  `Exit` may happen between any two:
the client quits or is killed by a restart.  A response item is its turn, its
kind and who made it: a message, a tool or reasoning item, or one with ids of a
foreign format.  A fork is a resume as far as the bridge is concerned; requests
that are neither resume, fork nor `turn/start` change no state here.

The runtime reports the start of a turn, its errors (`RuntimeReportsError`, to
be retried or not) and its end; `Shown` is what `server_bridge_status` makes of
each.  An error that is not retried is shown as `failed`, although the turn ends
only with `turn/completed`.  Of `error` notifications the count of retries and
the text are left out.

Runtime and client are external.  The model assumes of them what the code
relies on: the runtime reads its configuration once, appends a turn's items to
the chat's file by its name, never changes `session_meta`
(`history_bridge.rs:106-110` is about exactly that); the client does not resume
a chat while it waits for another answer or for the end of a turn.  The panel
does not die during a switch: what a crash leaves behind is `AccountStore`'s
subject, and `PrepareBridge` writes the route again before the next start.

### ShellClient and the code

| Variable | State of `tauri-shell.ts` |
|---|---|
| `phase`, `command` | the await at which `connect` is, and the command line it tries |
| `child`, `closing`, `buffer`, `nextRequestId` | the fields of these names; `buffer` holds the first part of at most one line |
| `pending`, `timers`, `promise` | the keys of `this.pending`, the requests with an armed timeout, what each promise became |
| `heard`, `told`, `left` | what the panel was handed: notifications, calls of `onDisconnect`; whether it has disconnected |
| `process`, `received`, `reply`, `notices` | the app-server (external) |
| `sending`, `stdout`, `closed` | the pipes (external): lines being written, pieces not yet read, whether the close event came |

Every handler of an event (`Chunk` is `handleStdout`, `Close` the close event,
`Timeout` a timer) and every stretch of `connect` between two awaits
(`Connect`, `SpawnFails`, `Spawned`, `Initialized`, `Announced`,
`ConnectFails`) is one action; `Request`, `SendFails` and `Disconnect` are
`request` with its `catch` and `disconnect`.  A line is printed in two pieces,
since `handleStdout` is called with whatever was read; the process may end
between the two, and may end before `spawn` resolves.

### SwitchFlow and the code

| Variable | State of `App.tsx` |
|---|---|
| `listed`, `active`, `selected`, `login` | the store, as in `ConnectionDirectory` |
| `invalid` | the connections marked "log in again" in `registry.json` |
| `shown` | the active key in `authRegistry`, the panel's copy |
| `clientRef`, `state`, `launching` | `clientRef.current`, `connectionState`, `isLaunching` |
| `phase`, `loaded`, `by` | each client: how far its connect has come, the configuration its app-server read, which handler waits for it |
| `sw`, `prep`, `cancel`, `saving` | `handleSwitchAccount`, `handleStartAccountLogin`, `handleCancelAccountLogin`, `handleSaveApiConnection`: the await each is at, and its locals |
| `flow` | `accountLoginFlow`: the id of the login it shows |
| `attempt` | each login: open in the browser, written to `auth.json` by Codex (external), or recorded by `handleAccountLoginCompleted`, which goes on to clear a mark |
| `suspect` | ghost: the marked connections that nobody has logged in as since |

An action is what a handler does from one await to the next.  `SwitchReplaces`
with `SwitchConnects`, `SwitchChecks`, `SwitchSaves`, `SwitchVerified` and
`SwitchReviews` are the body of `handleSwitchAccount`; `Fail` is the entry of
its `catch`, after which the same steps run with `undoing` set, and `SwitchEnds`
its end.  `SwitchBacksUp` comes before them all.  `BeginConnect`, `Open`,
`Refreshed` and `ConnectFails` are `connectToServer`; `DropClient` is
`disconnectClient`.  A failing request is a disjunct of the step that waits for
it, or an action of its own.  A store command is one step, which
`AccountStoreRollbackProofs` justifies.

A login goes through three steps that anything may come between: Codex writes
`auth.json` (`LogsIn`), the notification arrives and the login is saved
(`LoginCompleted`), a mark is cleared (`LoginClears`).  It is one of several:
the flow may have been cancelled, so that no flow is shown, or another login
begun, with whose flow shown the handler returns at once.  `CancelAnswered` ends
whichever flow is shown by then, as `handleCancelAccountLogin` does.  With its
app-server a login ends, and nobody is notified of what it wrote.

An API connection is saved in two steps: `SaveApi` is the check at the entry,
`ApiSaved` what follows the await, during a switch as well.  The command's work
is one step there; that it writes a registry read earlier is in `AccountStore`
(`Interleave = {"save"}`).

Left out are `handleSaveCurrentAccount` and the account to be logged in again,
which only messages name.  Of the panel's copy of the registry the model has the
active key; its list is taken to be the registry's.  Every notification carries
its login's id.  A completion resets `isStartingAccountLogin` (`App.tsx:1608`),
so a second login could be prepared beside one that is; the model has one
preparation at a time.

### ThreadHistory and the code

| Variable | State |
|---|---|
| `now`, `updated`, `place` | the chats of the app-server (external): when each was last updated, and in which directory its file is |
| `pc`, `round` | the step of the switch that protects the chats; switches so far |
| `listing`, `entries` | the locals of `listThreadHistory`: the place being paged, its cursor, the cursors seen; what it has found |
| `previous` | `previousHistory` of `handleSwitchAccount` |
| `todo`, `skipped` | the loop of `backup_thread_history` and its `skipped` |
| `initial`, `latest` | `<id>.initial.jsonl`, `<id>.latest.jsonl`: the time of the copied content |
| `changed`, `listed` | ghosts: what changed during the listing, what was there at its end |

`AskPage`, `ReadPage` and `PageFails` are one round of the loop of
`listThreadHistory`; `BackUpOne`, `BackupFails` and `BackupEnds` are the loop of
`backup_thread_history`; `Compare` is `compareThreadHistory` and `Stop` the
switch it stops.  `Update`, `Archive` and `DeleteChat` may come between any two.

### ResetCredits and the code

| Variable | State |
|---|---|
| `login`, `active` | the account of `auth.json`, the active key of `registry.json` |
| `shown` | the active key in `authRegistry`, the panel's copy |
| `generation`, `due`, `credits`, `failed` | `resetCreditsGenerationRef`, whether five minutes have passed since the last attempt, `resetCredits`, `resetCreditsError` |
| `request` | each invocation of `read_codex_reset_credits`: the generation it carries, the login it read |
| `phase`, `target`, `previous` | the switch, as far as it changes what is asked for |
| `told` | the notifications about the account still to come |
| `since` | ghost: the logins `auth.json` has held since the generation changed |

`Refresh` is `refreshResetCredits` up to its `invoke`, `ReadLogin` the command's
read of `auth.json`, `Answer` and `RequestFails` what follows the `await`;
`Forget` raises the generation and clears the credits, as each of the handlers
that call it does.

## 3. Runs

The runs of `AccountStore` use two ChatGPT accounts; each account's tokens are
issued at most `MaxToken = 1` time after the first (old and new are all the
properties tell apart).  Two accounts give a switch both its ends and a third party for the
login Codex makes meanwhile; two API connections (run `rollback`) give a switch
from API to API and a listed connection that is neither end.  Accounts that
play the same part are symmetric.

| Run | Failures | Result | What it shows |
|---|---|---|---|
| `rollback` | write, landed, keyring | pass | With an account that logs in by ChatGPT, one that logs in by key, two API connections: any write may fail. A failed switch puts every file back (`FailedSwitchRestores`), a successful one installs one connection everywhere (`SwitchInstallsOneConnection`), between commands registry, config and route agree, the baseline is a ChatGPT config, no key of another connection is in `config.toml`, tables of saved connections stay, the selected catalog exists. The store implements `ConnectionDirectory`. |
| `crash` | write, undo, crash | pass | On Unix: whatever is listed has its snapshot or its key (`ListedAccountsUsable`), the registry names no unlisted account (`ActiveIsListed`), the newest tokens of the active account survive every step (`ActiveLoginKept`). The theorems below extend the last two to Windows, `ActiveIsListed` to whatever overlaps a command, and the first to a Codex beside it. |
| `retained` | none | violation | `RetainedLoginKept`, see findings |
| `baseline` | crash | violation | `BaselineIsPlusConfig` |
| `bridge` | io, undo, kills | pass | What is forwarded is for the connection the runtime loaded (`ForwardedMatchesRuntime`); a chat it opens holds no item with foreign ids of another provider, and other private items of one only if it began with the provider it is opened for (`ResumedIsPortable`). No visible message is ever in no file (`MessagesKept`), nor anything a chat held before it was first normalized (`OriginalKept`). A chat is not shown as done while its next turn is under way, nor as completed before it is (`DoneIsDone`). Every request is answered (`RequestsAnswered`). |
| `genuine` | none | violation | `GenuineCallsKept` |
| `client` | command lines, writes, cut lines, exits, timeouts | pass | Table, timers and promises agree (`TableMatchesPromises`); a client that calls itself connected has a live process, even if one ended before `spawn` resolved (`OpenIsLive`); each unwanted end is reported once (`EndIsTold`); notifications come in order (`NoticesInOrder`); `RequestTable` is implemented; every request is settled (`RequestsSettled`). |
| `switch` | every check, command and client | pass | No app-server stays behind (`NoClientLeftBehind`); what is verified is what runs (`VerifiedIsLoaded`); a switch ends at the target, at the connection before, or with an error (`SwitchIsDecided`), and does end (`SwitchTerminates`); the connection to go back to stays listed (`PreviousStaysListed`); a login, its flow cancelled or not, ends no mark of a ChatGPT account nobody has logged in as since (`LoginClearsOwnMark`). |
| `loaded` | the connect button pressed during a switch | violation | `VerifiedIsLoaded` |
| `history` | failing writes, repeated cursors, chats that change | pass | A listing finds every chat that did not change (`UnchangedAreListed`) and ends (`ListingEnds`); no switch goes on without a backup (`SwitchIsBackedUp`); first copies are kept (`FirstCopyIsOldest`). |
| `credits` | late, reordered and failing answers | pass | No answer from before the panel last forgot is shown (`ShownIsRecent`); credits of another account are replaced (`ShownIsRenewed`). |
| `outdated` | none | violation | `ShownIsActive` |

Every property of a passing run has a mutant in `PROJECT.json`: a definition
changed as a plausible bug would, under which the property fails.

**Bounds.**  The bridge's runs have one chat, since the bridge handles one
request at a time and nothing but the queue relates two chats; one connection
of each kind, so that each switch crosses providers; and two turns, so that one
can follow another in one process or under another provider; a chat has at most
one error to be shown at a time.  The client has
three requests (`initialize` and two that can overtake each other), two command
lines (one that fails, one that works) and two notifications.  The switch runs
with two ChatGPT accounts and an API connection, which gives every kind of
switch but API to API (`rollback` has that), with two clients: the one in use
and the one being made, and with two logins: one whose flow was cancelled and
the one begun next.  The listing has two chats on pages of one, so
that each place has a page that is not the last; one of them has no readable
file; three times leave one update for a run that begins with two chats, two
for one that begins with one, and two switches make the second backup meet the
files of the first.  The credits have two requests under way and three changes
of the generation: a switch and its undo and one more switch, or a login, which
takes two.

**Fairness.**  `AccountStore` states none and no liveness property is checked
there: a command is straight-line code that ends by itself, and no command
waits for another.

- `HistoryBridge`: weak fairness for the two threads of the bridge, for its
  start, and for the runtime's loading and request loop - loops that block on
  input only.  None for the client, the panel, `Exit`, or the end of a turn,
  which may run for ever.
- `ShellClient`: weak fairness for the event loop of the window - the
  continuations of `connect`, writes, events, and each timer.  None for the
  process, which may never answer, never print and never end.
- `SwitchFlow`: weak fairness for the switch and for each connect, since every
  request times out (`RPC_TIMEOUT_MS`) and every command returns.  None for the
  user, the logins, nor an app-server's exit: no switch waits for them.
- `ThreadHistory`: the same for listing, backup and comparison; none for the
  chats, which may change for ever.
- `ResetCredits`: weak fairness for the timer (it runs while the panel counts
  as connected), for the five minutes, for each request (twelve seconds) and
  for notifications; none for the user and the switch.

**Deadlock** is checked in the runs of the store and of the bridge.  The others
say `CHECK_DEADLOCK FALSE`: a client ends, and the user may do nothing more.

**Limits of the passing runs.**  With failing roll-backs or a crash during a
switch, `ActiveConnectionInstalled` and its companions do not hold (run
`baseline` shows where that leads), which is why `rollback` excludes them.
With a failing keyring, `ListedAccountsUsable` does not hold: a key that cannot
be read looks like one that never was, and the roll-back deletes it
(`lib.rs:1587`, `1630`); on Windows a failed rename takes the snapshot with it.
Codex does not refresh `auth.json` during a command in any run: the code takes
no lock against it (`docs/account-switching.md:128` leaves other Codex processes
to the user).  Which properties hold all the same, the proofs say (section 4).

`ForwardedMatchesRuntime` is limited to a bridge that started while no switch
was under way (`calm`).  Otherwise it may read the new route while its runtime
has loaded the old connection, and nothing it reads later tells.
`ResumedIsPortable` and `DoneIsDone` say what the code guarantees, which is less
than one would wish: see the first two divergences without a run, below.
The run has no torn backups (`"torn"` in `Faults`): with them the first attempt
is refused and the next one takes the torn file for the backup
(`history_bridge.rs:408`); `OriginalKept` exempts such a chat.

`switch` leaves out two interleavings (`Interleave`): the connect button pressed
during a switch or a login, which is `loaded`; and a switch begun while a login
is being prepared or recorded, which connects twice in the same way.  With
either, `NoClientLeftBehind`, `VerifiedIsLoaded`, `SwitchIsDecided` and
`LoginClearsOwnMark` do not hold (a second app-server may log in while the
switch marks that account); `TypeOK` and `PreviousStaysListed` do, by proof.
`UnchangedAreListed` exempts a chat that changes during the listing: one that is
updated between two pages moves to the front, behind the cursor, and is missed.

### Findings

1. `retained`: tokens Codex refreshes while an API connection is active are
   overwritten by the older snapshot on the way back (`lib.rs:1763`), against
   `README.md:42` and `docs/account-switching.md:77`.
2. `baseline`: a crash between `config.toml` and `registry.json` lets the next
   switch keep the API config, key included, as the Plus baseline
   (`lib.rs:1865`), against `docs/account-switching.md:33`, `45`.
3. `genuine`: a chat begun under an API connection and continued under OpenAI
   loses OpenAI's own tool calls when resumed again (`history_bridge.rs:393`),
   against `CHANGELOG.md:15`; the first backup does not have them.
4. `loaded`: the connect button is enabled while a switch backs the chats up
   (`App.tsx:3272`); pressed then, it leaves two connects under way, and the
   switch may be verified against the app-server of the account that was left
   (`App.tsx:1784`, `2440`), against `docs/account-switching.md:130`.
5. `outdated`: the generation is raised when a switch begins, not when the files
   are replaced (`App.tsx:2403`, `2428`); a refresh in between asks for the old
   account's credits, which are then shown for up to five minutes, against
   `README.md:111`.

**Known divergences without a run.**  Each was reproduced on the models.

- Private items of another provider may be sent.  The bridge leaves a chat alone
  if its label, the provider in its first `session_meta`, names the provider of
  the request and no id in it is foreign (`history_bridge.rs:387-395`), whoever
  wrote what is in it: a chat labelled `openai` and continued under an API
  connection whose tool items have no `msg_` or `fco_` ids is resumed under
  OpenAI with them, and one labelled with an API connection and continued under
  OpenAI is resumed under that connection with OpenAI's.  With
  `Private(rollout[t], target) = {}` in its place, `ResumedIsPortable` is
  violated in 27 states, against `docs/account-switching.md:93` and
  `CHANGELOG.md:22` (only visible messages are replayed to the target) and `14`
  (items are told by their content, not only by the label).
- A chat may be shown as failed while its turn is still running, after an error
  that is not retried (`history_bridge.rs:290`); `turn/completed` follows and
  shows how it ended.  With `failed` in the last conjunct of `DoneIsDone`, beside
  `completed`, 19 states violate it.  `docs/account-switching.md:94` promises
  states that come from the notifications, which they do.
- A login that completes while another login's flow is shown is ignored
  (`App.tsx:1601`): Codex has written `auth.json`, but no snapshot is saved and
  the registry's active account stays the one before, against
  `docs/account-switching.md:57-58`.  It takes a cancellation that comes too
  late, and a second login.
- A `config.toml` without `model` makes every switch between ChatGPT accounts
  fail (`lib.rs:1867`), although the route "is required only when launching the
  compatibility bridge" (`lib.rs:954`).
- While an API connection is active "save current account" saves nothing and
  succeeds (`lib.rs:1728`), against `docs/account-switching.md:58`, `67-69`.
- An API connection saved during a switch writes back the registry it read
  before (`lib.rs:1560`), against `docs/account-switching.md:32`:
  `ActiveConnectionInstalled` fails with `Interleave = {"save"}`.
- After the key of an API connection is edited, the bridge lets requests through
  to a runtime with the old key (`history_bridge.rs:526`), against
  `history_bridge.rs:528` and `CHANGELOG.md:21`.
- When the credits cannot be read, the ones shown stay, with an error beside
  them (`App.tsx:1501-1507`), where `README.md:111` has the summary hidden.
- A chat updated between two pages of a listing is missed, where
  `docs/account-switching.md:90` has all pages read.

## 4. Proofs

`AccountStoreProofs` is checked by `tlapm`; the theorems hold for any finite or
infinite sets of accounts, any `MaxToken`, any `Faults`, both platforms.

- `TypeCorrect`: `Spec => []TypeOK`.  `TypeOK` is not inductive: a step uses
  locals that an earlier step must have set.  `TypeInv` adds `LocalsOK`, which
  says what the locals hold at each step.
- `ActiveLoginNeverLost`: `Spec => ActiveLoginKept`, assuming `Serial`
  (`Interleave = {}`).  The inductive invariant has three parts.  `RegistryInv`:
  one command at a time, and the registry on disk is the one the command read
  until its last write.  `LoginInv`: no login, on disk or held in memory for a
  write or a roll-back, is older than a snapshot that is newest.  `SyncedInv`:
  after the sync, a newest login of the account being left or installed is also
  in its snapshot, so replacing `auth.json` loses nothing - nor does putting an
  old one back.  `HeldStep` draws the action property from it.
- `ActiveAccountListed`: `Spec => []ActiveIsListed`, with no hypothesis: any
  overlap, any failure, both platforms.  Here `RegistryInv` is of no use, since
  with overlaps the registry on disk is not the one a command read.  `ListInv`
  says instead that *every* list, on disk or held by a command, has its active
  account, and that a command's target is in the list it will write.

`AccountStoreRollbackProofs` goes on from there, with hypotheses on which
overlaps and failures a behaviour may have:

| Hypothesis | Meaning | Theorems |
|---|---|---|
| `OneWriter`, `Reliable` | no second command; no crash, roll-backs succeed, Unix | `ActiveIsInstalled`, `RouteIsInstalled`, `BaselineStaysPlus`, `KeysLeaveWithConnection`, `CatalogIsInstalled` |
| `Serial`, `Reliable` | besides, no Codex that writes `auth.json` during a command | `FailedSwitchUndone`, `SwitchInstalls`, `StoreImplementsDirectory` |
| `OneWriter`, `CleanFailures` | no second command; no write that fails after the rename, no failing keyring, Unix; crashes and failing roll-backs are allowed | `ListedStayUsable` |
| `OneWriter`, `~Windows` | no second command, Unix; any failure | `SavedProvidersKept` |

What each hypothesis excludes does break its properties (section 3 has the
runs' limits).  In short: two commands that overlap lose an
update of the registry (`lib.rs:1560`); a crash or a failed roll-back leaves a
switch half done, which run `baseline` follows to its end; on Windows a failed
write may have removed the file it should replace, `config.toml` included; and
a Codex that refreshes its login between the sync and the replacement
(`lib.rs:1866`) makes the login put back, or installed, not the newest one,
which only the properties that compare logins notice.

- `SettledCorrect` has the inductive invariant of the first eight:
  `TypeInv`, `RegistryInv` and `StoreInv`.  What the properties say of the files
  between two commands is false during a switch, which replaces one file after
  the other.  `CommittedInv` therefore says it of the *committed* content: of
  each file, what it was before the switch while a roll-back could still put it
  back, and what it is otherwise.  That this is what the roll-back finds to put
  back is `BackupInv`: a file the switch has not replaced, or has restored, is
  as it was read.  That committing makes the new files fit together is
  `InstallInv`: what the switch is about to install, and what of it is written.
  `PendingInv` ties the registry the command will write to the one on disk.
  `BaselineIsPlusConfig` and `KeyOnlyWhileActive` hold at every step and are
  conjuncts as they stand; the first needs `CommittedInv`, since the baseline is
  copied from a config the registry says is a ChatGPT one.
- `StoreImplementsDirectory`: `Spec => ImplementsDirectory`.  The lemma
  `Outcomes` sorts the steps by what they do to the mapped state: they leave it
  alone, install a connection, change the list, repair the config, or log in.
  Each of the five is a step of the directory, or a stutter.
- `FailedSwitchUndone` and `SwitchInstalls` are read off `BackupInv` and
  `InstallInv` at the last step of a roll-back and of a switch.
- `ListedStayUsable`: `UsableInv` says of the list on disk, and of the one a
  command will write, that each account has its snapshot and each connection its
  key - at a deletion, that the account is off the list before its credential
  goes.
- `SavedProvidersKept`: `DefsInv`, the config a switch is to write has the
  tables of all connections it read in the registry.

Assumptions on constants are `AccountAssumption` (API connections are not
accounts, `None` is neither), `FaultAssumption` (ranges) and `NoneAssumption`
(an absent file is no content).

`HistoryBridgeProofs`, for any connections, chats, keys and `Faults`:

- `TypeCorrect`: `Spec => []TypeOK`.  `TypeInv` has four parts (panel, chats,
  queues, stdin thread), so that each step is proved for one part at a time;
  `LocalsOK` says what the stdin thread holds at each step and that a turn
  runs only in a runtime that has loaded its configuration.
- `ForwardedIsLoaded`: `Spec => []ForwardedMatchesRuntime`.  The invariant
  `RouteMatch` relates the route file to the configuration through a switch
  (`RouteInv`), the route read at start to the configuration loaded, or yet to
  be loaded (`StartInv`), and both to the route a request is handled with and
  to the requests queued for the runtime (`ForwardInv`).

`HistoryBridgeFilesProofs`, on top of it and under the same assumptions:

- `OneAtATime` is the invariant the others need.  At most one request of a chat
  is under way anywhere between client and runtime (`QueuesInv`, `HandledInv`);
  a chat with a turn, or with the end of one still to be shown, waits for
  nothing and counts as busy (`TurnsInv`).  So no turn writes to a rollout while
  it is being replaced, because the client asks nothing of a chat whose turn it
  has not seen end: the bridge itself has no guard against it.
- `EveryMessageKept`: `Spec => []MessagesKept`, and `EveryOriginalKept`:
  `Spec => []OriginalKept`, for every combination of `Faults`.  `ScannedInv`
  says that what the thread holds is what the files are at each step of the
  replacement, `BackupInv` that a chat's first content is in its rollout until
  it is in its backup.
- `EveryResumeIsPortable`: `Spec => ResumedIsPortable`.  `Portable` judges a
  content by who wrote its items, as the property does; the lemma
  `PortableContent` is where the bridge's own test, which knows the label and the
  ids only, is shown to be enough for it.  `PortableInv`: a chat is portable from
  its scan, or replacement, through the queue to its opening, although turns of
  any provider are written to it before and after.
- `ShownDoneIsDone`: `Spec => []DoneIsDone`.  It is inductive with `OneAtATime`,
  of which it needs the order of a chat's notifications: in `events` and `out`
  a start comes first and an end last, with the errors between (`EventsInv`,
  `OutInv`).

Assumptions: `BridgeAssumption` (disjoint constants) and `NoneAssumption`
(`None` is no configuration).  All but `ShownDoneIsDone` have the hypothesis
`AbsentIsNoContent` as well: `None`, the mark of an absent file, is not itself a
file's content.  It is a hypothesis and not an `ASSUME` because TLC cannot
compare a model value with the subsets of an infinite set.

`ShellClientProofs`, for any number of command lines, requests and
notifications:

- `TypesKept`: `Spec => []TypeOK`.
- `TableImplemented`: `Spec => ImplementsRequestTable`, every behaviour of the client is one
  of `RequestTable`.  The lemma `Moves` says that every step moves the table in
  one of four ways - a request is made, one outcome is given, all that is open
  fails, nothing changes - so that the refinement and `TableKept` are proved of
  the four ways and not of seventeen actions.  The invariant that makes the
  mapping sound is `StreamsTrue`: an answer in the pipe or in the buffer is the
  one the process gave to the request it names.  `Numbered` has the requests
  made in order, `Served` those answered among those made.
- `TableKept`: `Spec => []TableMatchesPromises`, from `Moves`.
- `OpenKept`: `Spec => []OpenIsLive`, from `Opened`: a process whose end was
  reported had read nothing before `spawn` resolved, so `initialize` was not
  answered, and `closed` clears `child`.
- `EndKept`: `Spec => []EndIsTold`, from `Told`, which relates `told` to
  `closed`, `closing` and `left`.
- `NoticesKept`: `Spec => []NoticesInOrder`.  `NoticesInv` has three parts.
  `Framed`: pieces alternate, and the buffer holds the first piece of the line
  of which the rest comes next, unless `disconnect` threw it away.  `Ordered`:
  what is still in the pipe was sent after what was heard, each once.
  `Complete`: until the panel disconnects or `connect` fails, each notification
  sent and not heard has the end of its line in the pipe, but for the one the
  end of the process cut short.

`ThreadHistoryProofs`, for any finite set of chats, page size, number of
switches and both faults:

- `ListedUnchanged`: `Spec => []UnchangedAreListed`.  The invariant says, of
  each chat that did not change, that it is in `entries` with its place, or
  that it is still ahead: in the place being listed and after the cursor, or in
  the place that is listed next.
- `BackedUp`: `Spec => []SwitchIsBackedUp`.  A chat of `previous` is still in
  `todo`, or skipped for a reason, or copied at a time not before the listing's.
- `OldestFirst`: `Spec => []FirstCopyIsOldest`.

`ResetCreditsProofs`: `RecentCredits`, `Spec => []ShownIsRecent`, for any
accounts, requests and switches.  The invariant: a request that carries the
current generation has read a login that is in `since`, and `since` holds the
login that `auth.json` has now.

`SwitchFlowProofs`, for any accounts, connections and clients:

- `TypeCorrect`: `Spec => []TypeOK`, from `TypeInv`, which adds that Codex has a
  login and that the active connection and the one shown are listed.
- `PreviousListed`: `Spec => []PreviousStaysListed`, whatever interleaves; it is
  inductive with `TypeInv`.  A list only grows during a switch, since no account
  can be deleted, and what the panel shows as active is listed when one begins.
- `NoneLeftBehind`, `VerifiedLoads`, `SwitchDecided`:
  `Spec => []NoClientLeftBehind`, `Spec => VerifiedIsLoaded`,
  `Spec => SwitchIsDecided`, assuming `Serial` (`Interleave = {}`; run `loaded`
  shows what happens otherwise).  `ClientsInv`: the client in use is the only
  one connected, none is in use while one is being made, and `isLaunching` is
  set meanwhile - which is what forbids a second connect.  `HandlersInv`: at
  which awaits of a switch or a login no client is being made.  `PlacedInv`:
  from the replacement on, the files and every client are at the goal of the switch.
- `OwnMarkCleared`: `Spec => LoginClearsOwnMark`, assuming `Serial`.
  `HeldByClient`: a login that is open or written belongs to a connected client.
  `SettledInv`: none is open or written from the replacement on, where the client
  has been disconnected, or once a failure is to be marked.  `OwnLogin`: while a
  written login waits to be notified, the login in `auth.json` - which may be a
  later one's - is nobody's who is marked and has not logged in since.

The assumptions on constants are `ShellAssumption` (there is a command line, a
request; `None` is no message), `HistoryAssumption` (finitely many chats, pages
of at least one), `CreditsAssumption` and `SwitchAssumption` (disjoint sets).

**Only model-checked.**  Every safety property of a passing run is a theorem
above, and so are both refinements.  Liveness (`RequestsAnswered`,
`RequestsSettled`, `SwitchTerminates`, `ListingEnds`, `ShownIsRenewed`) is out
of the prover's reach.  The properties of the five runs that expect a violation
are false of the code.

## 5. Not modelled

Of the 54,878 lines of implementation about 41,000 are vendored crates
(`src-tauri/patches`: Tauri, tauri-utils and cookie, patched in a few places),
and most of the rest of what is not the panel's own is generated
(`src/generated`).  The program's own code is about 8,700 lines, of which nearly
half lays out the window.  The share of all lines that is mapped is therefore
small whatever is modelled.  Not modelled:

- *Vendored crates, generated types*: third-party or without behaviour.
- *Thread board*: one metadata file, written whole by one synchronous command;
  what can go wrong is an answer that replaces a newer edit on the screen until
  the next one, which `PROJECT.json` lists as a hazard.
- *Desktop client restart*: `osascript` and PowerShell calls with polling; what
  matters to the files is in `HistoryBridge` (`Exit` at any moment, the route
  prepared before the next start).
- *Official login flow* beyond the steps in `SwitchFlow`: the browser's part.
- *Updater, floating window and tray, build and check scripts*: they keep no
  state that a property here is about.
- *The WebSocket client* (`codex-app-server.ts`): not reachable in the Tauri
  build, which always takes the shell client.

## 6. Plan

1. **Account store** - done: `AccountStore`, `ConnectionDirectory`, proofs.
2. **History bridge** - done: `HistoryBridge`, all its safety properties
   proved; of error notifications the count of retries is left out.
3. **Switch and login flow** - done: `SwitchFlow`, its safety proved.
4. **Shell client** - done: `ShellClient`, `RequestTable`, refinement proved.
5. **Thread history** - done: `ThreadHistory`, its safety proved.
6. **Reset credits** - done: `ResetCredits`; the board is left out (section 5).
7. **Left**: nothing of the runs' safety properties is left to prove.  Next
   would be the converse of the table in section 4, for Windows: what a failed
   rename leaves of each property.
