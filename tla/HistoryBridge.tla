---------------------------- MODULE HistoryBridge ----------------------------
(***************************************************************************)
(* The session history bridge (src-tauri/src/history_bridge.rs): a process *)
(* between the desktop client and its Codex runtime.  It refuses requests  *)
(* once the panel has switched connection, and before an old chat is       *)
(* resumed under another provider it replaces the chat's rollout by its    *)
(* portable part.                                                          *)
(*                                                                         *)
(* run_upstream has two threads: the stdin thread (pc, cur) handles the    *)
(* client's requests one at a time, the stdout thread (out) relays the     *)
(* runtime's messages.  The panel's switch is reduced to the two files it  *)
(* shares with them: the configuration the runtime loads and the route.    *)
(***************************************************************************)
EXTENDS Naturals, Sequences

CONSTANTS
  Plus,      \* the ChatGPT accounts
  Apis,      \* the API connections, each with a provider of its own
  Threads,   \* the chats
  None,      \* an absent file, nothing under way
  MaxTurns,  \* bound: turns of a chat
  Keys,      \* bound: the keys a connection may be given over time
  Faults     \* "io": a read, write, rename or removal fails; "undo": the rename
             \* back fails; "torn": a backup that fails is partly written

OpenAI == "openai"
Conn == Plus \cup Apis
Provider(c) == IF c \in Apis THEN c ELSE OpenAI
Providers == Apis \cup {OpenAI}

ASSUME BridgeAssumption ==
  /\ Plus \cap Apis = {}
  /\ OpenAI \notin Apis
  /\ None \notin Conn \cup Threads \cup Providers
  /\ MaxTurns \in Nat \ {0}
  /\ Keys # {}
  /\ Faults \subseteq {"io", "undo", "torn"}

(***************************************************************************)
(* A rollout is its session_meta, which keeps the provider the chat began  *)
(* with (variable meta), and its response items: of each turn the visible  *)
(* messages and perhaps tool or reasoning items.  Those of an API provider *)
(* may have ids ("msg_", "fco_") that OpenAI rejects: kind "foreign".      *)
(* Messages are the same for every provider (by is None).                  *)
(***************************************************************************)
Item == [turn : Nat, kind : {"message", "tool", "foreign"},
         by : Providers \cup {None}]
Content == SUBSET Item
Loaded == [conn : Conn, key : Keys]

ASSUME NoneAssumption == None \notin Loaded

VARIABLES
  config,   \* the connection config.toml and auth.json hold, and its key
  before,   \* while a switch may still be undone: the config it replaced
  route,    \* active-history-route.json: the connection
  meta,     \* the provider in each chat's session_meta
  rollout,  \* each chat's rollout file
  strays,   \* the originals moved aside (.status-floater-original-*.tmp)
  backup,   \* <thread>.before-cross-provider.jsonl
  turns,    \* how many turns each chat has had
  original, \* what each chat held before any bridge ran
  runtime,  \* the configuration the running Codex runtime loaded
  initial,  \* initial_route
  calm,     \* no switch was under way while this bridge started
  loaded,   \* the chats the runtime has opened
  running,  \* the chats with a turn under way
  waiting,  \* the request each chat of the client waits for
  busy,     \* the chats whose turn the client has not seen end
  inbox,    \* requests on the bridge's stdin
  wire,     \* requests on the runtime's stdin, with the connection they name
  events,   \* the runtime's notifications, on its stdout
  out,      \* the notification the stdout thread is relaying
  status,   \* desktop-bridge-status.json
  pc,       \* the step the stdin thread is at
  cur       \* what it holds: the request, the route and the content it read,
            \* the content it moved aside

panel == <<config, before, route>>
chats == <<meta, rollout, strays, backup, turns, original>>
process == <<runtime, initial, calm>>
codex == <<loaded, running, wire, events>>
client == <<waiting, busy, inbox>>
vars == <<panel, chats, process, codex, client, out, status, pc, cur>>

Idle == [thread |-> None, kind |-> "none", route |-> None, seen |-> {}, moved |-> {}]
NoStatus == [state |-> "none", thread |-> None]

-----------------------------------------------------------------------------
(* scan_rollout.                                                           *)

Sanitized(content) == {i \in content : i.kind = "message"}
HasForeignIds(content) == \E i \in content : i.kind = "foreign"

\* Mutant: the recorded provider is trusted, as it was before 0.1.19.
LeavesLabelled(content, recorded, target) ==
  Sanitized(content) = content \/ recorded = target

\* sanitize_cross_provider_history leaves a rollout alone.
LeavesAlone(content, recorded, target) ==
  \/ Sanitized(content) = content
  \/ recorded = target /\ ~ HasForeignIds(content)

\* Mutant: the route is checked when a chat is opened, not for each turn.
SameRouteOnResume == cur.kind = "turn" \/ (route # None /\ route = initial)

\* The route now on disk is the one this bridge started with.
SameRoute == route # None /\ route = initial

-----------------------------------------------------------------------------
(* The panel.                                                              *)

\* A switch replaces the configuration, then the route; until then it may fail
\* and put the configuration back.  (When the registry cannot be written after
\* that it puts both back, as a switch to the connection before would.)  A
\* connection whose key was edited is switched to again (handleSaveApiConnection
\* does so at once if it is the active one).
SwitchConfig(c, key) ==
  /\ before = None
  /\ before' = config
  /\ config' = [conn |-> c, key |-> key]
  /\ calm' = (calm /\ pc # "spawned" /\ (pc = "down" \/ runtime # None))
  /\ UNCHANGED <<route, chats, runtime, initial, codex, client, out, status, pc, cur>>

SwitchRoute ==
  /\ before # None
  /\ route' = config.conn
  /\ before' = None
  /\ UNCHANGED <<config, chats, process, codex, client, out, status, pc, cur>>

\* Mutant: the roll-back runs although no file was saved for it.
UndoAlways ==
  /\ config' = before
  /\ before' = None
  /\ UNCHANGED <<route, chats, process, codex, client, out, status, pc, cur>>

SwitchUndo ==
  /\ before # None
  /\ config' = before
  /\ before' = None
  /\ UNCHANGED <<route, chats, process, codex, client, out, status, pc, cur>>

\* Before the panel restarts the client it writes the route once more and
\* removes the status.  Like the switch this is a synchronous command.
PrepareBridge ==
  /\ before = None
  /\ route' = config.conn
  /\ status' = NoStatus
  /\ UNCHANGED <<config, before, chats, process, codex, client, out, pc, cur>>

-----------------------------------------------------------------------------
(* Start and end of the bridge.                                            *)

\* The client starts the bridge, when the panel restarts it or by itself; the
\* runtime is spawned and the acknowledgement written.
Spawn ==
  /\ pc = "down"
  /\ pc' = "spawned"
  /\ calm' = (before = None)
  /\ UNCHANGED <<panel, chats, runtime, initial, codex, client, out, status, cur>>

ReadInitialRoute ==
  /\ pc = "spawned"
  /\ initial' = route
  /\ pc' = "idle"
  /\ UNCHANGED <<panel, chats, runtime, calm, codex, client, out, status, cur>>

\* The client, and with it the bridge and the runtime, quits or is killed by a
\* restart, at any moment; files stay as they are.
Exit ==
  /\ pc # "down"
  /\ pc' = "down"
  /\ cur' = Idle
  /\ runtime' = None /\ initial' = None
  /\ loaded' = {} /\ running' = {} /\ wire' = <<>> /\ events' = <<>>
  /\ waiting' = [t \in Threads |-> "none"] /\ busy' = {} /\ inbox' = <<>>
  /\ out' = None /\ calm' = FALSE
  /\ UNCHANGED <<panel, chats, status>>

-----------------------------------------------------------------------------
(* The stdin thread.                                                       *)

\* Mutant: the request is dropped without a reply.
Drop(t) == pc' = "idle" /\ cur' = Idle /\ UNCHANGED client

\* An error reply; the request is dropped.
Refuse(t) ==
  /\ waiting' = [waiting EXCEPT ![t] = "none"]
  /\ busy' = IF cur.kind = "turn" THEN busy \ {t} ELSE busy
  /\ pc' = "idle"
  /\ cur' = Idle
  /\ UNCHANGED inbox

\* A line is read; its status is written before anything is decided.
Take ==
  /\ pc = "idle"
  /\ inbox # <<>>
  /\ LET r == Head(inbox)
     IN /\ cur' = [thread |-> r.thread, kind |-> r.kind, route |-> None, seen |-> {}, moved |-> {}]
        /\ status' = [state |-> IF r.kind = "resume" THEN "preparing" ELSE "working",
                      thread |-> r.thread]
  /\ inbox' = Tail(inbox)
  /\ pc' = "route"
  /\ UNCHANGED <<panel, chats, process, codex, waiting, busy, out>>

\* The route is read again.
CheckRoute ==
  /\ pc = "route"
  /\ \/ ~ SameRoute /\ Refuse(cur.thread)
     \/ /\ SameRoute
        /\ pc' = IF cur.kind = "resume" THEN "scan" ELSE "forward"
        /\ cur' = [cur EXCEPT !.route = route]
        /\ UNCHANGED client
  /\ UNCHANGED <<panel, chats, process, codex, out, status>>

\* The rollout is read and scanned.
Scan ==
  /\ pc = "scan"
  /\ LET t == cur.thread
     IN \/ (rollout[t] = None \/ "io" \in Faults) /\ Refuse(t)
        \/ /\ rollout[t] # None
           /\ pc' = IF LeavesAlone(rollout[t], meta[t], Provider(cur.route))
                      THEN "forward" ELSE "backup"
           /\ cur' = [cur EXCEPT !.seen = rollout[t]]
           /\ UNCHANGED client
  /\ UNCHANGED <<panel, chats, process, codex, out, status>>

\* Mutant: every replacement makes a new backup.
BackUpAlways ==
  /\ pc = "backup"
  /\ backup' = [backup EXCEPT ![cur.thread] = cur.seen]
  /\ pc' = "displace" /\ UNCHANGED <<cur, client>>
  /\ UNCHANGED <<panel, meta, rollout, strays, turns, original, process, codex, out, status>>

\* The rollout is copied, unless a backup of this chat exists.  On failure there
\* is no copy, a part of one, or (the chmod failed) all of it.
BackUp ==
  /\ pc = "backup"
  /\ LET t == cur.thread
     IN \/ /\ backup' = IF backup[t] = None THEN [backup EXCEPT ![t] = cur.seen] ELSE backup
           /\ pc' = "displace"
           /\ UNCHANGED <<cur, client>>
        \/ /\ "io" \in Faults
           /\ \/ UNCHANGED backup
              \/ /\ backup[t] = None
                 /\ \E part \in {cur.seen} \cup (IF "torn" \in Faults THEN {{}} ELSE {}) :
                      backup' = [backup EXCEPT ![t] = part]
           /\ Refuse(t)
  /\ UNCHANGED <<panel, meta, rollout, strays, turns, original, process, codex, out, status>>

\* Mutant: the original is removed before the replacement is in place.
DisplaceRemoves ==
  /\ pc = "displace"
  /\ rollout' = [rollout EXCEPT ![cur.thread] = None]
  /\ cur' = [cur EXCEPT !.moved = rollout[cur.thread]]
  /\ pc' = "install"
  /\ UNCHANGED <<panel, meta, strays, backup, turns, original, process, codex, client, out, status>>

\* write_recoverable_replacement: the new content is written beside the
\* rollout, which is then moved aside.
Displace ==
  /\ pc = "displace"
  /\ LET t == cur.thread
     IN \/ /\ rollout[t] # None
           /\ strays' = [strays EXCEPT ![t] = @ \cup {rollout[t]}]
           /\ rollout' = [rollout EXCEPT ![t] = None]
           /\ cur' = [cur EXCEPT !.moved = rollout[t]]
           /\ pc' = "install"
           /\ UNCHANGED client
        \/ /\ rollout[t] = None \/ "io" \in Faults
           /\ UNCHANGED <<rollout, strays>> /\ Refuse(t)
  /\ UNCHANGED <<panel, meta, backup, turns, original, process, codex, out, status>>

\* The new content takes its place; if that fails the original is moved back.
Install ==
  /\ pc = "install"
  /\ LET t == cur.thread
     IN \/ /\ rollout' = [rollout EXCEPT ![t] = Sanitized(cur.seen)]
           /\ pc' = "discard"
           /\ UNCHANGED <<strays, cur, client>>
        \/ /\ "io" \in Faults
           /\ \/ /\ rollout' = [rollout EXCEPT ![t] = cur.moved]
                 /\ strays' = [strays EXCEPT ![t] = @ \ {cur.moved}]
              \/ "undo" \in Faults /\ UNCHANGED <<rollout, strays>>
           /\ Refuse(t)
  /\ UNCHANGED <<panel, meta, backup, turns, original, process, codex, out, status>>

\* The original is removed; if that fails the request fails, too.
Discard ==
  /\ pc = "discard"
  /\ LET t == cur.thread
     IN \/ /\ strays' = [strays EXCEPT ![t] = @ \ {cur.moved}]
           /\ pc' = "forward"
           /\ UNCHANGED <<cur, client>>
        \/ "io" \in Faults /\ UNCHANGED strays /\ Refuse(t)
  /\ UNCHANGED <<panel, meta, rollout, backup, turns, original, process, codex, out, status>>

\* The request is rewritten to name the route's model and provider.
Forward ==
  /\ pc = "forward"
  /\ wire' = Append(wire, [thread |-> cur.thread, kind |-> cur.kind, conn |-> cur.route])
  /\ pc' = "idle"
  /\ cur' = Idle
  /\ UNCHANGED <<panel, chats, process, loaded, running, events, client, out, status>>

-----------------------------------------------------------------------------
(* The stdout thread.                                                      *)

\* What turn/started, turn/completed ("completed", "failed") and error ("retrying"
\* or, when it is not retried, "error") are shown as.
Shown(e) ==
  [state |-> CASE e.kind = "started" -> "working"
               [] e.kind = "error" -> "failed"
               [] OTHER -> e.kind,
   thread |-> e.thread]

\* Only turn/completed ends a turn.
Ends == {"completed", "failed"}
SeenEnd(e) == IF e.kind \in Ends THEN busy \ {e.thread} ELSE busy

\* Mutant: the line is relayed before its status is written.
ShowLate ==
  /\ \/ /\ out = None /\ events # <<>>
        /\ out' = Head(events) /\ events' = Tail(events)
        /\ busy' = SeenEnd(Head(events))
        /\ UNCHANGED status
     \/ /\ out # None
        /\ status' = Shown(out) /\ out' = None
        /\ UNCHANGED <<events, busy>>
  /\ UNCHANGED <<panel, chats, process, loaded, running, wire, waiting, inbox, pc, cur>>

\* server_bridge_status of a notification is written, then the line relayed.
ShowEvent ==
  /\ out = None /\ events # <<>>
  /\ out' = Head(events)
  /\ events' = Tail(events)
  /\ status' = Shown(Head(events))
  /\ UNCHANGED <<panel, chats, process, loaded, running, wire, client, pc, cur>>

RelayEvent ==
  /\ out # None
  /\ busy' = SeenEnd(out)
  /\ out' = None
  /\ UNCHANGED <<panel, chats, process, codex, waiting, inbox, status, pc, cur>>

-----------------------------------------------------------------------------
(* The runtime and the client.                                             *)

\* The runtime loads its configuration some time after it was spawned.
RuntimeLoads ==
  /\ pc # "down" /\ runtime = None
  /\ runtime' = config
  /\ UNCHANGED <<panel, chats, initial, calm, codex, client, out, status, pc, cur>>

Answer(t) == waiting' = [waiting EXCEPT ![t] = "none"]

\* A chat is opened from its rollout, or cannot be.
RuntimeResumes ==
  /\ runtime # None /\ wire # <<>> /\ Head(wire).kind = "resume"
  /\ LET t == Head(wire).thread
     IN /\ loaded' = IF rollout[t] = None THEN loaded ELSE loaded \cup {t}
        /\ Answer(t)
  /\ wire' = Tail(wire)
  /\ UNCHANGED <<panel, chats, process, running, events, busy, inbox, out, status, pc, cur>>

RuntimeStartsTurn ==
  /\ runtime # None /\ wire # <<>> /\ Head(wire).kind = "turn"
  /\ LET t == Head(wire).thread
     IN /\ running' = running \cup {t}
        /\ events' = Append(events, [thread |-> t, kind |-> "started"])
        /\ Answer(t)
  /\ wire' = Tail(wire)
  /\ UNCHANGED <<panel, chats, process, loaded, busy, inbox, out, status, pc, cur>>

\* The items of a turn: its messages and perhaps a tool call.
TurnItems(n, by) ==
  LET messages == [turn |-> n, kind |-> "message", by |-> None]
      calls(kind) == [turn |-> n, kind |-> kind, by |-> by]
  IN {{messages}, {messages, calls("tool")}}
     \cup IF by = OpenAI THEN {} ELSE {{messages, calls("foreign")}}

\* An error of a turn is reported, to be retried or not; either way the turn goes
\* on until its end is reported.  Bound: one such report of a chat at a time.
Errors == {"retrying", "error"}
RuntimeReportsError(t) ==
  /\ t \in running
  /\ \A i \in DOMAIN events : events[i].thread = t => events[i].kind \notin Errors
  /\ \E kind \in Errors : events' = Append(events, [thread |-> t, kind |-> kind])
  /\ UNCHANGED <<panel, chats, process, loaded, running, wire, client, out, status, pc, cur>>

RuntimeEndsTurn(t) ==
  /\ t \in running
  /\ running' = running \ {t}
  /\ \E kind \in Ends :
       events' = Append(events, [thread |-> t, kind |-> kind])
  /\ turns' = [turns EXCEPT ![t] = @ + 1]
  /\ \E items \in TurnItems(turns[t] + 1, Provider(runtime.conn)) :
       rollout' = [rollout EXCEPT ![t] = IF @ = None THEN items ELSE @ \cup items]
  /\ UNCHANGED <<panel, meta, strays, backup, original, process, loaded, wire, client,
                 out, status, pc, cur>>

\* The client opens a chat, or opens it again; not while its turn is running.
AskResume(t) ==
  /\ pc # "down"
  /\ waiting[t] = "none" /\ t \notin busy
  /\ waiting' = [waiting EXCEPT ![t] = "resume"]
  /\ inbox' = Append(inbox, [thread |-> t, kind |-> "resume"])
  /\ UNCHANGED <<panel, chats, process, codex, busy, out, status, pc, cur>>

AskTurn(t) ==
  /\ pc # "down"
  /\ waiting[t] = "none" /\ t \in loaded \ busy
  /\ turns[t] < MaxTurns
  /\ waiting' = [waiting EXCEPT ![t] = "turn"]
  /\ busy' = busy \cup {t}
  /\ inbox' = Append(inbox, [thread |-> t, kind |-> "turn"])
  /\ UNCHANGED <<panel, chats, process, codex, out, status, pc, cur>>

-----------------------------------------------------------------------------
(* The specification.                                                      *)

\* Chats of one turn, or of none, begun under any connection; no bridge has run yet.
Init ==
  /\ config \in Loaded /\ route = config.conn
  /\ before = None
  /\ meta \in [Threads -> Providers]
  /\ turns \in [Threads -> {0, 1}]
  /\ original \in [Threads -> {{}} \cup UNION {TurnItems(1, p) : p \in Providers}]
  /\ \A t \in Threads :
       original[t] \in IF turns[t] = 0 THEN {{}} ELSE TurnItems(1, meta[t])
  /\ rollout = original
  /\ strays = [t \in Threads |-> {}]
  /\ backup = [t \in Threads |-> None]
  /\ runtime = None /\ initial = None /\ calm = FALSE
  /\ loaded = {} /\ running = {} /\ wire = <<>> /\ events = <<>>
  /\ waiting = [t \in Threads |-> "none"] /\ busy = {} /\ inbox = <<>>
  /\ out = None /\ status = NoStatus
  /\ pc = "down" /\ cur = Idle

Panel == \/ \E c \in Conn, key \in Keys : SwitchConfig(c, key)
         \/ SwitchRoute \/ SwitchUndo \/ PrepareBridge

Stdin == \/ Take \/ CheckRoute \/ Scan \/ BackUp \/ Displace \/ Install \/ Discard \/ Forward
Stdout == ShowEvent \/ RelayEvent
Runtime == RuntimeLoads \/ RuntimeResumes \/ RuntimeStartsTurn

Next ==
  \/ Panel
  \/ Spawn \/ ReadInitialRoute \/ Exit
  \/ Stdin \/ Stdout \/ Runtime
  \/ \E t \in Threads :
       RuntimeReportsError(t) \/ RuntimeEndsTurn(t) \/ AskResume(t) \/ AskTurn(t)

Spec == Init /\ [][Next]_vars

\* The threads of the bridge and the runtime's request loop run; users, turns
\* and the panel need not.
Fairness == WF_vars(ReadInitialRoute) /\ WF_vars(Stdin) /\ WF_vars(Stdout) /\ WF_vars(Runtime)
FairSpec == Spec /\ Fairness

-----------------------------------------------------------------------------
(* Properties.                                                             *)

Steps == {"down", "spawned", "idle", "route", "scan", "backup", "displace", "install",
          "discard", "forward"}

FileOfEach(f) == DOMAIN f = Threads /\ \A t \in Threads : f[t] # None => f[t] \in Content

\* Every file and every message is well formed.
TypeOK ==
  /\ config \in Loaded /\ before \in {None} \cup Loaded
  /\ route \in Conn
  /\ meta \in [Threads -> Providers] /\ original \in [Threads -> Content]
  /\ FileOfEach(rollout) /\ FileOfEach(backup)
  /\ strays \in [Threads -> SUBSET Content]
  /\ turns \in [Threads -> Nat]
  /\ runtime \in {None} \cup Loaded /\ initial \in Conn \cup {None} /\ calm \in BOOLEAN
  /\ loaded \subseteq Threads /\ running \subseteq Threads /\ busy \subseteq Threads
  /\ waiting \in [Threads -> {"none", "resume", "turn"}]
  /\ inbox \in Seq([thread : Threads, kind : {"resume", "turn"}])
  /\ wire \in Seq([thread : Threads, kind : {"resume", "turn"}, conn : Conn])
  /\ events \in Seq([thread : Threads, kind : {"started"} \cup Ends \cup Errors])
  /\ out = None \/ out \in [thread : Threads, kind : {"started"} \cup Ends \cup Errors]
  /\ status \in [state : {"none", "preparing", "working", "retrying"} \cup Ends,
                 thread : {None} \cup Threads]
  /\ pc \in Steps
  /\ cur \in [thread : Threads \cup {None}, kind : {"none", "resume", "turn"},
              route : Conn \cup {None}, seen : Content, moved : Content]

\* A request that reaches the runtime names the connection the runtime loaded,
\* if no switch was under way while the bridge started: after a switch, even
\* between two accounts of one provider, nothing more is forwarded.
ForwardedMatchesRuntime ==
  calm /\ runtime # None =>
    \A i \in DOMAIN wire : wire[i].conn = runtime.conn

Files(t) == strays[t] \cup ({rollout[t], backup[t]} \ {None})

\* Some file holds each visible message of a chat at every instant, whichever
\* step of the replacement fails or the process dies at.
MessagesKept ==
  \A t \in Threads : \A n \in 1 .. turns[t] :
    \E file \in Files(t) : \E i \in file : i.turn = n /\ i.kind = "message"

\* Nothing a chat held before it was first sanitized is lost: the backup is
\* made before the rollout is replaced and never overwritten.  (A backup that a
\* failed write left incomplete, here empty, is taken for one: see the README.)
OriginalKept ==
  \A t \in Threads : backup[t] # {} => \A i \in original[t] :
    \E file \in Files(t) : i \in file

\* The tool and reasoning items of a chat that are private to another provider,
\* told by who wrote them.
Private(content, target) == {i \in content : i.kind # "message" /\ i.by # target}

\* Whatever providers wrote a chat, in whatever order, and however often it was
\* resumed: of what is private to others the runtime is never given an item with
\* foreign ids, and other items only in a chat that began with the provider it is
\* opened for.  (docs/account-switching.md:93 promises that no private item is
\* sent at all, which does not hold of the latter: see the README.)
ResumedIsPortable ==
  [][RuntimeResumes =>
       LET r == Head(wire)
           target == Provider(r.conn)
       IN rollout[r.thread] # None =>
            \A i \in Private(rollout[r.thread], target) :
              i.kind # "foreign" /\ meta[r.thread] = target]_vars

\* The panel does not show a chat as done while its next turn is under way, from
\* the request until its start is shown: a notification's status is written
\* before the client can react to it.  Nor is a turn shown as completed before
\* it is; as failed it may be, by an error that is not retried.
DoneIsDone ==
  LET t == status.thread
  IN /\ status.state \in Ends =>
          /\ \A i \in DOMAIN wire : wire[i].kind = "turn" => wire[i].thread # t
          /\ \A i \in DOMAIN events : events[i].kind = "started" => events[i].thread # t
          /\ cur.kind = "turn" => cur.thread # t
     /\ status.state = "completed" => t \notin running

\* Every request of the client is answered, by the runtime or by a refusal, or
\* the bridge has ended.
RequestsAnswered ==
  \A t \in Threads : waiting[t] # "none" ~> waiting[t] = "none"

\* What the documents and comments say where the code does otherwise.

\* CHANGELOG.md, 0.1.19: tool calls that really are OpenAI's are not touched when
\* the chat is resumed by OpenAI.
GenuineCallsKept ==
  [][Install /\ pc' = "discard" /\ Provider(cur.route) = OpenAI =>
       \A i \in cur.seen : i.by = OpenAI => i \in rollout'[cur.thread]]_vars

=============================================================================
