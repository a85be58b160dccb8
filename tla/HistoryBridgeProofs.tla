------------------------- MODULE HistoryBridgeProofs -------------------------
(***************************************************************************)
(* Type correctness of HistoryBridge for every instance, and that what the *)
(* bridge forwards is for the connection its runtime has loaded.           *)
(***************************************************************************)
EXTENDS HistoryBridge, TLAPS

Refusing == {"scan", "backup", "displace", "install", "discard"}
Handling == Refusing \cup {"route", "forward"}

Request == [thread : Threads, kind : {"resume", "turn"}]
Order == [thread : Threads, kind : {"resume", "turn"}, conn : Conn]
Event == [thread : Threads, kind : {"started"} \cup Ends \cup Errors]

(***************************************************************************)
(* What the stdin thread holds at each step, and that turns run in a       *)
(* runtime that has loaded its configuration: without it TypeOK is not     *)
(* inductive.                                                              *)
(***************************************************************************)
LocalsOK ==
  /\ pc \in Handling => cur.thread \in Threads /\ cur.kind \in {"resume", "turn"}
  /\ pc \in Handling \ {"route"} => cur.route \in Conn
  /\ running # {} => runtime # None

\* The inductive invariant, in four parts so that a step is proved for one at a time.
PanelOK ==
  /\ config \in Loaded /\ before \in {None} \cup Loaded /\ route \in Conn
  /\ runtime \in {None} \cup Loaded /\ initial \in Conn \cup {None} /\ calm \in BOOLEAN

ChatsOK ==
  /\ meta \in [Threads -> Providers] /\ original \in [Threads -> Content]
  /\ FileOfEach(rollout) /\ FileOfEach(backup)
  /\ strays \in [Threads -> SUBSET Content] /\ turns \in [Threads -> Nat]

CodexOK ==
  /\ loaded \subseteq Threads /\ running \subseteq Threads /\ busy \subseteq Threads
  /\ waiting \in [Threads -> {"none", "resume", "turn"}]
  /\ inbox \in Seq(Request)
  /\ wire \in Seq(Order)
  /\ events \in Seq(Event) /\ (out = None \/ out \in Event)

StdinOK ==
  /\ status \in [state : {"none", "preparing", "working", "retrying"} \cup Ends,
                 thread : {None} \cup Threads]
  /\ pc \in Steps
  /\ cur \in [thread : Threads \cup {None}, kind : {"none", "resume", "turn"},
              route : Conn \cup {None}, seen : Content, moved : Content]
  /\ LocalsOK

TypeInv == PanelOK /\ ChatsOK /\ CodexOK /\ StdinOK

-----------------------------------------------------------------------------
(***************************************************************************)
(* The inductive invariant behind ForwardedMatchesRuntime.                 *)
(***************************************************************************)

\* The route is the connection last switched to completely.
RouteInv ==
  /\ before = None => route = config.conn
  /\ before # None => route = before.conn

\* A bridge that started in a calm moment read the route of the configuration
\* its runtime has loaded, or is going to load.
StartInv ==
  /\ pc = "down" => runtime = None
  /\ pc \in {"down", "spawned"} => wire = <<>>
  /\ calm /\ pc # "down" /\ (pc = "spawned" \/ runtime = None) => before = None
  /\ calm /\ pc = "spawned" /\ runtime # None => runtime.conn = route
  /\ calm /\ pc \notin {"down", "spawned"} =>
       IF runtime = None THEN initial = route ELSE initial = runtime.conn

\* The stdin thread forwards for that connection only.
ForwardInv ==
  /\ pc \in Handling \ {"route"} => cur.route = initial
  /\ \A i \in DOMAIN wire : wire[i].conn = initial

RouteMatch == RouteInv /\ StartInv /\ ForwardInv

-----------------------------------------------------------------------------
\* What the assumptions say of None, of providers and of an empty file.
LEMMA ConstantFacts ==
  /\ None \notin Conn /\ None \notin Threads /\ None \notin Loaded
  /\ \A c \in Conn : Provider(c) \in Providers
  /\ \A l \in Loaded : l.conn \in Conn
  /\ {} \in Content
BY BridgeAssumption, NoneAssumption DEF Loaded, Conn, Provider, Providers, Content

\* The ends of a queue are of its type.
LEMMA QueueFacts ==
  ASSUME NEW S, NEW q \in Seq(S)
  PROVE  /\ q # <<>> => Head(q) \in S /\ Tail(q) \in Seq(S)
         /\ \A m \in S : Append(q, m) \in Seq(S)
  OBVIOUS

\* What a turn adds to a chat, and what the bridge takes out of one, is content.
LEMMA TurnContent ==
  ASSUME NEW n \in Nat, NEW by \in Providers, NEW items \in TurnItems(n, by)
  PROVE  items \in Content
BY DEF TurnItems, Content, Item

\* The portable part of a file is part of it.
LEMMA SanitizedContent ==
  ASSUME NEW content \in Content
  PROVE  Sanitized(content) \in Content /\ Sanitized(content) \subseteq content
BY DEF Sanitized, Content

-----------------------------------------------------------------------------
(* Type correctness.                                                       *)

\* A stdin thread that holds nothing is well formed.
LEMMA IdleTyped ==
  Idle \in [thread : Threads \cup {None}, kind : {"none", "resume", "turn"},
           route : Conn \cup {None}, seen : Content, moved : Content]
BY ConstantFacts DEF Idle

\* A refusal leaves the stdin thread idle.
LEMMA RefuseStdin ==
  ASSUME StdinOK, NEW t, Refuse(t), UNCHANGED <<status, running, runtime>>
  PROVE  StdinOK'
BY IdleTyped DEF Refuse, StdinOK, LocalsOK, Handling, Refusing, Steps

\* The initial files, requests and processes are well formed.
LEMMA TypeInit == Init => TypeInv
<1> SUFFICES ASSUME Init PROVE TypeInv
  OBVIOUS
<1>1. original \in [Threads -> Content]
  <2>1. \A t \in Threads :
          meta[t] \in Providers /\ original[t] \in {{}} \cup TurnItems(1, meta[t])
    BY DEF Init
  <2>2. \A t \in Threads : original[t] \in Content
    BY <2>1, TurnContent DEF Content
  <2> QED BY <2>2 DEF Init
<1>2. ChatsOK
  BY <1>1 DEF Init, ChatsOK, FileOfEach
<1>3. PanelOK /\ CodexOK
  <2>1. PanelOK
    BY ConstantFacts DEF Init, PanelOK
  <2>2. CodexOK
    BY ConstantFacts DEF Init, CodexOK
  <2> QED BY <2>1, <2>2
<1>4. StdinOK
  BY DEF Init, StdinOK, LocalsOK, Handling, Refusing, NoStatus, Idle, Steps, Content
<1> QED BY <1>2, <1>3, <1>4 DEF TypeInv

\* Every step keeps them so; one case for each action, one step for each part.
LEMMA TypeStep == TypeInv /\ [Next]_vars => TypeInv'
<1> SUFFICES ASSUME PanelOK, ChatsOK, CodexOK, StdinOK, [Next]_vars PROVE TypeInv'
  BY DEF TypeInv
<1> USE ConstantFacts
<1>1. CASE SwitchRoute
  <2>1. PanelOK'
    BY <1>1 DEF SwitchRoute, process, PanelOK
  <2>2. ChatsOK'
    BY <1>1 DEF SwitchRoute, chats, ChatsOK
  <2>3. CodexOK'
    BY <1>1 DEF SwitchRoute, codex, client, CodexOK
  <2>4. StdinOK'
    BY <1>1 DEF SwitchRoute, process, codex, StdinOK, LocalsOK
  <2> QED BY <2>1, <2>2, <2>3, <2>4 DEF TypeInv
<1>2. CASE SwitchUndo
  <2>1. PanelOK'
    BY <1>2 DEF SwitchUndo, process, PanelOK
  <2>2. ChatsOK'
    BY <1>2 DEF SwitchUndo, chats, ChatsOK
  <2>3. CodexOK'
    BY <1>2 DEF SwitchUndo, codex, client, CodexOK
  <2>4. StdinOK'
    BY <1>2 DEF SwitchUndo, process, codex, StdinOK, LocalsOK
  <2> QED BY <2>1, <2>2, <2>3, <2>4 DEF TypeInv
<1>3. CASE Spawn
  <2>1. PanelOK'
    BY <1>3 DEF Spawn, panel, process, PanelOK
  <2>2. ChatsOK'
    BY <1>3 DEF Spawn, chats, ChatsOK
  <2>3. CodexOK'
    BY <1>3 DEF Spawn, codex, client, CodexOK
  <2>4. StdinOK'
    BY <1>3 DEF Spawn, process, codex, StdinOK, LocalsOK, Handling, Refusing, Steps
  <2> QED BY <2>1, <2>2, <2>3, <2>4 DEF TypeInv
<1>4. CASE ReadInitialRoute
  <2>1. PanelOK'
    BY <1>4 DEF ReadInitialRoute, panel, process, PanelOK
  <2>2. ChatsOK'
    BY <1>4 DEF ReadInitialRoute, chats, ChatsOK
  <2>3. CodexOK'
    BY <1>4 DEF ReadInitialRoute, codex, client, CodexOK
  <2>4. StdinOK'
    BY <1>4 DEF ReadInitialRoute, process, codex, StdinOK, LocalsOK, Handling, Refusing,
       Steps
  <2> QED BY <2>1, <2>2, <2>3, <2>4 DEF TypeInv
<1>5. CASE Exit
  <2>1. PanelOK'
    BY <1>5 DEF Exit, panel, process, PanelOK
  <2>2. ChatsOK'
    BY <1>5 DEF Exit, chats, ChatsOK
  <2>3. CodexOK'
    BY <1>5 DEF Exit, CodexOK
  <2>4. StdinOK'
    BY <1>5, IdleTyped DEF Exit, StdinOK, LocalsOK, Handling, Refusing, Steps
  <2> QED BY <2>1, <2>2, <2>3, <2>4 DEF TypeInv
<1>6. CASE Take
  <2>1. PanelOK'
    BY <1>6 DEF Take, panel, process, PanelOK
  <2>2. ChatsOK'
    BY <1>6 DEF Take, chats, ChatsOK
  <2>3. CodexOK'
    BY <1>6 DEF Take, codex, CodexOK
  <2>4. StdinOK'
    <3>1. Head(inbox) \in Request
      BY <1>6, QueueFacts DEF Take, CodexOK
    <3> QED BY <1>6, <3>1 DEF Take, Request, process, codex, StdinOK, LocalsOK, Handling,
         Refusing, Steps
  <2> QED BY <2>1, <2>2, <2>3, <2>4 DEF TypeInv
<1>7. CASE CheckRoute
  <2>1. PanelOK'
    BY <1>7 DEF CheckRoute, panel, process, PanelOK
  <2>2. ChatsOK'
    BY <1>7 DEF CheckRoute, chats, ChatsOK
  <2>3. CodexOK'
    BY <1>7 DEF CheckRoute, Refuse, codex, client, CodexOK
  <2>4. StdinOK'
    <3>1. CASE Refuse(cur.thread)
      BY <1>7, <3>1, RefuseStdin DEF CheckRoute, process, codex
    <3>2. CASE /\ SameRoute /\ pc' \in {"scan", "forward"}
               /\ cur' = [cur EXCEPT !.route = route]
      BY <1>7, <3>2 DEF CheckRoute, PanelOK, process, codex, StdinOK, LocalsOK, Handling,
         Refusing, Steps
    <3> QED BY <1>7, <3>1, <3>2 DEF CheckRoute
  <2> QED BY <2>1, <2>2, <2>3, <2>4 DEF TypeInv
<1>8. CASE Scan
  <2>1. PanelOK'
    BY <1>8 DEF Scan, panel, process, PanelOK
  <2>2. ChatsOK'
    BY <1>8 DEF Scan, chats, ChatsOK
  <2>3. CodexOK'
    BY <1>8 DEF Scan, Refuse, codex, client, CodexOK
  <2>4. StdinOK'
    <3>1. CASE Refuse(cur.thread)
      BY <1>8, <3>1, RefuseStdin DEF Scan, process, codex
    <3>2. CASE /\ pc' \in {"forward", "backup"}
               /\ cur' = [cur EXCEPT !.seen = rollout[cur.thread]]
               /\ rollout[cur.thread] \in Content
      BY <1>8, <3>2 DEF Scan, process, codex, StdinOK, LocalsOK, Handling, Refusing, Steps
    <3> QED BY <1>8, <3>1, <3>2 DEF Scan, ChatsOK, FileOfEach, StdinOK, LocalsOK, Handling,
         Refusing
  <2> QED BY <2>1, <2>2, <2>3, <2>4 DEF TypeInv
<1>9. CASE BackUp
  <2>1. PanelOK'
    BY <1>9 DEF BackUp, panel, process, PanelOK
  <2>2. ChatsOK'
    BY <1>9 DEF BackUp, ChatsOK, FileOfEach, StdinOK, LocalsOK, Handling, Refusing, Content
  <2>3. CodexOK'
    BY <1>9 DEF BackUp, Refuse, codex, client, CodexOK
  <2>4. StdinOK'
    <3>1. CASE Refuse(cur.thread)
      BY <1>9, <3>1, RefuseStdin DEF BackUp, process, codex
    <3>2. CASE pc' = "displace" /\ UNCHANGED cur
      BY <1>9, <3>2 DEF BackUp, process, codex, StdinOK, LocalsOK, Handling, Refusing, Steps
    <3> QED BY <1>9, <3>1, <3>2 DEF BackUp
  <2> QED BY <2>1, <2>2, <2>3, <2>4 DEF TypeInv
<1>10. CASE Displace
  <2>1. PanelOK'
    BY <1>10 DEF Displace, panel, process, PanelOK
  <2>2. ChatsOK'
    BY <1>10 DEF Displace, ChatsOK, FileOfEach, StdinOK, LocalsOK, Handling, Refusing
  <2>3. CodexOK'
    BY <1>10 DEF Displace, Refuse, codex, client, CodexOK
  <2>4. StdinOK'
    <3>1. CASE Refuse(cur.thread)
      BY <1>10, <3>1, RefuseStdin DEF Displace, process, codex
    <3>2. CASE pc' = "install" /\ cur' = [cur EXCEPT !.moved = rollout[cur.thread]]
               /\ rollout[cur.thread] \in Content
      BY <1>10, <3>2 DEF Displace, process, codex, StdinOK, LocalsOK, Handling, Refusing,
         Steps
    <3> QED BY <1>10, <3>1, <3>2 DEF Displace, ChatsOK, FileOfEach, StdinOK, LocalsOK,
         Handling, Refusing
  <2> QED BY <2>1, <2>2, <2>3, <2>4 DEF TypeInv
<1>11. CASE Install
  <2>1. PanelOK'
    BY <1>11 DEF Install, panel, process, PanelOK
  <2>2. ChatsOK'
    BY <1>11, SanitizedContent DEF Install, ChatsOK, FileOfEach, StdinOK, LocalsOK,
       Handling, Refusing
  <2>3. CodexOK'
    BY <1>11 DEF Install, Refuse, codex, client, CodexOK
  <2>4. StdinOK'
    <3>1. CASE Refuse(cur.thread)
      BY <1>11, <3>1, RefuseStdin DEF Install, process, codex
    <3>2. CASE pc' = "discard" /\ UNCHANGED cur
      BY <1>11, <3>2 DEF Install, process, codex, StdinOK, LocalsOK, Handling, Refusing,
         Steps
    <3> QED BY <1>11, <3>1, <3>2 DEF Install
  <2> QED BY <2>1, <2>2, <2>3, <2>4 DEF TypeInv
<1>12. CASE Discard
  <2>1. PanelOK'
    BY <1>12 DEF Discard, panel, process, PanelOK
  <2>2. ChatsOK'
    BY <1>12 DEF Discard, ChatsOK, FileOfEach, StdinOK, LocalsOK, Handling, Refusing
  <2>3. CodexOK'
    BY <1>12 DEF Discard, Refuse, codex, client, CodexOK
  <2>4. StdinOK'
    <3>1. CASE Refuse(cur.thread)
      BY <1>12, <3>1, RefuseStdin DEF Discard, process, codex
    <3>2. CASE pc' = "forward" /\ UNCHANGED cur
      BY <1>12, <3>2 DEF Discard, process, codex, StdinOK, LocalsOK, Handling, Refusing,
         Steps
    <3> QED BY <1>12, <3>1, <3>2 DEF Discard
  <2> QED BY <2>1, <2>2, <2>3, <2>4 DEF TypeInv
<1>13. CASE Forward
  <2>1. PanelOK'
    BY <1>13 DEF Forward, panel, process, PanelOK
  <2>2. ChatsOK'
    BY <1>13 DEF Forward, chats, ChatsOK
  <2>3. CodexOK'
    <3>1. wire' \in Seq(Order)
      <4>1. [thread |-> cur.thread, kind |-> cur.kind, conn |-> cur.route] \in Order
        BY <1>13 DEF Forward, Order, StdinOK, LocalsOK, Handling, Refusing
      <4> QED BY <1>13, <4>1, QueueFacts DEF Forward, CodexOK
    <3> QED BY <1>13, <3>1 DEF Forward, client, CodexOK
  <2>4. StdinOK'
    BY <1>13, IdleTyped DEF Forward, process, StdinOK, LocalsOK, Handling, Refusing, Steps
  <2> QED BY <2>1, <2>2, <2>3, <2>4 DEF TypeInv
<1>14. CASE ShowEvent
  <2>1. PanelOK'
    BY <1>14 DEF ShowEvent, panel, process, PanelOK
  <2>2. ChatsOK'
    BY <1>14 DEF ShowEvent, chats, ChatsOK
  <2>3. CodexOK'
    BY <1>14 DEF ShowEvent, client, CodexOK
  <2>4. StdinOK'
    <3>1. Head(events) \in Event
      BY <1>14, QueueFacts DEF ShowEvent, CodexOK
    <3>2. Shown(Head(events)) \in [state : {"none", "preparing", "working", "retrying"} \cup Ends,
                                   thread : {None} \cup Threads]
      BY <3>1 DEF Shown, Event, Ends, Errors
    <3> QED BY <1>14, <3>2 DEF ShowEvent, process, StdinOK, LocalsOK, Handling, Refusing, Steps
  <2> QED BY <2>1, <2>2, <2>3, <2>4 DEF TypeInv
<1>15. CASE RelayEvent
  <2>1. PanelOK'
    BY <1>15 DEF RelayEvent, panel, process, PanelOK
  <2>2. ChatsOK'
    BY <1>15 DEF RelayEvent, chats, ChatsOK
  <2>3. CodexOK'
    BY <1>15 DEF RelayEvent, SeenEnd, codex, CodexOK
  <2>4. StdinOK'
    BY <1>15 DEF RelayEvent, process, codex, StdinOK, LocalsOK
  <2> QED BY <2>1, <2>2, <2>3, <2>4 DEF TypeInv
<1>16. CASE RuntimeLoads
  <2>1. PanelOK'
    BY <1>16 DEF RuntimeLoads, panel, process, PanelOK
  <2>2. ChatsOK'
    BY <1>16 DEF RuntimeLoads, chats, ChatsOK
  <2>3. CodexOK'
    BY <1>16 DEF RuntimeLoads, codex, client, CodexOK
  <2>4. StdinOK'
    BY <1>16 DEF RuntimeLoads, codex, StdinOK, LocalsOK
  <2> QED BY <2>1, <2>2, <2>3, <2>4 DEF TypeInv
<1>17. CASE RuntimeResumes
  <2>1. PanelOK'
    BY <1>17 DEF RuntimeResumes, panel, process, PanelOK
  <2>2. ChatsOK'
    BY <1>17 DEF RuntimeResumes, chats, ChatsOK
  <2>3. CodexOK'
    <3>1. Head(wire) \in Order /\ wire' \in Seq(Order)
      BY <1>17, QueueFacts DEF RuntimeResumes, CodexOK
    <3> QED BY <1>17, <3>1 DEF RuntimeResumes, Answer, Order, CodexOK
  <2>4. StdinOK'
    BY <1>17 DEF RuntimeResumes, process, StdinOK, LocalsOK
  <2> QED BY <2>1, <2>2, <2>3, <2>4 DEF TypeInv
<1>18. CASE RuntimeStartsTurn
  <2>1. PanelOK'
    BY <1>18 DEF RuntimeStartsTurn, panel, process, PanelOK
  <2>2. ChatsOK'
    BY <1>18 DEF RuntimeStartsTurn, chats, ChatsOK
  <2>3. CodexOK'
    <3>1. Head(wire) \in Order /\ wire' \in Seq(Order)
      BY <1>18, QueueFacts DEF RuntimeStartsTurn, CodexOK
    <3>2. [thread |-> Head(wire).thread, kind |-> "started"] \in Event
      BY <3>1 DEF Order, Event
    <3>3. events' \in Seq(Event)
      BY <1>18, <3>2, QueueFacts DEF RuntimeStartsTurn, CodexOK
    <3> QED BY <1>18, <3>1, <3>3 DEF RuntimeStartsTurn, Answer, Order, CodexOK
  <2>4. StdinOK'
    BY <1>18 DEF RuntimeStartsTurn, process, StdinOK, LocalsOK
  <2> QED BY <2>1, <2>2, <2>3, <2>4 DEF TypeInv
<1>19. ASSUME NEW c \in Conn, NEW key \in Keys, SwitchConfig(c, key)
      PROVE  TypeInv'
  <2>1. PanelOK'
    BY <1>19 DEF SwitchConfig, PanelOK, Loaded
  <2>2. ChatsOK'
    BY <1>19 DEF SwitchConfig, chats, ChatsOK
  <2>3. CodexOK'
    BY <1>19 DEF SwitchConfig, codex, client, CodexOK
  <2>4. StdinOK'
    BY <1>19 DEF SwitchConfig, process, codex, StdinOK, LocalsOK
  <2> QED BY <2>1, <2>2, <2>3, <2>4 DEF TypeInv
<1>20. ASSUME NEW t \in Threads, AskResume(t)
      PROVE  TypeInv'
  <2>1. PanelOK'
    BY <1>20 DEF AskResume, panel, process, PanelOK
  <2>2. ChatsOK'
    BY <1>20 DEF AskResume, chats, ChatsOK
  <2>3. CodexOK'
    <3>1. inbox' \in Seq(Request)
      <4>1. [thread |-> t, kind |-> "resume"] \in Request
        BY DEF Request
      <4> QED BY <1>20, <4>1, QueueFacts DEF AskResume, CodexOK
    <3> QED BY <1>20, <3>1 DEF AskResume, codex, CodexOK
  <2>4. StdinOK'
    BY <1>20 DEF AskResume, process, codex, StdinOK, LocalsOK
  <2> QED BY <2>1, <2>2, <2>3, <2>4 DEF TypeInv
<1>21. ASSUME NEW t \in Threads, AskTurn(t)
      PROVE  TypeInv'
  <2>1. PanelOK'
    BY <1>21 DEF AskTurn, panel, process, PanelOK
  <2>2. ChatsOK'
    BY <1>21 DEF AskTurn, chats, ChatsOK
  <2>3. CodexOK'
    <3>1. inbox' \in Seq(Request)
      <4>1. [thread |-> t, kind |-> "turn"] \in Request
        BY DEF Request
      <4> QED BY <1>21, <4>1, QueueFacts DEF AskTurn, CodexOK
    <3> QED BY <1>21, <3>1 DEF AskTurn, codex, CodexOK
  <2>4. StdinOK'
    BY <1>21 DEF AskTurn, process, codex, StdinOK, LocalsOK
  <2> QED BY <2>1, <2>2, <2>3, <2>4 DEF TypeInv
<1>22. ASSUME NEW t \in Threads, RuntimeEndsTurn(t)
      PROVE  TypeInv'
  <2>1. PanelOK'
    BY <1>22 DEF RuntimeEndsTurn, panel, process, PanelOK
  <2>2. ChatsOK'
    <3>1. PICK items \in TurnItems(turns[t] + 1, Provider(runtime.conn)) :
            rollout' = [rollout EXCEPT ![t] = IF @ = None THEN items ELSE @ \cup items]
      BY <1>22 DEF RuntimeEndsTurn
    <3>2. Provider(runtime.conn) \in Providers
      BY <1>22 DEF RuntimeEndsTurn, StdinOK, LocalsOK, PanelOK
    <3>3. items \in Content
      BY <3>1, <3>2, TurnContent DEF ChatsOK
    <3>4. FileOfEach(rollout')
      BY <3>1, <3>3 DEF FileOfEach, ChatsOK, Content
    <3>5. turns' \in [Threads -> Nat] /\ FileOfEach(backup')
      BY <1>22 DEF RuntimeEndsTurn, ChatsOK, FileOfEach
    <3> QED BY <1>22, <3>4, <3>5 DEF RuntimeEndsTurn, ChatsOK
  <2>3. CodexOK'
    <3>1. PICK kind \in Ends :
            events' = Append(events, [thread |-> t, kind |-> kind])
      BY <1>22 DEF RuntimeEndsTurn
    <3>2. [thread |-> t, kind |-> kind] \in Event
      BY <3>1 DEF Event
    <3>3. events' \in Seq(Event)
      BY <3>1, <3>2, QueueFacts DEF CodexOK
    <3> QED BY <1>22, <3>3 DEF RuntimeEndsTurn, client, CodexOK
  <2>4. StdinOK'
    BY <1>22 DEF RuntimeEndsTurn, process, StdinOK, LocalsOK
  <2> QED BY <2>1, <2>2, <2>3, <2>4 DEF TypeInv
<1>23. CASE UNCHANGED vars
  <2>1. PanelOK'
    BY <1>23 DEF vars, panel, process, PanelOK
  <2>2. ChatsOK'
    BY <1>23 DEF vars, chats, ChatsOK
  <2>3. CodexOK'
    BY <1>23 DEF vars, codex, client, CodexOK
  <2>4. StdinOK'
    BY <1>23 DEF vars, process, codex, StdinOK, LocalsOK
  <2> QED BY <2>1, <2>2, <2>3, <2>4 DEF TypeInv
<1>24. CASE PrepareBridge
  <2>1. PanelOK'
    BY <1>24 DEF PrepareBridge, process, PanelOK
  <2>2. ChatsOK'
    BY <1>24 DEF PrepareBridge, chats, ChatsOK
  <2>3. CodexOK'
    BY <1>24 DEF PrepareBridge, codex, client, CodexOK
  <2>4. StdinOK'
    BY <1>24 DEF PrepareBridge, NoStatus, process, codex, StdinOK, LocalsOK
  <2> QED BY <2>1, <2>2, <2>3, <2>4 DEF TypeInv
<1>25. ASSUME NEW t \in Threads, RuntimeReportsError(t)
      PROVE  TypeInv'
  <2>1. PanelOK'
    BY <1>25 DEF RuntimeReportsError, panel, process, PanelOK
  <2>2. ChatsOK'
    BY <1>25 DEF RuntimeReportsError, chats, ChatsOK
  <2>3. CodexOK'
    <3>1. PICK kind \in Errors : events' = Append(events, [thread |-> t, kind |-> kind])
      BY <1>25 DEF RuntimeReportsError
    <3>2. [thread |-> t, kind |-> kind] \in Event
      BY <3>1 DEF Event
    <3>3. events' \in Seq(Event)
      BY <3>1, <3>2, QueueFacts DEF CodexOK
    <3> QED BY <1>25, <3>3 DEF RuntimeReportsError, client, CodexOK
  <2>4. StdinOK'
    BY <1>25 DEF RuntimeReportsError, process, StdinOK, LocalsOK
  <2> QED BY <2>1, <2>2, <2>3, <2>4 DEF TypeInv
<1> QED
  BY <1>1, <1>2, <1>3, <1>4, <1>5, <1>6, <1>7, <1>8, <1>9, <1>10, <1>11, <1>12, <1>13,
     <1>14, <1>15, <1>16, <1>17, <1>18, <1>19, <1>20, <1>21, <1>22, <1>23, <1>24, <1>25
     DEF Next, Panel, Stdin, Stdout, Runtime

\* At every step of every behaviour every file and message is well formed.
THEOREM TypeCorrect == Spec => []TypeOK
<1>1. TypeInv => TypeOK
  BY DEF TypeInv, TypeOK, PanelOK, ChatsOK, CodexOK, StdinOK, Request, Order, Event
<1> QED BY <1>1, TypeInit, TypeStep, PTL DEF Spec


-----------------------------------------------------------------------------
(* What is forwarded.                                                      *)

\* The bridge, the runtime's queue and the panel's files.
Untouched == <<panel, process, wire, pc, cur>>

\* A step that touches none of what RouteMatch is about keeps it.
LEMMA FrameStep ==
  ASSUME RouteMatch, UNCHANGED Untouched
  PROVE  RouteMatch'
BY DEF RouteMatch, RouteInv, StartInv, ForwardInv, Untouched, panel, process, Handling, Refusing

\* So does a step of the stdin thread that keeps the route it holds, or ends
\* the handling of a request.
LEMMA StdinStep ==
  ASSUME RouteMatch, UNCHANGED <<panel, process, wire>>,
         pc \in Handling,
         \/ pc' = "idle"
         \/ pc # "route" /\ pc' \in Handling /\ cur'.route = cur.route
         \/ pc' \in Handling /\ cur'.route = initial
  PROVE  RouteMatch'
BY DEF RouteMatch, RouteInv, StartInv, ForwardInv, panel, process, Handling, Refusing

\* Before the first start nothing is loaded or forwarded.
LEMMA RouteInit == Init => RouteMatch
BY DEF Init, RouteMatch, RouteInv, StartInv, ForwardInv, Handling, Refusing

\* The requests still queued in a queue are the ones that were.
LEMMA TailMatches ==
  ASSUME wire \in Seq(Order), wire # <<>>, NEW c, \A i \in DOMAIN wire : wire[i].conn = c
  PROVE  \A i \in DOMAIN Tail(wire) : Tail(wire)[i].conn = c
BY DEF Order

\* And those of a longer queue.
LEMMA AppendMatches ==
  ASSUME wire \in Seq(Order), NEW m \in Order, NEW c, m.conn = c,
         \A i \in DOMAIN wire : wire[i].conn = c
  PROVE  \A i \in DOMAIN Append(wire, m) : Append(wire, m)[i].conn = c
BY DEF Order

\* Every step keeps what is queued to the connection the runtime loaded.
LEMMA RouteStep == TypeInv /\ RouteMatch /\ [Next]_vars => RouteMatch'
<1> SUFFICES ASSUME PanelOK, ChatsOK, CodexOK, StdinOK, RouteMatch, [Next]_vars
             PROVE  RouteMatch'
  BY DEF TypeInv
<1> USE ConstantFacts
<1>1. ASSUME NEW c \in Conn, NEW key \in Keys, SwitchConfig(c, key)
      PROVE  RouteMatch'
  <2>1. RouteInv'
    BY <1>1 DEF SwitchConfig, RouteMatch, RouteInv, PanelOK
  <2>2. StartInv'
    BY <1>1 DEF SwitchConfig, RouteMatch, StartInv, PanelOK, codex
  <2>3. ForwardInv'
    BY <1>1 DEF SwitchConfig, RouteMatch, ForwardInv, codex, Handling, Refusing
  <2> QED BY <2>1, <2>2, <2>3 DEF RouteMatch
<1>2. CASE SwitchRoute \/ SwitchUndo
  <2>1. RouteInv'
    BY <1>2 DEF SwitchRoute, SwitchUndo, RouteMatch, RouteInv, PanelOK
  <2>2. StartInv'
    BY <1>2 DEF SwitchRoute, SwitchUndo, RouteMatch, StartInv, codex, process
  <2>3. ForwardInv'
    BY <1>2 DEF SwitchRoute, SwitchUndo, RouteMatch, ForwardInv, codex, process, Handling, Refusing
  <2> QED BY <2>1, <2>2, <2>3 DEF RouteMatch
<1>3. CASE Spawn
  BY <1>3 DEF Spawn, RouteMatch, RouteInv, StartInv, ForwardInv, panel, codex, Handling, Refusing
<1>4. CASE ReadInitialRoute
  BY <1>4 DEF ReadInitialRoute, RouteMatch, RouteInv, StartInv, ForwardInv, panel, codex,
              Handling, Refusing
<1>5. CASE Exit
  BY <1>5 DEF Exit, RouteMatch, RouteInv, StartInv, ForwardInv, panel, Handling, Refusing
<1>6. CASE Take
  BY <1>6 DEF Take, RouteMatch, RouteInv, StartInv, ForwardInv, panel, process, codex,
              Handling, Refusing
<1>7. CASE CheckRoute
  <2>1. pc = "route" /\ UNCHANGED <<panel, process, wire>>
    BY <1>7 DEF CheckRoute, codex
  <2>2. pc' = "idle" \/ (pc' \in Handling /\ cur'.route = initial)
    BY <1>7 DEF CheckRoute, Refuse, SameRoute, Handling, Refusing, StdinOK
  <2> QED BY <2>1, <2>2, StdinStep DEF Handling
<1>8. CASE Scan \/ BackUp \/ Displace \/ Install \/ Discard
  <2>1. pc \in Refusing /\ UNCHANGED <<panel, process, wire>>
    BY <1>8 DEF Scan, BackUp, Displace, Install, Discard, codex, Refusing
  <2>2. pc' = "idle" \/ (pc' \in Handling /\ cur'.route = cur.route)
    BY <1>8 DEF Scan, BackUp, Displace, Install, Discard, Refuse, Handling, Refusing, StdinOK
  <2> QED BY <2>1, <2>2, StdinStep DEF Handling, Refusing
<1>9. CASE Forward
  <2> DEFINE m == [thread |-> cur.thread, kind |-> cur.kind, conn |-> cur.route]
  <2>1. m \in Order /\ m.conn = initial
    BY <1>9 DEF Forward, Order, StdinOK, LocalsOK, Handling, Refusing, RouteMatch, ForwardInv
  <2>2. wire' = Append(wire, m)
    BY <1>9 DEF Forward
  <2> HIDE DEF m
  <2>3. \A i \in DOMAIN wire' : wire'[i].conn = initial
    BY <2>1, <2>2, AppendMatches DEF CodexOK, RouteMatch, ForwardInv
  <2>4. RouteInv' /\ StartInv'
    BY <1>9 DEF Forward, RouteMatch, RouteInv, StartInv, panel, process
  <2>5. ForwardInv'
    BY <1>9, <2>3 DEF Forward, ForwardInv, process, Handling, Refusing
  <2> QED BY <2>4, <2>5 DEF RouteMatch
<1>10. CASE RuntimeLoads
  BY <1>10 DEF RuntimeLoads, RouteMatch, RouteInv, StartInv, ForwardInv, panel, codex, PanelOK,
               Handling, Refusing
<1>11. CASE RuntimeResumes \/ RuntimeStartsTurn
  <2>1. wire # <<>> /\ wire' = Tail(wire) /\ UNCHANGED <<panel, process, pc, cur>>
    BY <1>11 DEF RuntimeResumes, RuntimeStartsTurn
  <2>2. pc \notin {"down", "spawned"}
    BY <2>1 DEF RouteMatch, StartInv
  <2>3. \A i \in DOMAIN wire' : wire'[i].conn = initial
    BY <2>1, TailMatches DEF CodexOK, RouteMatch, ForwardInv
  <2>4. RouteInv' /\ StartInv'
    BY <2>1, <2>2 DEF RouteMatch, RouteInv, StartInv, panel, process
  <2>5. ForwardInv'
    BY <2>1, <2>3 DEF RouteMatch, ForwardInv, process, Handling, Refusing
  <2> QED BY <2>4, <2>5 DEF RouteMatch
<1>12. CASE ShowEvent \/ RelayEvent
  BY <1>12, FrameStep DEF ShowEvent, RelayEvent, Untouched, codex
<1>13. ASSUME NEW t \in Threads,
              RuntimeReportsError(t) \/ RuntimeEndsTurn(t) \/ AskResume(t) \/ AskTurn(t)
       PROVE  RouteMatch'
  BY <1>13, FrameStep DEF RuntimeReportsError, RuntimeEndsTurn, AskResume, AskTurn, Untouched, codex
<1>14. CASE PrepareBridge
  <2>1. UNCHANGED Untouched
    BY <1>14 DEF PrepareBridge, Untouched, panel, codex, RouteMatch, RouteInv
  <2> QED BY <2>1, FrameStep
<1>15. CASE UNCHANGED vars
  BY <1>15, FrameStep DEF vars, Untouched, codex
<1> QED
  BY <1>1, <1>2, <1>3, <1>4, <1>5, <1>6, <1>7, <1>8, <1>9, <1>10, <1>11, <1>12, <1>13, <1>14,
     <1>15
  DEF Next, Panel, Stdin, Stdout, Runtime

\* Whatever is switched, undone, refused, killed or started again, a request
\* the bridge forwards is for the connection its runtime has loaded, provided
\* that no switch was under way while the bridge started.
THEOREM ForwardedIsLoaded == Spec => []ForwardedMatchesRuntime
<1>1. TypeInv /\ RouteMatch => ForwardedMatchesRuntime
  <2> SUFFICES ASSUME TypeInv, RouteMatch, calm, runtime # None, NEW i \in DOMAIN wire
               PROVE  wire[i].conn = runtime.conn
    BY DEF ForwardedMatchesRuntime
  <2>1. wire # <<>>
    BY DEF TypeInv, CodexOK
  <2>2. pc \notin {"down", "spawned"}
    BY <2>1 DEF RouteMatch, StartInv
  <2> QED BY <2>2 DEF RouteMatch, StartInv, ForwardInv
<1> QED BY <1>1, TypeInit, TypeStep, RouteInit, RouteStep, PTL DEF Spec

=============================================================================
