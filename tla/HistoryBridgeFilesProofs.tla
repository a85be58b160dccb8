---------------------- MODULE HistoryBridgeFilesProofs ----------------------
(***************************************************************************)
(* That the bridge loses nothing of a chat, that what is resumed holds no  *)
(* foreign ids of another provider, and that no chat is shown as done      *)
(* while its next turn is under way, for every instance of HistoryBridge.  *)
(* All rest on one fact: while a request of a chat is anywhere between the *)
(* client and the runtime, no other one is, and no turn of the chat runs.  *)
(***************************************************************************)
EXTENDS HistoryBridgeProofs

-----------------------------------------------------------------------------
(* One request of a chat at a time.                                        *)

Distinct(queue) ==
  \A i, j \in DOMAIN queue : queue[i].thread = queue[j].thread => i = j
Awaited(queue) ==
  \A i \in DOMAIN queue : waiting[queue[i].thread] = queue[i].kind
Avoids(queue, t) == \A i \in DOMAIN queue : queue[i].thread # t

\* Each request under way is the one its chat waits for.
QueuesInv ==
  /\ Distinct(inbox) /\ Awaited(inbox)
  /\ Distinct(wire) /\ Awaited(wire)
  /\ \A i \in DOMAIN inbox : Avoids(wire, inbox[i].thread)
HandledInv ==
  pc \in Handling =>
    /\ waiting[cur.thread] = cur.kind
    /\ Avoids(inbox, cur.thread) /\ Avoids(wire, cur.thread)
IdleInv == pc \notin Handling => cur = Idle

\* A chat with a turn, or with a notification to be shown or relayed, waits for
\* nothing, and the client knows that it is busy.  Of its notifications the start
\* is the first and the end is the last.
Ended(e) == e.kind \in Ends
Between(t) == t \in busy /\ waiting[t] = "none"
WaitingInv ==
  \A t \in Threads : /\ waiting[t] = "resume" => t \notin busy
                     /\ waiting[t] = "turn" => t \in busy
RunningInv == \A t \in running : Between(t)
Follows(e, f) == e.thread = f.thread => ~ Ended(e) /\ f.kind # "started"
Sound(e) == Between(e.thread) /\ (Ended(e) => e.thread \notin running)
EventsInv ==
  /\ \A i \in DOMAIN events : Sound(events[i])
  /\ \A i, j \in DOMAIN events : i < j => Follows(events[i], events[j])
OutInv ==
  out # None => Sound(out) /\ \A i \in DOMAIN events : Follows(out, events[i])

TurnsInv == WaitingInv /\ RunningInv /\ EventsInv /\ OutInv
OneAtATime == QueuesInv /\ HandledInv /\ IdleInv /\ TurnsInv

-----------------------------------------------------------------------------
(* The files of a replacement.                                             *)

\* What the stdin thread holds is what the files are.
ScannedInv ==
  /\ pc \in Refusing => cur.kind = "resume"
  /\ pc \in {"backup", "displace"} => rollout[cur.thread] = cur.seen
  /\ pc \in {"install", "discard"} => cur.moved = cur.seen
  /\ pc = "install" => rollout[cur.thread] = None
  /\ pc = "discard" => rollout[cur.thread] = Sanitized(cur.seen)

\* A chat's first content is in its rollout until it is in its backup.
BackupInv ==
  /\ \A t \in Threads :
       IF backup[t] = None THEN rollout[t] # None /\ original[t] \subseteq rollout[t]
       ELSE backup[t] # {} => original[t] \subseteq backup[t]
  /\ pc \in {"displace", "install", "discard"} => backup[cur.thread] # None

FilesInv == ScannedInv /\ BackupInv /\ MessagesKept

\* A hypothesis of what follows: the mark of an absent file is not a content.  It
\* is no ASSUME of HistoryBridge because TLC cannot compare a model value with the
\* subsets of an infinite set; that a model value is none is how TLC takes it.
AbsentIsNoContent == None \notin Content

-----------------------------------------------------------------------------
(* Queues.                                                                 *)

\* Where the elements of the rest of a queue were.
LEMMA TailIndex ==
  ASSUME NEW S, NEW q \in Seq(S), q # <<>>
  PROVE  /\ 1 \in DOMAIN q /\ Head(q) = q[1]
         /\ \A i \in DOMAIN Tail(q) : /\ i \in Nat /\ i + 1 \in DOMAIN q /\ i + 1 # 1
                                      /\ Tail(q)[i] = q[i + 1]
OBVIOUS

\* Where the elements of a longer queue come from.
LEMMA AppendIndex ==
  ASSUME NEW S, NEW q \in Seq(S), NEW m \in S
  PROVE  \A i \in DOMAIN Append(q, m) :
           \/ i \in DOMAIN q /\ i < Len(q) + 1 /\ Append(q, m)[i] = q[i]
           \/ i = Len(q) + 1 /\ Append(q, m)[i] = m
OBVIOUS

\* What is in a queue is one of its elements.
LEMMA AtIndex ==
  ASSUME NEW S, NEW q \in Seq(S)
  PROVE  \A i \in DOMAIN q : q[i] \in S
OBVIOUS

\* Every request and every notification is of a chat.
LEMMA QueuedThreads ==
  ASSUME CodexOK
  PROVE  /\ \A i \in DOMAIN inbox : inbox[i].thread \in Threads
         /\ \A i \in DOMAIN wire : wire[i].thread \in Threads
         /\ \A i \in DOMAIN events : events[i].thread \in Threads
         /\ out # None => out.thread \in Threads
<1>1. \A i \in DOMAIN inbox : inbox[i] \in Request BY AtIndex DEF CodexOK
<1>2. \A i \in DOMAIN wire : wire[i] \in Order BY AtIndex DEF CodexOK
<1>3. \A i \in DOMAIN events : events[i] \in Event BY AtIndex DEF CodexOK
<1>4. out # None => out \in Event BY DEF CodexOK
<1>5. QED BY <1>1, <1>2, <1>3, <1>4 DEF Request, Order, Event

\* A request that is taken from a queue leaves no other of its chat.
LEMMA TailDistinct ==
  ASSUME NEW S, NEW q \in Seq(S), q # <<>>, Distinct(q)
  PROVE  /\ Distinct(Tail(q)) /\ Avoids(Tail(q), Head(q).thread)
         /\ \A t : Avoids(q, t) => Avoids(Tail(q), t) /\ t # Head(q).thread
<1>1. /\ 1 \in DOMAIN q /\ Head(q) = q[1]
      /\ \A i \in DOMAIN Tail(q) : /\ i \in Nat /\ i + 1 \in DOMAIN q /\ i + 1 # 1
                                   /\ Tail(q)[i] = q[i + 1]
  BY TailIndex
<1>2. Distinct(Tail(q))
  <2> SUFFICES ASSUME NEW i \in DOMAIN Tail(q), NEW j \in DOMAIN Tail(q),
                      Tail(q)[i].thread = Tail(q)[j].thread
               PROVE  i = j
    BY DEF Distinct
  <2>1. i + 1 = j + 1 BY <1>1 DEF Distinct
  <2>2. QED BY <1>1, <2>1
<1>3. Avoids(Tail(q), Head(q).thread)
  <2> SUFFICES ASSUME NEW i \in DOMAIN Tail(q), Tail(q)[i].thread = Head(q).thread
               PROVE  FALSE
    BY DEF Avoids
  <2>1. /\ i + 1 \in DOMAIN q /\ i + 1 # 1 /\ 1 \in DOMAIN q
        /\ q[i + 1].thread = q[1].thread
    BY <1>1
  <2>2. QED BY <2>1 DEF Distinct
<1>4. \A t : Avoids(q, t) => Avoids(Tail(q), t) /\ t # Head(q).thread
  <2> SUFFICES ASSUME NEW t, Avoids(q, t)
               PROVE  Avoids(Tail(q), t) /\ t # Head(q).thread
    OBVIOUS
  <2>1. Avoids(Tail(q), t) BY <1>1 DEF Avoids
  <2>2. QED BY <1>1, <2>1 DEF Avoids
<1>5. QED BY <1>2, <1>3, <1>4

\* A request may join a queue that has none of its chat.
LEMMA AppendDistinct ==
  ASSUME NEW S, NEW q \in Seq(S), NEW m \in S, Distinct(q), Avoids(q, m.thread)
  PROVE  /\ Distinct(Append(q, m))
         /\ \A t : Avoids(q, t) /\ t # m.thread => Avoids(Append(q, m), t)
<1>1. \A i \in DOMAIN Append(q, m) :
        \/ i \in DOMAIN q /\ Append(q, m)[i] = q[i]
        \/ i = Len(q) + 1 /\ Append(q, m)[i] = m
  BY AppendIndex
<1>2. Distinct(Append(q, m)) BY <1>1 DEF Distinct, Avoids
<1>3. QED BY <1>1, <1>2 DEF Avoids

\* What is awaited stays so while the rest of the queue's chats wait.
LEMMA AwaitedTail ==
  ASSUME NEW S, NEW q \in Seq(S), q # <<>>, Awaited(q)
  PROVE  Awaited(Tail(q)) /\ waiting[Head(q).thread] = Head(q).kind
BY TailIndex DEF Awaited

-----------------------------------------------------------------------------
(* One request at a time: steps that answer, take and forward.             *)

\* The requests under way are those of QueuesInv and HandledInv if the only chat
\* whose waiting changes is in none of the queues.
LEMMA QueuesStay ==
  ASSUME CodexOK, QueuesInv, UNCHANGED <<inbox, wire>>, NEW t,
         Avoids(inbox, t), Avoids(wire, t),
         \A u \in Threads : u # t => waiting'[u] = waiting[u]
  PROVE  QueuesInv'
<1>1. Awaited(inbox)' /\ Awaited(wire)' BY QueuedThreads DEF QueuesInv, Awaited, Avoids
<1>2. QED BY <1>1 DEF QueuesInv, Distinct, Avoids

\* Nothing that OneAtATime is about changes, but the step of the stdin thread.
LEMMA HandlingStays ==
  ASSUME OneAtATime, UNCHANGED <<waiting, busy, inbox, wire, events, out, running>>,
         \/ UNCHANGED <<pc, cur>>
         \/ pc \notin Handling /\ pc' \notin Handling /\ UNCHANGED cur
         \/ pc \in Handling /\ pc' \in Handling /\ cur'.thread = cur.thread /\ cur'.kind = cur.kind
  PROVE  OneAtATime'
<1> USE DEF OneAtATime
<1>1. QueuesInv' BY DEF QueuesInv, Distinct, Awaited, Avoids
<1>2. HandledInv' BY DEF HandledInv, Avoids
<1>3. IdleInv' BY DEF IdleInv
<1>4. TurnsInv'
  BY DEF TurnsInv, WaitingInv, RunningInv, EventsInv, OutInv, Between, Ended, Sound, Follows
<1>5. QED BY <1>1, <1>2, <1>3, <1>4

\* A chat that waits for the answer to a request stops to wait for it: no turn
\* of it runs or has just ended.
LEMMA TurnsLetAnswer ==
  ASSUME CodexOK, TurnsInv, NEW t \in Threads, waiting[t] # "none",
         waiting' = [waiting EXCEPT ![t] = "none"],
         busy' \in {busy, busy \ {t}}, UNCHANGED <<running, events, out>>
  PROVE  TurnsInv'
<1> USE DEF TurnsInv
<1>1. \A u \in Threads : waiting'[u] = IF u = t THEN "none" ELSE waiting[u] BY DEF CodexOK
<1>2. WaitingInv' BY <1>1 DEF WaitingInv
<1>3. \A u \in Threads : Between(u) => Between(u)' BY <1>1 DEF Between
<1>4. RunningInv' BY <1>3 DEF RunningInv, CodexOK
<1>5. EventsInv' BY <1>3, QueuedThreads DEF EventsInv, Ended, Sound, Follows
<1>6. OutInv' BY <1>3, QueuedThreads DEF OutInv, Ended, Sound, Follows
<1>7. QED BY <1>2, <1>4, <1>5, <1>6

\* A refusal.
LEMMA RefuseOne ==
  ASSUME CodexOK, StdinOK, OneAtATime, pc \in Handling, Refuse(cur.thread),
         UNCHANGED <<wire, running, events, out>>
  PROVE  OneAtATime'
<1> DEFINE t == cur.thread
<1>1. t \in Threads /\ cur.kind \in {"resume", "turn"} BY DEF StdinOK, LocalsOK
<1>2. waiting[t] = cur.kind /\ Avoids(inbox, t) /\ Avoids(wire, t)
  BY DEF OneAtATime, HandledInv
<1>3. /\ waiting' = [waiting EXCEPT ![t] = "none"] /\ busy' \in {busy, busy \ {t}}
      /\ UNCHANGED inbox /\ pc' = "idle" /\ cur' = Idle
  BY DEF Refuse
<1>4. TurnsInv' BY <1>1, <1>2, <1>3, TurnsLetAnswer DEF OneAtATime
<1>5. \A u \in Threads : u # t => waiting'[u] = waiting[u] BY <1>3 DEF CodexOK
<1>6. QueuesInv' BY <1>2, <1>3, <1>5, QueuesStay DEF OneAtATime
<1>7. HandledInv' /\ IdleInv' BY <1>3 DEF HandledInv, IdleInv, Handling, Refusing
<1>8. QED BY <1>4, <1>6, <1>7 DEF OneAtATime

\* A request is taken from the inbox.
LEMMA TakeOne ==
  ASSUME CodexOK, OneAtATime, Take
  PROVE  OneAtATime'
<1> DEFINE r == Head(inbox)
<1>1. /\ inbox # <<>> /\ inbox' = Tail(inbox) /\ pc' = "route"
      /\ UNCHANGED <<waiting, busy, wire, events, out, running>>
      /\ cur' = [thread |-> r.thread, kind |-> r.kind, route |-> None, seen |-> {}, moved |-> {}]
  BY DEF Take, codex
<1>2. cur'.thread = r.thread /\ cur'.kind = r.kind BY <1>1
<1>3. inbox \in Seq(Request) BY DEF CodexOK
<1>4. Distinct(inbox) /\ Awaited(inbox) BY DEF OneAtATime, QueuesInv
<1>5. /\ Distinct(Tail(inbox)) /\ Avoids(Tail(inbox), r.thread)
      /\ Awaited(Tail(inbox)) /\ waiting[r.thread] = r.kind
  BY <1>1, <1>3, <1>4, TailDistinct, AwaitedTail
<1>6. 1 \in DOMAIN inbox /\ r = inbox[1]
      /\ \A i \in DOMAIN Tail(inbox) : i + 1 \in DOMAIN inbox /\ Tail(inbox)[i] = inbox[i + 1]
  BY <1>1, <1>3, TailIndex
<1>7. Avoids(wire, r.thread) /\ \A i \in DOMAIN Tail(inbox) : Avoids(wire, Tail(inbox)[i].thread)
  BY <1>6 DEF OneAtATime, QueuesInv
<1>8. QueuesInv'
  BY <1>1, <1>5, <1>7 DEF OneAtATime, QueuesInv, Distinct, Awaited, Avoids
<1>9. HandledInv' BY <1>1, <1>2, <1>5, <1>7 DEF HandledInv, Avoids
<1>10. IdleInv' BY <1>1 DEF IdleInv, Handling, Refusing
<1>11. TurnsInv'
  BY <1>1
  DEF OneAtATime, TurnsInv, WaitingInv, RunningInv, EventsInv, OutInv, Between, Ended, Sound,
      Follows
<1>12. QED BY <1>8, <1>9, <1>10, <1>11 DEF OneAtATime

\* A request is forwarded.
LEMMA ForwardOne ==
  ASSUME CodexOK, StdinOK, OneAtATime, Forward
  PROVE  OneAtATime'
<1> DEFINE m == [thread |-> cur.thread, kind |-> cur.kind, conn |-> cur.route]
<1>1. pc = "forward" /\ pc' = "idle" /\ cur' = Idle /\ wire' = Append(wire, m)
      /\ UNCHANGED <<waiting, busy, inbox, events, out, running>>
  BY DEF Forward, client
<1>2. pc \in Handling /\ pc \in Handling \ {"route"} BY <1>1 DEF Handling, Refusing
<1>3. m \in Order BY <1>2 DEF StdinOK, LocalsOK, Order
<1>4. m.thread = cur.thread /\ m.kind = cur.kind OBVIOUS
<1> HIDE DEF m
<1>5. waiting[m.thread] = m.kind /\ Avoids(inbox, m.thread) /\ Avoids(wire, m.thread)
  BY <1>2, <1>4 DEF OneAtATime, HandledInv
<1>6. wire \in Seq(Order) BY DEF CodexOK
<1>7. Distinct(wire) /\ Awaited(wire) BY DEF OneAtATime, QueuesInv
<1>8. /\ Distinct(Append(wire, m))
      /\ \A t : Avoids(wire, t) /\ t # m.thread => Avoids(Append(wire, m), t)
  BY <1>3, <1>5, <1>6, <1>7, AppendDistinct
<1>9. Awaited(Append(wire, m)) BY <1>3, <1>5, <1>6, <1>7, AppendIndex DEF Awaited
<1>10. \A i \in DOMAIN inbox : Avoids(Append(wire, m), inbox[i].thread)
  <2> SUFFICES ASSUME NEW i \in DOMAIN inbox PROVE Avoids(Append(wire, m), inbox[i].thread)
    OBVIOUS
  <2>1. Avoids(wire, inbox[i].thread) BY DEF OneAtATime, QueuesInv
  <2>2. inbox[i].thread # m.thread BY <1>5 DEF Avoids
  <2>3. QED BY <1>8, <2>1, <2>2
<1>11. Distinct(wire') /\ Awaited(wire') /\ \A i \in DOMAIN inbox : Avoids(wire', inbox[i].thread)
  BY <1>1, <1>8, <1>9, <1>10
<1>12. QueuesInv'
  BY <1>1, <1>11 DEF OneAtATime, QueuesInv, Distinct, Awaited, Avoids
<1>13. HandledInv' /\ IdleInv' BY <1>1 DEF HandledInv, IdleInv, Handling, Refusing
<1>14. TurnsInv'
  BY <1>1
  DEF OneAtATime, TurnsInv, WaitingInv, RunningInv, EventsInv, OutInv, Between, Ended, Sound,
      Follows
<1>15. QED BY <1>12, <1>13, <1>14 DEF OneAtATime

-----------------------------------------------------------------------------
(* One request at a time: steps of the runtime and of the client.          *)

\* The runtime answers the first request on its stdin.
LEMMA AnswerOne ==
  ASSUME CodexOK, StdinOK, OneAtATime, wire # <<>>, wire' = Tail(wire),
         waiting' = [waiting EXCEPT ![Head(wire).thread] = "none"],
         UNCHANGED <<inbox, pc, cur>>
  PROVE  /\ QueuesInv' /\ HandledInv' /\ IdleInv'
         /\ Head(wire).thread \in Threads
         /\ waiting[Head(wire).thread] = Head(wire).kind
<1> DEFINE t == Head(wire).thread
<1>1. wire \in Seq(Order) BY DEF CodexOK
<1>2. Distinct(wire) /\ Awaited(wire) BY DEF OneAtATime, QueuesInv
<1>3. /\ Distinct(Tail(wire)) /\ Avoids(Tail(wire), t)
      /\ \A u : Avoids(wire, u) => Avoids(Tail(wire), u) /\ u # t
  BY <1>1, <1>2, TailDistinct
<1>4. Awaited(Tail(wire)) /\ waiting[t] = Head(wire).kind BY <1>1, <1>2, AwaitedTail
<1>5. t \in Threads
  <2>1. Head(wire) \in Order BY <1>1, QueueFacts
  <2>2. QED BY <2>1 DEF Order
<1>6. \A u \in Threads : u # t => waiting'[u] = waiting[u] BY DEF CodexOK
<1>7. Tail(wire) \in Seq(Order) BY <1>1, QueueFacts
<1>8. \A i \in DOMAIN Tail(wire) : Tail(wire)[i].thread \in Threads
  <2>1. \A i \in DOMAIN Tail(wire) : Tail(wire)[i] \in Order BY <1>7, AtIndex
  <2>2. QED BY <2>1 DEF Order
<1>9. \A i \in DOMAIN Tail(wire) : waiting'[Tail(wire)[i].thread] = Tail(wire)[i].kind
  BY <1>3, <1>4, <1>6, <1>8 DEF Avoids, Awaited
<1>10. \A i \in DOMAIN inbox : /\ Avoids(Tail(wire), inbox[i].thread)
                               /\ waiting'[inbox[i].thread] = inbox[i].kind
  <2> SUFFICES ASSUME NEW i \in DOMAIN inbox
               PROVE  /\ Avoids(Tail(wire), inbox[i].thread)
                      /\ waiting'[inbox[i].thread] = inbox[i].kind
    OBVIOUS
  <2>1. Avoids(wire, inbox[i].thread) /\ waiting[inbox[i].thread] = inbox[i].kind
    BY DEF OneAtATime, QueuesInv, Awaited
  <2>2. inbox[i].thread # t /\ Avoids(Tail(wire), inbox[i].thread) BY <1>3, <2>1
  <2>3. inbox[i].thread \in Threads BY QueuedThreads
  <2>4. QED BY <1>6, <2>1, <2>2, <2>3
<1>11. QueuesInv'
  BY <1>3, <1>9, <1>10 DEF OneAtATime, QueuesInv, Distinct, Awaited, Avoids
<1>12. HandledInv'
  <2> SUFFICES ASSUME pc \in Handling
               PROVE  /\ waiting'[cur.thread] = cur.kind
                      /\ Avoids(inbox, cur.thread) /\ Avoids(Tail(wire), cur.thread)
    BY DEF HandledInv, Avoids
  <2>1. /\ waiting[cur.thread] = cur.kind
        /\ Avoids(inbox, cur.thread) /\ Avoids(wire, cur.thread)
    BY DEF OneAtATime, HandledInv
  <2>2. cur.thread # t /\ Avoids(Tail(wire), cur.thread) BY <1>3, <2>1
  <2>3. cur.thread \in Threads BY DEF StdinOK, LocalsOK
  <2>4. QED BY <1>6, <2>1, <2>2, <2>3
<1>13. IdleInv' BY DEF OneAtATime, IdleInv
<1>14. QED BY <1>4, <1>5, <1>11, <1>12, <1>13

\* A chat is opened.
LEMMA ResumeOne ==
  ASSUME CodexOK, StdinOK, OneAtATime, RuntimeResumes
  PROVE  OneAtATime'
<1> DEFINE t == Head(wire).thread
<1>1. /\ wire # <<>> /\ Head(wire).kind = "resume" /\ wire' = Tail(wire)
      /\ waiting' = [waiting EXCEPT ![t] = "none"]
      /\ UNCHANGED <<inbox, pc, cur, busy, running, events, out>>
  BY DEF RuntimeResumes, Answer
<1>2. QueuesInv' /\ HandledInv' /\ IdleInv' /\ t \in Threads /\ waiting[t] = "resume"
  BY <1>1, AnswerOne
<1>3. TurnsInv' BY <1>1, <1>2, TurnsLetAnswer DEF OneAtATime
<1>4. QED BY <1>2, <1>3 DEF OneAtATime

\* A notification that may follow those before it joins them.
LEMMA QueueLengthens ==
  ASSUME CodexOK, EventsInv, OutInv, NEW e \in Event, events' = Append(events, e), UNCHANGED out,
         Sound(e)',
         \A f \in Event : Sound(f) =>
           Sound(f)' /\ (f.thread = e.thread => ~ Ended(f) /\ e.kind # "started")
  PROVE  EventsInv' /\ OutInv'
<1>1. events \in Seq(Event) BY DEF CodexOK
<1>2. \A i \in DOMAIN events' :
        \/ i \in DOMAIN events /\ i < Len(events) + 1 /\ events'[i] = events[i]
        \/ i = Len(events) + 1 /\ events'[i] = e
  BY <1>1, AppendIndex
<1>3. \A i \in DOMAIN events : events[i] \in Event /\ Sound(events[i])
  BY <1>1, AtIndex DEF EventsInv
<1>4. \A i \in DOMAIN events' : \E f \in Event : f = events'[i] /\ Sound(f)' BY <1>2, <1>3
<1>5. \A i \in DOMAIN events : Follows(events[i], e) BY <1>3 DEF Follows
<1>6. ASSUME NEW i \in DOMAIN events', NEW j \in DOMAIN events', i < j
      PROVE  Follows(events'[i], events'[j])
  <2>1. Len(events) \in Nat /\ DOMAIN events \subseteq Nat BY <1>1
  <2>2. i \in DOMAIN events /\ events'[i] = events[i] BY <1>2, <1>6, <2>1
  <2>3. CASE events'[j] = e BY <1>5, <2>2, <2>3
  <2>4. CASE j \in DOMAIN events /\ events'[j] = events[j] BY <1>6, <2>2, <2>4 DEF EventsInv
  <2>5. QED BY <1>2, <2>3, <2>4
<1>7. \A i \in DOMAIN events' : Sound(events[i])' BY <1>4 DEF Sound, Between, Ended
<1>8. EventsInv' BY <1>6, <1>7 DEF EventsInv, Follows, Ended
<1>9. out # None => out \in Event /\ Sound(out) BY DEF CodexOK, OutInv
<1>10. out # None => Sound(out)' /\ Follows(out, e) BY <1>9 DEF Follows, Sound, Between, Ended
<1>11. out # None => \A i \in DOMAIN events' : Follows(out, events'[i])
  BY <1>2, <1>10 DEF OutInv
<1>12. OutInv' BY <1>10, <1>11 DEF OutInv, Follows, Ended, Sound, Between
<1>13. QED BY <1>8, <1>12

\* A turn starts: the chat is busy, and no end of a turn of it is to be shown.
LEMMA StartOne ==
  ASSUME CodexOK, StdinOK, OneAtATime, RuntimeStartsTurn
  PROVE  OneAtATime'
<1>1. /\ wire # <<>> /\ Head(wire).kind = "turn" /\ wire' = Tail(wire)
      /\ waiting' = [waiting EXCEPT ![Head(wire).thread] = "none"]
      /\ UNCHANGED <<inbox, pc, cur, busy, out>>
  BY DEF RuntimeStartsTurn, Answer
<1>2. /\ QueuesInv' /\ HandledInv' /\ IdleInv' /\ Head(wire).thread \in Threads
      /\ waiting[Head(wire).thread] = "turn"
  BY <1>1, AnswerOne
<1>3. PICK t \in Threads : t = Head(wire).thread BY <1>2
<1> DEFINE e == [thread |-> t, kind |-> "started"]
<1>4. /\ waiting[t] = "turn" /\ waiting' = [waiting EXCEPT ![t] = "none"]
      /\ running' = running \cup {t} /\ events' = Append(events, e)
  BY <1>1, <1>2, <1>3 DEF RuntimeStartsTurn
<1>5. e \in Event /\ ~ Ended(e) /\ e.thread = t BY DEF Event, Ended, Ends
<1> HIDE DEF e
<1>6. \A u \in Threads : waiting'[u] = IF u = t THEN "none" ELSE waiting[u]
  BY <1>4 DEF CodexOK
<1>7. \A u \in Threads : Between(u) => Between(u)' /\ u # t
  BY <1>1, <1>4, <1>6 DEF Between
<1>8. WaitingInv' BY <1>1, <1>6 DEF OneAtATime, TurnsInv, WaitingInv
<1>9. Between(t)' BY <1>1, <1>4, <1>6 DEF OneAtATime, TurnsInv, WaitingInv, Between
<1>10. RunningInv' BY <1>4, <1>7, <1>9 DEF OneAtATime, TurnsInv, RunningInv, CodexOK
<1>11. \A f \in Event : Sound(f) => Sound(f)' /\ f.thread # t
  BY <1>4, <1>7 DEF Sound, Event, Ended
<1>12. Sound(e)' BY <1>5, <1>9 DEF Sound, Ended
<1>13. EventsInv' /\ OutInv'
  BY <1>1, <1>4, <1>5, <1>11, <1>12, QueueLengthens DEF OneAtATime, TurnsInv
<1>14. QED BY <1>2, <1>8, <1>10, <1>13 DEF OneAtATime, TurnsInv

\* An error of a turn or its end is reported: its end has not been.
LEMMA ReportOne ==
  ASSUME CodexOK, OneAtATime, NEW t \in Threads,
         RuntimeReportsError(t) \/ RuntimeEndsTurn(t)
  PROVE  OneAtATime'
<1>1. PICK kind \in Errors \cup Ends :
        /\ events' = Append(events, [thread |-> t, kind |-> kind])
        /\ running' = IF kind \in Ends THEN running \ {t} ELSE running
  BY DEF RuntimeReportsError, RuntimeEndsTurn, Errors, Ends
<1> DEFINE e == [thread |-> t, kind |-> kind]
<1>2. /\ t \in running /\ events' = Append(events, e)
      /\ running' = IF Ended(e) THEN running \ {t} ELSE running
      /\ UNCHANGED <<inbox, wire, waiting, busy, out, pc, cur>>
  BY <1>1 DEF RuntimeReportsError, RuntimeEndsTurn, client, Ended
<1>3. e \in Event /\ e.thread = t /\ e.kind # "started" BY <1>1 DEF Event, Ends, Errors
<1> HIDE DEF e
<1>4. Between(t) BY <1>2 DEF OneAtATime, TurnsInv, RunningInv
<1>5. \A u : Between(u)' <=> Between(u) BY <1>2 DEF Between
<1>6. QueuesInv' /\ HandledInv' /\ IdleInv'
  BY <1>2 DEF OneAtATime, QueuesInv, HandledInv, IdleInv, Distinct, Awaited, Avoids
<1>7. WaitingInv' /\ RunningInv'
  BY <1>2, <1>5 DEF OneAtATime, TurnsInv, WaitingInv, RunningInv
<1>8. \A f \in Event : Sound(f) => Sound(f)' /\ (f.thread = t => ~ Ended(f))
  BY <1>2, <1>5 DEF Sound, Ended
<1>9. Sound(e)' BY <1>2, <1>3, <1>4, <1>5 DEF Sound, Ended
<1>10. EventsInv' /\ OutInv'
  BY <1>2, <1>3, <1>8, <1>9, QueueLengthens DEF OneAtATime, TurnsInv
<1>11. QED BY <1>6, <1>7, <1>10 DEF OneAtATime, TurnsInv

\* A chat that waits for nothing has no request anywhere.
LEMMA NoneUnderWay ==
  ASSUME CodexOK, StdinOK, OneAtATime, NEW t \in Threads, waiting[t] = "none"
  PROVE  /\ Avoids(inbox, t) /\ Avoids(wire, t)
         /\ pc \in Handling => cur.thread # t
<1>1. \A i \in DOMAIN inbox : inbox[i] \in Request BY AtIndex DEF CodexOK
<1>2. \A i \in DOMAIN wire : wire[i] \in Order BY AtIndex DEF CodexOK
<1>3. Awaited(inbox) /\ Awaited(wire) BY DEF OneAtATime, QueuesInv
<1>4. Avoids(inbox, t) BY <1>1, <1>3 DEF Awaited, Avoids, Request
<1>5. Avoids(wire, t) BY <1>2, <1>3 DEF Awaited, Avoids, Order
<1>6. pc \in Handling => cur.thread # t
  BY DEF OneAtATime, HandledInv, StdinOK, LocalsOK
<1>7. QED BY <1>4, <1>5, <1>6

\* The client asks for something of a chat that waits for nothing.
LEMMA AskOne ==
  ASSUME CodexOK, StdinOK, OneAtATime, NEW m \in Request, waiting[m.thread] = "none",
         waiting' = [waiting EXCEPT ![m.thread] = m.kind], inbox' = Append(inbox, m),
         UNCHANGED <<wire, pc, cur>>
  PROVE  QueuesInv' /\ HandledInv' /\ IdleInv'
<1> DEFINE t == m.thread
<1>1. t \in Threads BY DEF Request
<1>2. Avoids(inbox, t) /\ Avoids(wire, t) /\ (pc \in Handling => cur.thread # t)
  BY <1>1, NoneUnderWay
<1>3. \A u \in Threads : waiting'[u] = IF u = t THEN m.kind ELSE waiting[u]
  BY DEF CodexOK
<1>4. inbox \in Seq(Request) BY DEF CodexOK
<1>5. /\ Distinct(inbox) /\ Awaited(inbox) /\ Distinct(wire) /\ Awaited(wire)
      /\ \A i \in DOMAIN inbox : Avoids(wire, inbox[i].thread)
  BY DEF OneAtATime, QueuesInv
<1>6. /\ Distinct(Append(inbox, m))
      /\ \A u : Avoids(inbox, u) /\ u # t => Avoids(Append(inbox, m), u)
  BY <1>2, <1>4, <1>5, AppendDistinct
<1>7. \A i \in DOMAIN Append(inbox, m) :
        \/ i \in DOMAIN inbox /\ Append(inbox, m)[i] = inbox[i]
        \/ i = Len(inbox) + 1 /\ Append(inbox, m)[i] = m
  BY <1>4, AppendIndex
<1>8. \A i \in DOMAIN Append(inbox, m) :
        /\ waiting'[Append(inbox, m)[i].thread] = Append(inbox, m)[i].kind
        /\ Avoids(wire, Append(inbox, m)[i].thread)
  <2> SUFFICES ASSUME NEW i \in DOMAIN Append(inbox, m)
               PROVE  /\ waiting'[Append(inbox, m)[i].thread] = Append(inbox, m)[i].kind
                      /\ Avoids(wire, Append(inbox, m)[i].thread)
    OBVIOUS
  <2>1. CASE i \in DOMAIN inbox /\ Append(inbox, m)[i] = inbox[i]
    <3>1. inbox[i].thread \in Threads /\ inbox[i].thread # t
      BY <1>2, <2>1, QueuedThreads DEF Avoids
    <3>2. waiting[inbox[i].thread] = inbox[i].kind BY <1>5, <2>1 DEF Awaited
    <3>3. QED BY <1>3, <1>5, <2>1, <3>1, <3>2
  <2>2. CASE Append(inbox, m)[i] = m
    BY <1>1, <1>2, <1>3, <2>2
  <2>3. QED BY <1>7, <2>1, <2>2
<1>9. \A i \in DOMAIN wire : waiting'[wire[i].thread] = wire[i].kind
  BY <1>2, <1>3, <1>5, QueuedThreads DEF Awaited, Avoids
<1>10. QueuesInv'
  BY <1>5, <1>6, <1>8, <1>9 DEF QueuesInv, Distinct, Awaited, Avoids
<1>11. HandledInv'
  <2> SUFFICES ASSUME pc \in Handling
               PROVE  /\ waiting'[cur.thread] = cur.kind
                      /\ Avoids(Append(inbox, m), cur.thread) /\ Avoids(wire, cur.thread)
    BY DEF HandledInv, Avoids
  <2>1. /\ waiting[cur.thread] = cur.kind
        /\ Avoids(inbox, cur.thread) /\ Avoids(wire, cur.thread)
    BY DEF OneAtATime, HandledInv
  <2>2. cur.thread \in Threads BY DEF StdinOK, LocalsOK
  <2>3. QED BY <1>2, <1>3, <1>6, <2>1, <2>2
<1>12. IdleInv' BY DEF OneAtATime, IdleInv
<1>13. QED BY <1>10, <1>11, <1>12

\* A chat that is not busy is opened, or begins a turn: nothing of it was going on.
LEMMA TurnsLetAsk ==
  ASSUME CodexOK, TurnsInv, NEW t \in Threads, NEW kind \in {"resume", "turn"},
         t \notin busy, waiting' = [waiting EXCEPT ![t] = kind],
         busy' = IF kind = "turn" THEN busy \cup {t} ELSE busy,
         UNCHANGED <<running, events, out>>
  PROVE  TurnsInv'
<1>1. \A u \in Threads : waiting'[u] = IF u = t THEN kind ELSE waiting[u] BY DEF CodexOK
<1>2. WaitingInv' BY <1>1 DEF TurnsInv, WaitingInv
<1>3. \A u \in Threads : Between(u) => Between(u)' BY <1>1 DEF Between
<1>4. RunningInv' BY <1>3 DEF TurnsInv, RunningInv, CodexOK
<1>5. EventsInv' BY <1>3, QueuedThreads DEF TurnsInv, EventsInv, Ended, Sound, Follows
<1>6. OutInv' BY <1>3, QueuedThreads DEF TurnsInv, OutInv, Ended, Sound, Follows
<1>7. QED BY <1>2, <1>4, <1>5, <1>6 DEF TurnsInv

\* The client opens a chat.
LEMMA AskResumeOne ==
  ASSUME CodexOK, StdinOK, OneAtATime, NEW t \in Threads, AskResume(t)
  PROVE  OneAtATime'
<1> DEFINE m == [thread |-> t, kind |-> "resume"]
<1>1. /\ waiting[t] = "none" /\ t \notin busy
      /\ waiting' = [waiting EXCEPT ![t] = "resume"] /\ inbox' = Append(inbox, m)
      /\ UNCHANGED <<wire, pc, cur, busy, running, events, out>>
  BY DEF AskResume, codex
<1>2. m \in Request /\ m.thread = t /\ m.kind = "resume" BY DEF Request
<1> HIDE DEF m
<1>3. QueuesInv' /\ HandledInv' /\ IdleInv' BY <1>1, <1>2, AskOne
<1>4. TurnsInv' BY <1>1, TurnsLetAsk DEF OneAtATime
<1>5. QED BY <1>3, <1>4 DEF OneAtATime

\* The client begins a turn.
LEMMA AskTurnOne ==
  ASSUME CodexOK, StdinOK, OneAtATime, NEW t \in Threads, AskTurn(t)
  PROVE  OneAtATime'
<1> DEFINE m == [thread |-> t, kind |-> "turn"]
<1>1. /\ waiting[t] = "none" /\ t \notin busy /\ busy' = busy \cup {t}
      /\ waiting' = [waiting EXCEPT ![t] = "turn"] /\ inbox' = Append(inbox, m)
      /\ UNCHANGED <<wire, pc, cur, running, events, out>>
  BY DEF AskTurn, codex
<1>2. m \in Request /\ m.thread = t /\ m.kind = "turn" BY DEF Request
<1> HIDE DEF m
<1>3. QueuesInv' /\ HandledInv' /\ IdleInv' BY <1>1, <1>2, AskOne
<1>4. TurnsInv' BY <1>1, TurnsLetAsk DEF OneAtATime
<1>5. QED BY <1>3, <1>4 DEF OneAtATime

\* A notification is taken from the runtime: no end of its chat's turn came before.
LEMMA ShowOne ==
  ASSUME CodexOK, OneAtATime, ShowEvent
  PROVE  OneAtATime'
<1>1. /\ out = None /\ events # <<>> /\ out' = Head(events) /\ events' = Tail(events)
      /\ UNCHANGED <<inbox, wire, waiting, busy, running, pc, cur>>
  BY DEF ShowEvent, client
<1>2. QueuesInv' /\ HandledInv' /\ IdleInv'
  BY <1>1 DEF OneAtATime, QueuesInv, HandledInv, IdleInv, Distinct, Awaited, Avoids
<1>3. WaitingInv' /\ RunningInv'
  BY <1>1 DEF OneAtATime, TurnsInv, WaitingInv, RunningInv, Between
<1>4. events \in Seq(Event) BY DEF CodexOK
<1>5. /\ 1 \in DOMAIN events /\ Head(events) = events[1]
      /\ \A i \in DOMAIN Tail(events) : /\ i \in Nat /\ i + 1 \in DOMAIN events /\ i + 1 # 1
                                        /\ Tail(events)[i] = events[i + 1]
  BY <1>1, <1>4, TailIndex
<1>6. /\ \A i \in DOMAIN events : Sound(events[i])
      /\ \A i, j \in DOMAIN events : i < j => Follows(events[i], events[j])
  BY DEF OneAtATime, TurnsInv, EventsInv
<1>7. \A f : Sound(f)' <=> Sound(f) BY <1>1 DEF Sound, Between, Ended
<1>8. \A i \in DOMAIN Tail(events) : Sound(Tail(events)[i])
  BY <1>5, <1>6
<1>9. \A i, j \in DOMAIN Tail(events) : i < j => Follows(Tail(events)[i], Tail(events)[j])
  <2> SUFFICES ASSUME NEW i \in DOMAIN Tail(events), NEW j \in DOMAIN Tail(events), i < j
               PROVE  Follows(Tail(events)[i], Tail(events)[j])
    OBVIOUS
  <2>1. i + 1 < j + 1 BY <1>5
  <2>2. QED BY <1>5, <1>6, <2>1
<1>10. EventsInv' BY <1>1, <1>7, <1>8, <1>9 DEF EventsInv, Follows, Ended
<1>11. Sound(Head(events)) BY <1>5, <1>6
<1>12. \A i \in DOMAIN Tail(events) : Follows(Head(events), Tail(events)[i])
  <2> SUFFICES ASSUME NEW i \in DOMAIN Tail(events)
               PROVE  Follows(Head(events), Tail(events)[i])
    OBVIOUS
  <2>1. i \in Nat /\ i + 1 # 1 /\ 1 < i + 1 BY <1>5
  <2>2. QED BY <1>5, <1>6, <2>1
<1>13. OutInv' BY <1>1, <1>7, <1>11, <1>12 DEF OutInv, Follows, Ended
<1>14. QED BY <1>2, <1>3, <1>10, <1>13 DEF OneAtATime, TurnsInv

\* It is relayed to the client, which may go on with the chat.
LEMMA RelayOne ==
  ASSUME CodexOK, OneAtATime, RelayEvent
  PROVE  OneAtATime'
<1>1. /\ out # None /\ busy' = SeenEnd(out) /\ out' = None
      /\ UNCHANGED <<inbox, wire, waiting, running, events, pc, cur>>
  BY DEF RelayEvent, codex
<1>2. QueuesInv' /\ HandledInv' /\ IdleInv'
  BY <1>1 DEF OneAtATime, QueuesInv, HandledInv, IdleInv, Distinct, Awaited, Avoids
<1>3. OutInv' BY <1>1 DEF OutInv
<1>4. CASE ~ Ended(out)
  <2>1. UNCHANGED busy BY <1>1, <1>4 DEF SeenEnd, Ended
  <2>2. WaitingInv' /\ RunningInv' /\ EventsInv'
    BY <1>1, <2>1
    DEF OneAtATime, TurnsInv, WaitingInv, RunningInv, EventsInv, Between, Ended, Sound, Follows
  <2>3. QED BY <1>2, <1>3, <2>2 DEF OneAtATime, TurnsInv
<1>5. CASE Ended(out)
  <2>1. busy' = busy \ {out.thread} BY <1>1, <1>5 DEF SeenEnd, Ended
  <2>2. /\ waiting[out.thread] = "none" /\ out.thread \notin running
        /\ \A i \in DOMAIN events : events[i].thread # out.thread
    BY <1>1, <1>5 DEF OneAtATime, TurnsInv, OutInv, Between, Sound, Follows
  <2>3. \A u : Between(u) /\ u # out.thread => Between(u)' BY <1>1, <2>1 DEF Between
  <2>4. WaitingInv' BY <1>1, <2>1, <2>2 DEF OneAtATime, TurnsInv, WaitingInv
  <2>5. RunningInv' BY <1>1, <2>2, <2>3 DEF OneAtATime, TurnsInv, RunningInv
  <2>6. EventsInv'
    BY <1>1, <2>2, <2>3 DEF OneAtATime, TurnsInv, EventsInv, Ended, Sound, Follows
  <2>7. QED BY <1>2, <1>3, <2>4, <2>5, <2>6 DEF OneAtATime, TurnsInv
<1>6. QED BY <1>4, <1>5

\* Nothing is left of what was under way when the bridge ends.
LEMMA ExitOne ==
  ASSUME Exit
  PROVE  OneAtATime'
<1>1. /\ inbox' = <<>> /\ wire' = <<>> /\ events' = <<>> /\ out' = None
      /\ running' = {} /\ waiting' = [t \in Threads |-> "none"] /\ busy' = {}
      /\ pc' = "down" /\ cur' = Idle
  BY DEF Exit
<1>2. QueuesInv' BY <1>1 DEF QueuesInv, Distinct, Awaited, Avoids
<1>3. HandledInv' /\ IdleInv' BY <1>1 DEF HandledInv, IdleInv, Handling, Refusing
<1>4. WaitingInv' /\ RunningInv' /\ EventsInv' /\ OutInv'
  BY <1>1 DEF WaitingInv, RunningInv, EventsInv, OutInv
<1>5. QED BY <1>2, <1>3, <1>4 DEF OneAtATime, TurnsInv

-----------------------------------------------------------------------------
(* One request at a time: every step.                                      *)

\* A step of the stdin thread between the reading of a request and its
\* forwarding refuses the request or goes on with it.
LEMMA HandledOn ==
  ASSUME StdinOK, CheckRoute \/ Scan \/ BackUp \/ Displace \/ Install \/ Discard
  PROVE  /\ pc \in Handling
         /\ UNCHANGED <<wire, running, events, out, inbox, status>>
         /\ \/ Refuse(cur.thread)
            \/ /\ pc' \in Handling /\ cur'.thread = cur.thread /\ cur'.kind = cur.kind
               /\ UNCHANGED <<waiting, busy>>
<1>1. CASE CheckRoute
  BY <1>1 DEF CheckRoute, Refuse, Handling, Refusing, codex, client, StdinOK
<1>2. CASE Scan
  BY <1>2 DEF Scan, Refuse, Handling, Refusing, codex, client, StdinOK
<1>3. CASE BackUp
  BY <1>3 DEF BackUp, Refuse, Handling, Refusing, codex, client, StdinOK
<1>4. CASE Displace
  BY <1>4 DEF Displace, Refuse, Handling, Refusing, codex, client, StdinOK
<1>5. CASE Install
  BY <1>5 DEF Install, Refuse, Handling, Refusing, codex, client, StdinOK
<1>6. CASE Discard
  BY <1>6 DEF Discard, Refuse, Handling, Refusing, codex, client, StdinOK
<1>7. QED BY <1>1, <1>2, <1>3, <1>4, <1>5, <1>6

\* Before the bridge is started nothing is under way.
LEMMA OneInit == Init => OneAtATime
<1> SUFFICES ASSUME Init PROVE OneAtATime
  OBVIOUS
<1>1. /\ inbox = <<>> /\ wire = <<>> /\ events = <<>> /\ out = None
      /\ running = {} /\ waiting = [t \in Threads |-> "none"] /\ busy = {}
      /\ pc = "down" /\ cur = Idle
  BY DEF Init
<1>2. QueuesInv BY <1>1 DEF QueuesInv, Distinct, Awaited, Avoids
<1>3. HandledInv /\ IdleInv BY <1>1 DEF HandledInv, IdleInv, Handling, Refusing
<1>4. WaitingInv /\ RunningInv /\ EventsInv /\ OutInv
  BY <1>1 DEF WaitingInv, RunningInv, EventsInv, OutInv
<1>5. QED BY <1>2, <1>3, <1>4 DEF OneAtATime, TurnsInv

\* And every step keeps it to one request of a chat.
LEMMA OneStep == TypeInv /\ OneAtATime /\ [Next]_vars => OneAtATime'
<1> SUFFICES ASSUME CodexOK, StdinOK, OneAtATime, [Next]_vars PROVE OneAtATime'
  BY DEF TypeInv
<1>1. CASE Panel \/ RuntimeLoads \/ UNCHANGED vars
  <2>1. UNCHANGED <<waiting, busy, inbox, wire, events, out, running, pc, cur>>
    BY <1>1 DEF Panel, SwitchConfig, SwitchRoute, SwitchUndo, PrepareBridge, RuntimeLoads, vars,
                codex, client
  <2>2. QED BY <2>1, HandlingStays
<1>2. CASE Spawn \/ ReadInitialRoute
  <2>1. /\ UNCHANGED <<waiting, busy, inbox, wire, events, out, running, cur>>
        /\ pc \notin Handling /\ pc' \notin Handling
    BY <1>2 DEF Spawn, ReadInitialRoute, codex, client, Handling, Refusing
  <2>2. QED BY <2>1, HandlingStays
<1>3. CASE CheckRoute \/ Scan \/ BackUp \/ Displace \/ Install \/ Discard
  <2>1. CASE Refuse(cur.thread) BY <1>3, <2>1, HandledOn, RefuseOne
  <2>2. CASE ~ Refuse(cur.thread)
    <3>1. /\ pc \in Handling /\ pc' \in Handling
          /\ cur'.thread = cur.thread /\ cur'.kind = cur.kind
          /\ UNCHANGED <<waiting, busy, inbox, wire, events, out, running>>
      BY <1>3, <2>2, HandledOn
    <3>2. QED BY <3>1, HandlingStays
  <2>3. QED BY <2>1, <2>2
<1>4. CASE Exit BY <1>4, ExitOne
<1>5. CASE Take BY <1>5, TakeOne
<1>6. CASE Forward BY <1>6, ForwardOne
<1>7. CASE ShowEvent BY <1>7, ShowOne
<1>8. CASE RelayEvent BY <1>8, RelayOne
<1>9. CASE RuntimeResumes BY <1>9, ResumeOne
<1>10. CASE RuntimeStartsTurn BY <1>10, StartOne
<1>11. ASSUME NEW t \in Threads, RuntimeReportsError(t) \/ RuntimeEndsTurn(t)
       PROVE  OneAtATime'
  BY <1>11, ReportOne
<1>12. ASSUME NEW t \in Threads, AskResume(t) PROVE OneAtATime' BY <1>12, AskResumeOne
<1>13. ASSUME NEW t \in Threads, AskTurn(t) PROVE OneAtATime' BY <1>13, AskTurnOne
<1>14. QED
  BY <1>1, <1>2, <1>3, <1>4, <1>5, <1>6, <1>7, <1>8, <1>9, <1>10, <1>11, <1>12, <1>13
  DEF Next, Stdin, Stdout, Runtime

-----------------------------------------------------------------------------
(* The files.                                                              *)

\* Before any bridge has run a chat is its rollout.
LEMMA FilesInit ==
  ASSUME AbsentIsNoContent, Init, TypeInv
  PROVE  FilesInv
<1>1. ScannedInv BY DEF Init, ScannedInv, Refusing
<1>2. \A t \in Threads : original[t] \in Content BY DEF TypeInv, ChatsOK
<1>3. \A t \in Threads : original[t] # None BY <1>2 DEF AbsentIsNoContent
<1>4. BackupInv BY <1>3 DEF Init, BackupInv
<1>5. MessagesKept
  <2> SUFFICES ASSUME NEW t \in Threads, NEW n \in 1 .. turns[t]
               PROVE  \E file \in Files(t) : \E i \in file : i.turn = n /\ i.kind = "message"
    BY DEF MessagesKept
  <2>1. turns[t] \in {0, 1} BY DEF Init
  <2>2. turns[t] = 1 /\ n = 1 BY <2>1
  <2>3. original[t] \in TurnItems(1, meta[t]) BY <2>2 DEF Init
  <2>4. [turn |-> 1, kind |-> "message", by |-> None] \in original[t] BY <2>3 DEF TurnItems
  <2>5. original[t] \in Files(t) BY <1>3 DEF Init, Files
  <2>6. QED BY <2>2, <2>4, <2>5
<1>6. QED BY <1>1, <1>4, <1>5 DEF FilesInv

\* A chat whose files keep all their items keeps its messages.
LEMMA MessagesStay ==
  ASSUME MessagesKept, UNCHANGED turns,
         \A t \in Threads : \A file \in Files(t) : \A i \in file :
           i.kind = "message" => \E new \in Files(t)' : i \in new
  PROVE  MessagesKept'
<1> SUFFICES ASSUME NEW t \in Threads, NEW n \in 1 .. turns[t]
             PROVE  \E file \in Files(t)' : \E i \in file : i.turn = n /\ i.kind = "message"
  BY DEF MessagesKept
<1>1. PICK file \in Files(t) : \E i \in file : i.turn = n /\ i.kind = "message"
  BY DEF MessagesKept
<1>2. PICK i \in file : i.turn = n /\ i.kind = "message" BY <1>1
<1>3. PICK new \in Files(t)' : i \in new BY <1>1, <1>2
<1>4. QED BY <1>2, <1>3

\* A step that leaves the files alone and replaces none.
LEMMA FilesStay ==
  ASSUME FilesInv, UNCHANGED <<rollout, strays, backup, turns, original>>,
         \/ UNCHANGED <<pc, cur>>
         \/ pc' \notin Refusing
         \/ pc' = "scan" /\ cur'.kind = "resume"
  PROVE  FilesInv'
<1>1. ScannedInv' BY DEF FilesInv, ScannedInv, Refusing
<1>2. BackupInv' BY DEF FilesInv, BackupInv, Refusing
<1>3. MessagesKept' BY DEF FilesInv, MessagesKept, Files
<1>4. QED BY <1>1, <1>2, <1>3 DEF FilesInv

\* A rollout is scanned; it is replaced if the runtime's provider needs it.
LEMMA FilesScan ==
  ASSUME StdinOK, FilesInv, Scan
  PROVE  FilesInv'
<1>1. UNCHANGED <<rollout, strays, backup, turns, original>> /\ pc = "scan"
  BY DEF Scan, chats
<1>2. CASE pc' \notin Refusing BY <1>1, <1>2, FilesStay
<1>3. CASE pc' \in Refusing
  <2>1. /\ pc' = "backup" /\ cur' = [cur EXCEPT !.seen = rollout[cur.thread]]
    BY <1>3 DEF Scan, Refuse, Refusing
  <2>2. cur'.thread = cur.thread /\ cur'.kind = cur.kind /\ cur'.seen = rollout[cur.thread]
    BY <2>1 DEF StdinOK
  <2>3. ScannedInv' BY <1>1, <2>1, <2>2 DEF FilesInv, ScannedInv, Refusing
  <2>4. BackupInv' BY <1>1, <2>1 DEF FilesInv, BackupInv
  <2>5. MessagesKept' BY <1>1 DEF FilesInv, MessagesKept, Files
  <2>6. QED BY <2>3, <2>4, <2>5 DEF FilesInv
<1>4. QED BY <1>2, <1>3

\* The backup is of the rollout that holds the chat's first content, or a part
\* of one that holds nothing.
LEMMA FilesBackUp ==
  ASSUME AbsentIsNoContent, ChatsOK, StdinOK, FilesInv, BackUp
  PROVE  FilesInv'
<1> DEFINE t == cur.thread
<1>1. pc = "backup" /\ t \in Threads /\ cur.kind = "resume" /\ rollout[t] = cur.seen
  BY DEF BackUp, StdinOK, LocalsOK, FilesInv, ScannedInv, Handling, Refusing
<1>2. UNCHANGED <<rollout, strays, turns, original>> BY DEF BackUp
<1>3. cur.seen \in Content /\ cur.seen # None /\ {} # None
  BY ConstantFacts DEF StdinOK, AbsentIsNoContent
<1>4. \/ backup' = backup
      \/ backup[t] = None /\ \E part \in {cur.seen, {}} : backup' = [backup EXCEPT ![t] = part]
  BY DEF BackUp
<1>5. \A u \in Threads :
        \/ backup'[u] = backup[u]
        \/ backup[u] = None /\ u = t /\ backup'[u] \in {cur.seen, {}}
  BY <1>1, <1>4 DEF ChatsOK, FileOfEach
<1>6. \/ pc' = "displace" /\ UNCHANGED cur /\ backup'[t] # None
      \/ pc' = "idle"
  <2>1. CASE pc' = "displace"
    <3>1. /\ UNCHANGED cur
          /\ backup' = IF backup[t] = None THEN [backup EXCEPT ![t] = cur.seen] ELSE backup
      BY <2>1 DEF BackUp, Refuse
    <3>2. QED BY <1>1, <1>3, <2>1, <3>1 DEF ChatsOK, FileOfEach
  <2>2. QED BY <2>1 DEF BackUp, Refuse
<1>7. ScannedInv'
  BY <1>1, <1>2, <1>6 DEF ScannedInv, Refusing
<1>8. \A u \in Threads :
        IF backup[u] = None THEN rollout[u] # None /\ original[u] \subseteq rollout[u]
        ELSE backup[u] # {} => original[u] \subseteq backup[u]
  BY DEF FilesInv, BackupInv
<1>9. \A u \in Threads :
        IF backup'[u] = None THEN rollout'[u] # None /\ original'[u] \subseteq rollout'[u]
        ELSE backup'[u] # {} => original'[u] \subseteq backup'[u]
  BY <1>1, <1>2, <1>3, <1>5, <1>8
<1>10. pc' \in {"displace", "install", "discard"} => backup'[cur'.thread] # None
  <2>1. CASE pc' = "idle" BY <2>1
  <2>2. QED BY <1>6, <2>1
<1>11. BackupInv' BY <1>9, <1>10 DEF BackupInv
<1>12. \A u \in Threads : Files(u) \subseteq Files(u)' BY <1>2, <1>5 DEF Files
<1>13. MessagesKept' BY <1>2, <1>12, MessagesStay DEF FilesInv
<1>14. QED BY <1>7, <1>11, <1>13 DEF FilesInv

\* The rollout that is moved aside is the one that was scanned.
LEMMA FilesDisplace ==
  ASSUME ChatsOK, StdinOK, FilesInv, Displace
  PROVE  FilesInv'
<1> DEFINE t == cur.thread
<1>1. /\ pc = "displace" /\ t \in Threads /\ cur.kind = "resume" /\ rollout[t] = cur.seen
      /\ backup[t] # None
  BY DEF Displace, StdinOK, LocalsOK, FilesInv, ScannedInv, BackupInv, Handling, Refusing
<1>2. UNCHANGED <<backup, turns, original>> BY DEF Displace
<1>3. CASE pc' = "install"
  <2>1. /\ strays' = [strays EXCEPT ![t] = @ \cup {rollout[t]}]
        /\ rollout' = [rollout EXCEPT ![t] = None]
        /\ cur' = [cur EXCEPT !.moved = rollout[t]]
    BY <1>3 DEF Displace, Refuse
  <2>2. cur'.thread = t /\ cur'.kind = cur.kind /\ cur'.seen = cur.seen /\ cur'.moved = rollout[t]
    BY <2>1 DEF StdinOK
  <2>3. \A u \in Threads : /\ rollout'[u] = IF u = t THEN None ELSE rollout[u]
                           /\ strays'[u] = IF u = t THEN strays[t] \cup {rollout[t]} ELSE strays[u]
    BY <2>1 DEF ChatsOK, FileOfEach
  <2>4. ScannedInv' BY <1>1, <1>3, <2>2, <2>3 DEF ScannedInv, Refusing
  <2>5. BackupInv' BY <1>1, <1>2, <2>2, <2>3 DEF FilesInv, BackupInv
  <2>6. \A u \in Threads : Files(u) \subseteq Files(u)' BY <1>2, <2>3 DEF Files
  <2>7. MessagesKept' BY <1>2, <2>6, MessagesStay DEF FilesInv
  <2>8. QED BY <2>4, <2>5, <2>7 DEF FilesInv
<1>4. CASE pc' # "install"
  <2>1. pc' = "idle" /\ UNCHANGED <<rollout, strays>>
    BY <1>4 DEF Displace, Refuse
  <2>2. QED BY <1>2, <2>1, FilesStay DEF Refusing
<1>5. QED BY <1>3, <1>4

\* The portable part takes the rollout's place, or the rollout comes back.
LEMMA FilesInstall ==
  ASSUME AbsentIsNoContent, ChatsOK, StdinOK, FilesInv, Install
  PROVE  FilesInv'
<1> DEFINE t == cur.thread
<1>1. /\ pc = "install" /\ t \in Threads /\ cur.kind = "resume" /\ rollout[t] = None
      /\ backup[t] # None /\ cur.moved = cur.seen
  BY DEF Install, StdinOK, LocalsOK, FilesInv, ScannedInv, BackupInv, Handling, Refusing
<1>2. UNCHANGED <<backup, turns, original>> BY DEF Install
<1>3. cur.moved \in Content /\ cur.moved # None BY DEF StdinOK, AbsentIsNoContent
<1>4. CASE pc' = "discard"
  <2>1. rollout' = [rollout EXCEPT ![t] = Sanitized(cur.seen)] /\ UNCHANGED <<strays, cur>>
    BY <1>4 DEF Install, Refuse
  <2>2. \A u \in Threads : rollout'[u] = IF u = t THEN Sanitized(cur.seen) ELSE rollout[u]
    BY <2>1 DEF ChatsOK, FileOfEach
  <2>3. ScannedInv' BY <1>1, <1>4, <2>1, <2>2 DEF ScannedInv, Refusing
  <2>4. BackupInv' BY <1>1, <1>2, <2>1, <2>2 DEF FilesInv, BackupInv
  <2>5. \A u \in Threads : Files(u) \subseteq Files(u)' BY <1>1, <1>2, <2>1, <2>2 DEF Files
  <2>6. MessagesKept' BY <1>2, <2>5, MessagesStay DEF FilesInv
  <2>7. QED BY <2>3, <2>4, <2>6 DEF FilesInv
<1>5. CASE pc' # "discard" /\ UNCHANGED <<rollout, strays>>
  <2>1. pc' = "idle" BY <1>5 DEF Install, Refuse
  <2>2. QED BY <1>2, <1>5, <2>1, FilesStay DEF Refusing
<1>6. CASE pc' # "discard" /\ ~ UNCHANGED <<rollout, strays>>
  <2>1. /\ rollout' = [rollout EXCEPT ![t] = cur.moved]
        /\ strays' = [strays EXCEPT ![t] = @ \ {cur.moved}]
        /\ pc' = "idle"
    BY <1>6 DEF Install, Refuse
  <2>2. \A u \in Threads : /\ rollout'[u] = IF u = t THEN cur.moved ELSE rollout[u]
                           /\ strays'[u] = IF u = t THEN strays[t] \ {cur.moved} ELSE strays[u]
    BY <2>1 DEF ChatsOK, FileOfEach
  <2>3. ScannedInv' BY <2>1 DEF ScannedInv, Refusing
  <2>4. BackupInv' BY <1>1, <1>2, <2>1, <2>2 DEF FilesInv, BackupInv
  <2>5. \A u \in Threads : Files(u) \subseteq Files(u)' BY <1>1, <1>2, <1>3, <2>2 DEF Files
  <2>6. MessagesKept' BY <1>2, <2>5, MessagesStay DEF FilesInv
  <2>7. QED BY <2>3, <2>4, <2>6 DEF FilesInv
<1>7. QED BY <1>4, <1>5, <1>6

\* What is removed at the end has its messages in the rollout.
LEMMA FilesDiscard ==
  ASSUME AbsentIsNoContent, ChatsOK, StdinOK, FilesInv, Discard
  PROVE  FilesInv'
<1> DEFINE t == cur.thread
<1>1. /\ pc = "discard" /\ t \in Threads /\ rollout[t] = Sanitized(cur.seen)
      /\ cur.moved = cur.seen
  BY DEF Discard, StdinOK, LocalsOK, FilesInv, ScannedInv, Handling, Refusing
<1>2. UNCHANGED <<rollout, backup, turns, original>> /\ pc' \in {"forward", "idle"}
  BY DEF Discard, Refuse
<1>3. CASE UNCHANGED strays BY <1>2, <1>3, FilesStay DEF Refusing
<1>4. CASE ~ UNCHANGED strays
  <2>1. strays' = [strays EXCEPT ![t] = @ \ {cur.moved}] BY <1>4 DEF Discard
  <2>2. \A u \in Threads :
          strays'[u] = IF u = t THEN strays[t] \ {cur.moved} ELSE strays[u]
    BY <2>1 DEF ChatsOK
  <2>3. ScannedInv' BY <1>2 DEF ScannedInv, Refusing
  <2>4. BackupInv' BY <1>2 DEF FilesInv, BackupInv
  <2>5. Sanitized(cur.seen) \in Content BY SanitizedContent DEF StdinOK
  <2>6. rollout[t] # None BY <1>1, <2>5 DEF AbsentIsNoContent
  <2>7. \A u \in Threads : \A file \in Files(u) : file \in Files(u)' \/ (u = t /\ file = cur.moved)
    BY <1>2, <2>2 DEF Files
  <2>8. \A i \in cur.moved : i.kind = "message" => i \in rollout[t]
    BY <1>1 DEF Sanitized
  <2>9. MessagesKept'
    <3>1. \A u \in Threads : \A file \in Files(u) : \A i \in file :
            i.kind = "message" => \E new \in Files(u)' : i \in new
      <4> SUFFICES ASSUME NEW u \in Threads, NEW file \in Files(u), NEW i \in file,
                          i.kind = "message"
                   PROVE  \E new \in Files(u)' : i \in new
        OBVIOUS
      <4>1. CASE file \in Files(u)' BY <4>1
      <4>2. CASE u = t /\ file = cur.moved
        <5>1. i \in rollout[t] BY <2>8, <4>2
        <5>2. rollout[t] \in Files(u)'
          BY <1>2, <2>6, <4>2 DEF Files
        <5>3. QED BY <5>1, <5>2
      <4>3. QED BY <2>7, <4>1, <4>2
    <3>2. QED BY <1>2, <3>1, MessagesStay DEF FilesInv
  <2>10. QED BY <2>3, <2>4, <2>9 DEF FilesInv
<1>5. QED BY <1>3, <1>4

\* A turn adds to its rollout, which is not being replaced.
LEMMA FilesEndTurn ==
  ASSUME AbsentIsNoContent, PanelOK, ChatsOK, CodexOK, StdinOK, OneAtATime, FilesInv,
         NEW t \in Threads, RuntimeEndsTurn(t)
  PROVE  FilesInv'
<1>1. /\ t \in running /\ turns' = [turns EXCEPT ![t] = @ + 1]
      /\ UNCHANGED <<strays, backup, original, pc, cur>>
  BY DEF RuntimeEndsTurn
<1>2. PICK items \in TurnItems(turns[t] + 1, Provider(runtime.conn)) :
        rollout' = [rollout EXCEPT ![t] = IF @ = None THEN items ELSE @ \cup items]
  BY DEF RuntimeEndsTurn
<1>3. Provider(runtime.conn) \in Providers
  BY <1>1, ConstantFacts DEF StdinOK, LocalsOK, PanelOK
<1>4. turns[t] \in Nat /\ turns[t] + 1 \in Nat BY DEF ChatsOK
<1>5. items \in Content BY <1>3, <1>4, TurnContent
<1>6. [turn |-> turns[t] + 1, kind |-> "message", by |-> None] \in items BY DEF TurnItems
<1>7. /\ \A u \in Threads : u # t => rollout'[u] = rollout[u] /\ turns'[u] = turns[u]
      /\ rollout'[t] = IF rollout[t] = None THEN items ELSE rollout[t] \cup items
      /\ turns'[t] = turns[t] + 1
  BY <1>1, <1>2 DEF ChatsOK, FileOfEach
<1>8. rollout'[t] \in Content BY <1>5, <1>7 DEF ChatsOK, FileOfEach, Content
<1>9. rollout'[t] # None BY <1>8 DEF AbsentIsNoContent
<1>10. pc \in Refusing => cur.thread # t
  <2>1. waiting[t] = "none"
    BY <1>1 DEF OneAtATime, TurnsInv, RunningInv, Between
  <2>2. QED BY <2>1, NoneUnderWay DEF Handling
<1>11. ScannedInv'
  <2>1. pc \in Refusing => rollout'[cur.thread] = rollout[cur.thread]
    BY <1>7, <1>10 DEF StdinOK, LocalsOK, Handling
  <2>2. QED BY <1>1, <2>1 DEF FilesInv, ScannedInv, Refusing
<1>12. BackupInv'
  <2>1. \A u \in Threads : rollout[u] # None =>
          rollout'[u] # None /\ rollout[u] \subseteq rollout'[u]
    BY <1>7, <1>9
  <2>2. \A u \in Threads :
          IF backup'[u] = None THEN rollout'[u] # None /\ original'[u] \subseteq rollout'[u]
          ELSE backup'[u] # {} => original'[u] \subseteq backup'[u]
    BY <1>1, <2>1 DEF FilesInv, BackupInv
  <2>3. QED BY <1>1, <2>2 DEF FilesInv, BackupInv
<1>13. MessagesKept'
  <2> SUFFICES ASSUME NEW u \in Threads, NEW n \in 1 .. turns'[u]
               PROVE  \E file \in Files(u)' : \E i \in file : i.turn = n /\ i.kind = "message"
    BY DEF MessagesKept
  <2>1. CASE u # t
    <3>1. Files(u)' = Files(u) /\ n \in 1 .. turns[u] BY <1>1, <1>7, <2>1 DEF Files
    <3>2. QED BY <3>1 DEF FilesInv, MessagesKept
  <2>2. CASE u = t /\ n = turns[t] + 1
    <3>1. rollout'[u] \in Files(u)' BY <1>9, <2>2 DEF Files
    <3>2. [turn |-> n, kind |-> "message", by |-> None] \in rollout'[u] BY <1>6, <1>7, <2>2
    <3>3. QED BY <3>1, <3>2
  <2>3. CASE u = t /\ n # turns[t] + 1
    <3>1. n \in 1 .. turns[t] BY <1>4, <1>7, <2>3
    <3>2. PICK file \in Files(t) : \E i \in file : i.turn = n /\ i.kind = "message"
      BY <3>1 DEF FilesInv, MessagesKept
    <3>3. CASE file \in Files(u)' BY <3>2, <3>3
    <3>4. CASE file \notin Files(u)'
      <4>1. file = rollout[t] /\ file # None BY <1>1, <2>3, <3>2, <3>4 DEF Files
      <4>2. file \subseteq rollout'[u] BY <1>7, <2>3, <4>1
      <4>3. rollout'[u] \in Files(u)' BY <1>9, <2>3 DEF Files
      <4>4. QED BY <3>2, <4>2, <4>3
    <3>5. QED BY <3>3, <3>4
  <2>4. QED BY <2>1, <2>2, <2>3
<1>14. QED BY <1>11, <1>12, <1>13 DEF FilesInv

\* Every step keeps the files.
LEMMA FilesStep ==
  ASSUME AbsentIsNoContent, TypeInv, OneAtATime, FilesInv, [Next]_vars
  PROVE  FilesInv'
<1> USE DEF TypeInv
<1>1. CASE Panel \/ RuntimeLoads \/ Stdout \/ RuntimeResumes \/ RuntimeStartsTurn \/ UNCHANGED vars
  <2>1. UNCHANGED <<rollout, strays, backup, turns, original, pc, cur>>
    BY <1>1 DEF Panel, SwitchConfig, SwitchRoute, SwitchUndo, PrepareBridge, RuntimeLoads, Stdout,
                ShowEvent, RelayEvent, RuntimeResumes, RuntimeStartsTurn, vars, chats
  <2>2. QED BY <2>1, FilesStay
<1>2. ASSUME NEW t \in Threads, RuntimeReportsError(t) \/ AskResume(t) \/ AskTurn(t)
      PROVE  FilesInv'
  <2>1. UNCHANGED <<rollout, strays, backup, turns, original, pc, cur>>
    BY <1>2 DEF RuntimeReportsError, AskResume, AskTurn, chats
  <2>2. QED BY <2>1, FilesStay
<1>3. CASE Spawn \/ ReadInitialRoute \/ Exit \/ Take \/ Forward
  <2>1. UNCHANGED <<rollout, strays, backup, turns, original>> /\ pc' \notin Refusing
    BY <1>3 DEF Spawn, ReadInitialRoute, Exit, Take, Forward, chats, Refusing
  <2>2. QED BY <2>1, FilesStay
<1>4. CASE CheckRoute
  <2>1. /\ UNCHANGED <<rollout, strays, backup, turns, original>>
        /\ pc' \in {"idle", "forward"} \/ (pc' = "scan" /\ cur'.kind = "resume")
    BY <1>4 DEF CheckRoute, Refuse, chats, StdinOK
  <2>2. QED BY <2>1, FilesStay DEF Refusing
<1>5. CASE Scan BY <1>5, FilesScan
<1>6. CASE BackUp BY <1>6, FilesBackUp
<1>7. CASE Displace BY <1>7, FilesDisplace
<1>8. CASE Install BY <1>8, FilesInstall
<1>9. CASE Discard BY <1>9, FilesDiscard
<1>10. ASSUME NEW t \in Threads, RuntimeEndsTurn(t) PROVE FilesInv' BY <1>10, FilesEndTurn
<1>11. QED
  BY <1>1, <1>2, <1>3, <1>4, <1>5, <1>6, <1>7, <1>8, <1>9, <1>10
  DEF Next, Stdin, Runtime

-----------------------------------------------------------------------------
(* The status.                                                             *)

\* A step that writes no status and starts no turn.
LEMMA DoneStays ==
  ASSUME DoneIsDone, UNCHANGED status, running' \subseteq running,
         wire' = <<>> \/ UNCHANGED wire, events' = <<>> \/ UNCHANGED events,
         cur' = Idle \/ (cur'.thread = cur.thread /\ cur'.kind = cur.kind)
  PROVE  DoneIsDone'
BY DEF DoneIsDone, Idle

\* What the panel shows as done stays so until the next request of the chat is
\* read, or something else is shown.
LEMMA DoneStep == TypeInv /\ OneAtATime /\ DoneIsDone /\ [Next]_vars => DoneIsDone'
<1> SUFFICES ASSUME CodexOK, StdinOK, OneAtATime, DoneIsDone, [Next]_vars PROVE DoneIsDone'
  BY DEF TypeInv
<1>1. CASE \/ \E c \in Conn, key \in Keys : SwitchConfig(c, key)
           \/ SwitchRoute \/ SwitchUndo \/ Spawn \/ ReadInitialRoute \/ Exit \/ RuntimeLoads
           \/ RelayEvent \/ UNCHANGED vars
  <2>1. /\ UNCHANGED status /\ running' \subseteq running
        /\ wire' = <<>> \/ UNCHANGED wire
        /\ events' = <<>> \/ UNCHANGED events
        /\ cur' = Idle \/ UNCHANGED cur
    BY <1>1 DEF SwitchConfig, SwitchRoute, SwitchUndo, Spawn, ReadInitialRoute, Exit, RuntimeLoads,
                RelayEvent, vars, codex
  <2>2. QED BY <2>1, DoneStays
<1>2. CASE PrepareBridge
  <2>1. status' = NoStatus BY <1>2 DEF PrepareBridge
  <2>2. QED BY <2>1 DEF DoneIsDone, NoStatus, Ends
<1>3. CASE Take
  <2>1. status'.state \in {"preparing", "working"} BY <1>3 DEF Take
  <2>2. QED BY <2>1 DEF DoneIsDone, Ends
<1>4. CASE CheckRoute \/ Scan \/ BackUp \/ Displace \/ Install \/ Discard
  <2>1. /\ UNCHANGED <<status, running, wire, events>>
        /\ cur' = Idle \/ (cur'.thread = cur.thread /\ cur'.kind = cur.kind)
    BY <1>4, HandledOn DEF Refuse
  <2>2. QED BY <2>1, DoneStays
<1>5. CASE Forward
  <2> DEFINE m == [thread |-> cur.thread, kind |-> cur.kind, conn |-> cur.route]
  <2>1. /\ wire' = Append(wire, m) /\ cur' = Idle /\ pc = "forward"
        /\ UNCHANGED <<status, running, events>>
    BY <1>5 DEF Forward
  <2>2. m \in Order /\ m.thread = cur.thread /\ m.kind = cur.kind
    BY <2>1 DEF StdinOK, LocalsOK, Handling, Refusing, Order
  <2> HIDE DEF m
  <2>3. wire \in Seq(Order) BY DEF CodexOK
  <2>4. \A i \in DOMAIN wire' :
          \/ i \in DOMAIN wire /\ wire'[i] = wire[i]
          \/ wire'[i] = m
    BY <2>1, <2>2, <2>3, AppendIndex
  <2>5. QED BY <2>1, <2>2, <2>4 DEF DoneIsDone, Idle
<1>6. CASE ShowEvent
  <2> DEFINE e == Head(events)
  <2>1. /\ events # <<>> /\ events' = Tail(events) /\ status' = Shown(e)
        /\ UNCHANGED <<running, wire, pc, cur>>
    BY <1>6 DEF ShowEvent
  <2>2. events \in Seq(Event) BY DEF CodexOK
  <2>3. /\ 1 \in DOMAIN events /\ e = events[1]
        /\ \A i \in DOMAIN Tail(events) : /\ i \in Nat /\ i + 1 \in DOMAIN events /\ i + 1 # 1
                                          /\ Tail(events)[i] = events[i + 1]
    BY <2>1, <2>2, TailIndex
  <2>4. e.thread \in Threads BY <2>3, QueuedThreads
  <2>5. Sound(e) BY <2>3 DEF OneAtATime, TurnsInv, EventsInv
  <2>6. Avoids(wire, e.thread) /\ (pc \in Handling => cur.thread # e.thread)
    BY <2>4, <2>5, NoneUnderWay DEF Sound, Between
  <2>7. cur.kind = "turn" => cur.thread # e.thread
    BY <2>6 DEF OneAtATime, IdleInv, Idle
  <2>8. \A i \in DOMAIN Tail(events) :
          Tail(events)[i].kind = "started" => Tail(events)[i].thread # e.thread
    <3> SUFFICES ASSUME NEW i \in DOMAIN Tail(events)
                 PROVE  Follows(e, Tail(events)[i])
      BY DEF Follows
    <3>1. 1 < i + 1 BY <2>3
    <3>2. QED BY <2>3, <3>1 DEF OneAtATime, TurnsInv, EventsInv
  <2>9. status'.thread = e.thread BY <2>1 DEF Shown
  <2>10. status'.state = "completed" => e.thread \notin running
    BY <2>1, <2>5 DEF Shown, Sound, Ended, Ends
  <2> HIDE DEF e
  <2>11. QED BY <2>1, <2>6, <2>7, <2>8, <2>9, <2>10 DEF DoneIsDone, Avoids
<1>7. CASE RuntimeResumes
  <2>1. wire # <<>> /\ wire' = Tail(wire) /\ UNCHANGED <<status, running, events, cur>>
    BY <1>7 DEF RuntimeResumes
  <2>2. wire \in Seq(Order) BY DEF CodexOK
  <2>3. \A i \in DOMAIN Tail(wire) : i + 1 \in DOMAIN wire /\ Tail(wire)[i] = wire[i + 1]
    BY <2>1, <2>2, TailIndex
  <2>4. QED BY <2>1, <2>3 DEF DoneIsDone
<1>8. CASE RuntimeStartsTurn
  <2> DEFINE e == [thread |-> Head(wire).thread, kind |-> "started"]
  <2>1. /\ wire # <<>> /\ wire' = Tail(wire) /\ UNCHANGED <<status, cur>>
        /\ Head(wire).kind = "turn" /\ running' = running \cup {e.thread}
        /\ events' = Append(events, e)
    BY <1>8 DEF RuntimeStartsTurn
  <2>2. wire \in Seq(Order) /\ events \in Seq(Event) BY DEF CodexOK
  <2>3. /\ 1 \in DOMAIN wire /\ Head(wire) = wire[1]
        /\ \A i \in DOMAIN Tail(wire) : i + 1 \in DOMAIN wire /\ Tail(wire)[i] = wire[i + 1]
    BY <2>1, <2>2, TailIndex
  <2>4. e \in Event
    <3>1. wire[1].thread \in Threads BY <2>3, QueuedThreads
    <3>2. QED BY <2>3, <3>1 DEF Event
  <2>5. status.state \in Ends => status.thread # e.thread BY <2>1, <2>3 DEF DoneIsDone
  <2> HIDE DEF e
  <2>6. \A i \in DOMAIN events' :
          \/ i \in DOMAIN events /\ events'[i] = events[i]
          \/ events'[i] = e
    BY <2>1, <2>2, <2>4, AppendIndex
  <2>7. QED BY <2>1, <2>3, <2>5, <2>6 DEF DoneIsDone, Ends
<1>9. ASSUME NEW t \in Threads, RuntimeReportsError(t) \/ RuntimeEndsTurn(t)
      PROVE  DoneIsDone'
  <2>1. PICK kind \in Errors \cup Ends : events' = Append(events, [thread |-> t, kind |-> kind])
    BY <1>9 DEF RuntimeReportsError, RuntimeEndsTurn
  <2> DEFINE e == [thread |-> t, kind |-> kind]
  <2>2. /\ events' = Append(events, e) /\ UNCHANGED <<status, wire, cur>>
        /\ running' \subseteq running
    BY <1>9, <2>1 DEF RuntimeReportsError, RuntimeEndsTurn
  <2>3. e \in Event /\ e.kind # "started" BY DEF Event, Errors, Ends
  <2> HIDE DEF e
  <2>4. \A i \in DOMAIN events' :
          \/ i \in DOMAIN events /\ events'[i] = events[i]
          \/ events'[i] = e
    <3>1. events \in Seq(Event) BY DEF CodexOK
    <3>2. QED BY <2>2, <2>3, <3>1, AppendIndex
  <2>5. QED BY <2>2, <2>3, <2>4 DEF DoneIsDone
<1>10. ASSUME NEW t \in Threads, AskResume(t) \/ AskTurn(t)
      PROVE  DoneIsDone'
  <2>1. UNCHANGED <<status, wire, cur, events, running>>
    BY <1>10 DEF AskResume, AskTurn, codex
  <2>2. QED BY <2>1, DoneStays
<1>11. QED
  BY <1>1, <1>2, <1>3, <1>4, <1>5, <1>6, <1>7, <1>8, <1>9, <1>10
  DEF Next, Panel, Stdin, Stdout, Runtime

-----------------------------------------------------------------------------
(* What is resumed.                                                        *)

\* Of what is private to other providers nothing has foreign ids, and there is
\* something only in a chat that began with the target.
Portable(content, recorded, target) ==
  \A i \in Private(content, target) : i.kind # "foreign" /\ recorded = target

ReadyFor(t, c) == rollout[t] # None => Portable(rollout[t], meta[t], Provider(c))

\* A chat stays portable from the scan, or the replacement, to its opening.
PortableInv ==
  /\ pc = "forward" /\ cur.kind = "resume" => ReadyFor(cur.thread, cur.route)
  /\ \A i \in DOMAIN wire : wire[i].kind = "resume" => ReadyFor(wire[i].thread, wire[i].conn)

\* What the bridge leaves alone is portable, and so is what it writes.
LEMMA PortableContent ==
  ASSUME NEW content, NEW recorded, NEW target
  PROVE  /\ LeavesAlone(content, recorded, target) => Portable(content, recorded, target)
         /\ Portable(Sanitized(content), recorded, target)
BY DEF LeavesAlone, Portable, Private, Sanitized, HasForeignIds

\* A step that leaves alone the chats that are being resumed.
LEMMA PortableStays ==
  ASSUME PortableInv, UNCHANGED meta, wire' = <<>> \/ UNCHANGED wire,
         pc' # "forward" \/ UNCHANGED <<pc, cur>>,
         \A i \in DOMAIN wire : LET t == wire[i].thread IN rollout'[t] \in {rollout[t], None},
         pc' = "forward" => rollout'[cur.thread] = rollout[cur.thread]
  PROVE  PortableInv'
BY DEF PortableInv, ReadyFor

\* Every step keeps what is to be resumed portable.
LEMMA PortableStep ==
  TypeInv /\ OneAtATime /\ FilesInv /\ PortableInv /\ [Next]_vars => PortableInv'
<1> SUFFICES ASSUME PanelOK, ChatsOK, CodexOK, StdinOK, OneAtATime, FilesInv, PortableInv,
                    [Next]_vars
             PROVE  PortableInv'
  BY DEF TypeInv
<1>1. CASE \/ Panel \/ Spawn \/ ReadInitialRoute \/ Exit \/ Take \/ RuntimeLoads \/ Stdout
           \/ UNCHANGED vars
  <2>1. /\ UNCHANGED <<meta, rollout>> /\ (wire' = <<>> \/ UNCHANGED wire)
        /\ pc' # "forward" \/ UNCHANGED <<pc, cur>>
    BY <1>1 DEF Panel, SwitchConfig, SwitchRoute, SwitchUndo, PrepareBridge, Spawn,
                ReadInitialRoute, Exit, Take, RuntimeLoads, Stdout, ShowEvent, RelayEvent, vars,
                chats, codex
  <2>2. QED BY <2>1, PortableStays
<1>2. ASSUME NEW t \in Threads, RuntimeReportsError(t) \/ AskResume(t) \/ AskTurn(t)
      PROVE  PortableInv'
  <2>1. UNCHANGED <<meta, rollout, wire, pc, cur>>
    BY <1>2 DEF RuntimeReportsError, AskResume, AskTurn, chats, codex
  <2>2. QED BY <2>1, PortableStays
<1>3. CASE CheckRoute
  <2>1. UNCHANGED <<meta, rollout, wire>> BY <1>3 DEF CheckRoute, chats, codex
  <2>2. CASE pc' # "forward" BY <2>1, <2>2, PortableStays
  <2>3. CASE pc' = "forward"
    <3>1. cur'.kind # "resume" BY <1>3, <2>3 DEF CheckRoute, Refuse, StdinOK
    <3>2. QED BY <2>1, <3>1 DEF PortableInv, ReadyFor
  <2>4. QED BY <2>2, <2>3
<1>4. CASE Scan
  <2>1. UNCHANGED <<meta, rollout, wire>> BY <1>4 DEF Scan, chats, codex
  <2>2. CASE pc' # "forward" BY <2>1, <2>2, PortableStays
  <2>3. CASE pc' = "forward"
    <3>1. /\ LeavesAlone(rollout[cur.thread], meta[cur.thread], Provider(cur.route))
          /\ cur'.thread = cur.thread /\ cur'.route = cur.route
      BY <1>4, <2>3 DEF Scan, Refuse, StdinOK
    <3>2. Portable(rollout[cur.thread], meta[cur.thread], Provider(cur.route))
      BY <3>1, PortableContent
    <3>3. ReadyFor(cur.thread, cur.route)' BY <2>1, <3>1, <3>2 DEF ReadyFor
    <3>4. QED BY <2>1, <3>3 DEF PortableInv, ReadyFor
  <2>4. QED BY <2>2, <2>3
<1>5. CASE BackUp
  <2>1. UNCHANGED <<meta, rollout, wire>> /\ pc' # "forward" BY <1>5 DEF BackUp, Refuse, codex
  <2>2. QED BY <2>1, PortableStays
<1>6. CASE Displace \/ Install
  <2>1. /\ UNCHANGED <<meta, wire>> /\ pc' # "forward" /\ pc \in Handling
        /\ \A u \in Threads : u # cur.thread => rollout'[u] = rollout[u]
    BY <1>6 DEF Displace, Install, Refuse, codex, Handling, Refusing, ChatsOK, FileOfEach
  <2>2. \A i \in DOMAIN wire : wire[i].thread # cur.thread
    BY <2>1 DEF OneAtATime, HandledInv, Avoids
  <2>3. QED BY <2>1, <2>2, QueuedThreads, PortableStays
<1>7. CASE Discard
  <2>1. UNCHANGED <<meta, rollout, wire>> BY <1>7 DEF Discard, codex
  <2>2. CASE pc' # "forward" BY <2>1, <2>2, PortableStays
  <2>3. CASE pc' = "forward"
    <3>1. UNCHANGED cur /\ pc = "discard" BY <1>7, <2>3 DEF Discard, Refuse
    <3>2. rollout[cur.thread] = Sanitized(cur.seen) BY <3>1 DEF FilesInv, ScannedInv
    <3>3. Portable(rollout[cur.thread], meta[cur.thread], Provider(cur.route))
      BY <3>2, PortableContent
    <3>4. ReadyFor(cur.thread, cur.route)' BY <2>1, <3>1, <3>3 DEF ReadyFor
    <3>5. QED BY <2>1, <3>4 DEF PortableInv, ReadyFor
  <2>4. QED BY <2>2, <2>3
<1>8. CASE Forward
  <2> DEFINE m == [thread |-> cur.thread, kind |-> cur.kind, conn |-> cur.route]
  <2>1. /\ wire' = Append(wire, m) /\ pc = "forward" /\ pc' = "idle"
        /\ UNCHANGED <<meta, rollout>>
    BY <1>8 DEF Forward, chats
  <2>2. m \in Order /\ m.thread = cur.thread /\ m.kind = cur.kind /\ m.conn = cur.route
    BY <2>1 DEF StdinOK, LocalsOK, Handling, Refusing, Order
  <2> HIDE DEF m
  <2>3. wire \in Seq(Order) BY DEF CodexOK
  <2>4. \A i \in DOMAIN wire' :
          \/ i \in DOMAIN wire /\ wire'[i] = wire[i]
          \/ wire'[i] = m
    BY <2>1, <2>2, <2>3, AppendIndex
  <2>5. QED BY <2>1, <2>2, <2>4 DEF PortableInv, ReadyFor
<1>9. CASE RuntimeResumes \/ RuntimeStartsTurn
  <2>1. wire # <<>> /\ wire' = Tail(wire) /\ UNCHANGED <<meta, rollout, pc, cur>>
    BY <1>9 DEF RuntimeResumes, RuntimeStartsTurn, chats
  <2>2. wire \in Seq(Order) BY DEF CodexOK
  <2>3. \A i \in DOMAIN Tail(wire) : i + 1 \in DOMAIN wire /\ Tail(wire)[i] = wire[i + 1]
    BY <2>1, <2>2, TailIndex
  <2>4. QED BY <2>1, <2>3 DEF PortableInv, ReadyFor
<1>10. ASSUME NEW t \in Threads, RuntimeEndsTurn(t) PROVE PortableInv'
  <2>1. t \in running /\ UNCHANGED <<meta, wire, pc, cur>> BY <1>10 DEF RuntimeEndsTurn
  <2>2. \A u \in Threads : u # t => rollout'[u] = rollout[u]
    BY <1>10 DEF RuntimeEndsTurn, ChatsOK, FileOfEach
  <2>3. waiting[t] = "none" BY <2>1 DEF OneAtATime, TurnsInv, RunningInv, Between
  <2>4. Avoids(wire, t) /\ (pc \in Handling => cur.thread # t) BY <2>3, NoneUnderWay
  <2>5. pc = "forward" => cur.thread \in Threads /\ cur.thread # t
    BY <2>4 DEF StdinOK, LocalsOK, Handling
  <2>6. \A i \in DOMAIN wire : rollout'[wire[i].thread] = rollout[wire[i].thread]
    BY <2>2, <2>4, QueuedThreads DEF Avoids
  <2>7. QED BY <2>1, <2>2, <2>5, <2>6, PortableStays
<1>11. QED
  BY <1>1, <1>2, <1>3, <1>4, <1>5, <1>6, <1>7, <1>8, <1>9, <1>10
  DEF Next, Stdin, Runtime

-----------------------------------------------------------------------------
(* The theorems.                                                           *)

\* The parts of the invariant hold at every step.
LEMMA Kept ==
  ASSUME AbsentIsNoContent
  PROVE  Spec => [](TypeInv /\ OneAtATime /\ FilesInv /\ PortableInv)
<1>1. Init => TypeInv /\ OneAtATime /\ FilesInv /\ PortableInv
  <2>1. Init => PortableInv BY DEF Init, PortableInv
  <2>2. QED BY <2>1, TypeInit, OneInit, FilesInit
<1>2. TypeInv /\ OneAtATime /\ FilesInv /\ PortableInv /\ [Next]_vars
        => (TypeInv /\ OneAtATime /\ FilesInv /\ PortableInv)'
  BY TypeStep, OneStep, FilesStep, PortableStep
<1>3. QED BY <1>1, <1>2, PTL DEF Spec

\* Whatever was switched and whatever failed before, and however its requests were
\* queued, a chat that the runtime opens holds no item with foreign ids that is
\* private to another provider, and no other private item of one unless it began
\* with the provider it is opened for.
THEOREM EveryResumeIsPortable ==
  ASSUME AbsentIsNoContent
  PROVE  Spec => ResumedIsPortable
<1>1. TypeInv /\ PortableInv =>
        (RuntimeResumes =>
           LET r == Head(wire)
               target == Provider(r.conn)
           IN rollout[r.thread] # None =>
                \A i \in Private(rollout[r.thread], target) :
                  i.kind # "foreign" /\ meta[r.thread] = target)
  <2> SUFFICES ASSUME CodexOK, PortableInv, RuntimeResumes
               PROVE  ReadyFor(Head(wire).thread, Head(wire).conn)
    BY DEF TypeInv, ReadyFor, Portable
  <2>1. wire # <<>> /\ Head(wire).kind = "resume" /\ wire \in Seq(Order)
    BY DEF RuntimeResumes, CodexOK
  <2>2. 1 \in DOMAIN wire /\ Head(wire) = wire[1] BY <2>1, TailIndex
  <2>3. QED BY <2>1, <2>2 DEF PortableInv
<1>2. QED BY <1>1, Kept, PTL DEF ResumedIsPortable

\* Whichever step of a replacement fails, wherever the bridge is killed, however
\* often a chat is resumed and whatever is written to it in between, some file
\* of the chat holds each of its messages.
THEOREM EveryMessageKept ==
  ASSUME AbsentIsNoContent
  PROVE  Spec => []MessagesKept
<1>1. FilesInv => MessagesKept BY DEF FilesInv
<1>2. QED BY <1>1, Kept, PTL

\* And what it held before any bridge ran is in its rollout or its backup,
\* unless the backup is one that a failed write left incomplete.
THEOREM EveryOriginalKept ==
  ASSUME AbsentIsNoContent
  PROVE  Spec => []OriginalKept
<1>1. FilesInv => OriginalKept
  <2> SUFFICES ASSUME BackupInv, NEW t \in Threads, backup[t] # {}, NEW i \in original[t]
               PROVE  \E file \in Files(t) : i \in file
    BY DEF FilesInv, OriginalKept
  <2>1. CASE backup[t] = None
    <3>1. rollout[t] \in Files(t) /\ i \in rollout[t] BY <2>1 DEF BackupInv, Files
    <3>2. QED BY <3>1
  <2>2. CASE backup[t] # None
    <3>1. backup[t] \in Files(t) /\ i \in backup[t] BY <2>2 DEF BackupInv, Files
    <3>2. QED BY <3>1
  <2>3. QED BY <2>1, <2>2
<1>2. QED BY <1>1, Kept, PTL

\* In whatever order notifications are shown and relayed, and requests read and
\* forwarded, no chat is shown as done while its next turn is under way.
THEOREM ShownDoneIsDone == Spec => []DoneIsDone
<1>1. Init => TypeInv /\ OneAtATime /\ DoneIsDone
  <2>1. Init => DoneIsDone BY DEF Init, DoneIsDone, NoStatus, Ends
  <2>2. QED BY <2>1, TypeInit, OneInit
<1>2. TypeInv /\ OneAtATime /\ DoneIsDone /\ [Next]_vars => (TypeInv /\ OneAtATime /\ DoneIsDone)'
  BY TypeStep, OneStep, DoneStep
<1>3. QED BY <1>1, <1>2, PTL DEF Spec

=============================================================================
