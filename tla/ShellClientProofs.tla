-------------------------- MODULE ShellClientProofs --------------------------
(***************************************************************************)
(* That the client keeps its promises to the panel, for any number of      *)
(* command lines, requests and notifications.  What it promises of         *)
(* requests rests on three facts: every step moves the table of requests   *)
(* in one of four ways (Moves), what lies between the process and the      *)
(* client is true (StreamsTrue), and a child whose end was already         *)
(* reported has read no request (Opened).  What it promises of             *)
(* notifications rests on what is on the way being a gapless, rising run   *)
(* of lines, cut at most at its end (NoticesInv).                          *)
(***************************************************************************)
EXTENDS ShellClient, SequenceTheorems, TLAPS

\* The messages that say of a request what the process answered to it.
TrueMessages == {m \in Messages : m.kind = "answer" => reply[m.id] = m.answer}
TruePieces == [part : {"start", "end"}, message : TrueMessages]

ClientTyped ==
  /\ phase \in {"new", "spawning", "initializing", "announcing", "open", "failed"}
  /\ command \in 1 .. Commands
  /\ child \in BOOLEAN /\ closing \in BOOLEAN /\ left \in BOOLEAN /\ told \in Nat

TableTyped ==
  /\ nextRequestId \in 1 .. MaxRequests + 1
  /\ pending \subseteq Requests /\ timers \subseteq Requests
  /\ promise \in [Requests -> {"unasked", "open", "failed"} \cup Answers]

ServerTyped ==
  /\ process \in {"none", "running", "ended"} /\ closed \in BOOLEAN
  /\ sending \subseteq Requests /\ received \subseteq Requests
  /\ notices \in 0 .. MaxNotices
  /\ reply \in [Requests -> {"none"} \cup Answers]

\* What the process has printed and the client has read is what it answered.
StreamsTrue ==
  /\ stdout \in Seq(TruePieces)
  /\ buffer \in TrueMessages \cup {None}
  /\ heard \in Seq(1 .. MaxNotices)

\* Requests are made in the order of their numbers, and sent once made.
Numbered ==
  /\ \A i \in Requests : promise[i] = "unasked" <=> i >= nextRequestId
  /\ \A i \in sending \cup received : i < nextRequestId

\* An answer the caller got is the one the process gave to a request it read.
Served ==
  \A i \in Requests : /\ promise[i] \in Answers => reply[i] = promise[i]
                      /\ reply[i] # "none" => i \in received

\* A child whose end was reported before spawn resolved reads nothing, so
\* "initialize" is never answered.
Opened ==
  /\ phase \in {"new", "spawning"} => received = {} /\ nextRequestId = 1
  /\ closed => process = "ended"
  /\ child /\ closed => received = {} /\ phase = "initializing"

\* closing is set for an end the panel wants, and only then is it not told.
Told ==
  /\ told <= 1
  /\ ~ closed => told = 0
  /\ closing => left \/ phase = "failed"
  /\ closed /\ told = 0 => left \/ phase = "failed"
  /\ left => phase = "open" /\ told = 0 /\ (closed \/ closing)

IInv == /\ ClientTyped /\ TableTyped /\ ServerTyped /\ StreamsTrue
        /\ TableMatchesPromises /\ Numbered /\ Served /\ Opened /\ Told

-----------------------------------------------------------------------------
(* The table of requests.                                                  *)

Opens == /\ nextRequestId \in Requests
         /\ nextRequestId' = nextRequestId + 1
         /\ pending' = pending \cup {nextRequestId}
         /\ timers' = timers \cup {nextRequestId}
         /\ promise' = [promise EXCEPT ![nextRequestId] = "open"]

Settles(ids, outcome) == /\ Settle(ids, outcome)
                         /\ pending' = pending \ ids
                         /\ timers' = timers \ ids
                         /\ UNCHANGED nextRequestId

Answered(m) == m \in TrueMessages /\ m.kind = "answer" /\ m.id \in pending
               /\ Settles({m.id}, m.answer)

Moves == \/ UNCHANGED table
         \/ Opens
         \/ \E ids \in SUBSET Requests : Settles(ids, "failed")
         \/ \E m \in TrueMessages : Answered(m)

\* Rejecting what is pending moves the table as settling it does.
LEMMA RejectMoves ==
  ASSUME IInv, RejectPending
  PROVE  Settles(pending, "failed") /\ pending \in SUBSET Requests
BY DEF IInv, TableTyped, TableMatchesPromises, RejectPending, Settles

\* What is read from stdout is true.
LEMMA PieceTrue ==
  ASSUME StreamsTrue, stdout # <<>>
  PROVE  /\ Head(stdout).part \in {"start", "end"}
         /\ Head(stdout).message \in TrueMessages
         /\ Tail(stdout) \in Seq(TruePieces)
<1>1. Head(stdout) \in TruePieces /\ Tail(stdout) \in Seq(TruePieces)
  BY HeadTailProperties DEF StreamsTrue
<1>2. QED BY <1>1 DEF TruePieces

\* A line moves the table only if it answers a request that waits.
LEMMA LineMoves ==
  ASSUME NEW m \in TrueMessages, HandleLine(m)
  PROVE  UNCHANGED table \/ Answered(m)
BY DEF HandleLine, Answered, Settles, table

\* Every step moves the table in one of the four ways.
LEMMA TableMoves ==
  ASSUME IInv, [Next]_vars
  PROVE  Moves
<1>1. CASE Connecting
  <2>1. CASE Connect \/ SpawnFails \/ SpawnStarts \/ Initialized \/ Announced
    BY <2>1 DEF Connect, SpawnFails, SpawnStarts, Initialized, Announced, Moves, table
  <2>2. CASE Spawned BY <2>2 DEF Spawned, Ask, Moves, Opens
  <2>3. CASE ConnectFails
    BY <2>3, RejectMoves DEF ConnectFails, Leave, Moves
  <2>4. QED BY <1>1, <2>1, <2>2, <2>3 DEF Connecting
<1>2. CASE Request BY <1>2 DEF Request, Ask, Moves, Opens
<1>3. CASE Disconnect BY <1>3, RejectMoves DEF Disconnect, Leave, Moves
<1>4. CASE Writes
  <2>1. CASE \E i \in Requests : Deliver(i)
    BY <2>1 DEF Deliver, Moves, table
  <2>2. ASSUME NEW i \in Requests, SendFails(i) PROVE Settles({i}, "failed")
    BY <2>2 DEF SendFails, DropUnsent, Settles
  <2>3. QED BY <1>4, <2>1, <2>2 DEF Writes, Moves
<1>5. CASE Timeouts
  <2>1. ASSUME NEW i \in Requests, Timeout(i) PROVE Settles({i}, "failed")
    BY <2>1 DEF Timeout, Settles
  <2>2. QED BY <1>5, <2>1 DEF Timeouts, Moves
<1>6. CASE Events
  <2>1. CASE Close BY <2>1, RejectMoves DEF Close, Moves
  <2>2. CASE Chunk
    <3>1. CASE UNCHANGED table BY <3>1 DEF Moves
    <3>2. CASE buffer # None /\ HandleLine(buffer)
      <4>1. buffer \in TrueMessages BY <3>2 DEF IInv, StreamsTrue
      <4>2. QED BY <3>2, <4>1, LineMoves DEF Moves
    <3>3. QED BY <2>2, <3>1, <3>2 DEF Chunk
  <2>3. QED BY <1>6, <2>1, <2>2 DEF Events
<1>7. CASE \/ \E i \in Requests, answer \in Answers : Reply(i, answer)
           \/ Notify \/ Exit \/ UNCHANGED vars
  BY <1>7 DEF Reply, Notify, Exit, vars, Moves, table
<1>8. QED BY <1>1, <1>2, <1>3, <1>4, <1>5, <1>6, <1>7 DEF Next

\* What an answer that is true says.
LEMMA TrueAnswer ==
  ASSUME NEW m \in TrueMessages, m.kind = "answer"
  PROVE  m.id \in Requests /\ m.answer \in Answers /\ reply[m.id] = m.answer
BY DEF TrueMessages, Messages

\* However the table moves, it stays in agreement with the promises.
LEMMA MovesKeepTable ==
  ASSUME IInv, Moves
  PROVE  TableTyped' /\ TableMatchesPromises'
<1> USE DEF IInv, TableTyped, TableMatchesPromises
<1>1. CASE UNCHANGED table BY <1>1 DEF table
<1>2. CASE Opens
  <2>1. TableTyped' BY <1>2, ShellAssumption DEF Opens, Requests
  <2>2. TableMatchesPromises' BY <1>2 DEF Opens
  <2>3. QED BY <2>1, <2>2
<1>3. ASSUME NEW ids \in SUBSET Requests, Settles(ids, "failed")
      PROVE  TableTyped' /\ TableMatchesPromises'
  BY <1>3 DEF Settles, Settle
<1>4. ASSUME NEW m \in TrueMessages, Answered(m)
      PROVE  TableTyped' /\ TableMatchesPromises'
  <2>1. m.id \in Requests /\ m.answer \in Answers BY <1>4, TrueAnswer DEF Answered
  <2>2. m.answer # "open" BY <2>1 DEF Answers
  <2>3. QED BY <1>4, <2>1, <2>2 DEF Answered, Settles, Settle
<1>5. QED BY <1>1, <1>2, <1>3, <1>4 DEF Moves

-----------------------------------------------------------------------------
(* Types, and what lies between the process and the client.                *)

\* The client's own variables keep their types.
LEMMA ClientStays ==
  ASSUME ClientTyped, [Next]_vars
  PROVE  ClientTyped'
<1> USE DEF ClientTyped
<1>1. CASE Connecting
  <2>1. CASE Connect \/ SpawnStarts \/ Spawned \/ Initialized \/ Announced
    BY <2>1 DEF Connect, SpawnStarts, Spawned, Initialized, Announced, connection
  <2>2. CASE SpawnFails
    BY <2>2, ShellAssumption DEF SpawnFails
  <2>3. CASE ConnectFails BY <2>3 DEF ConnectFails, Leave
  <2>4. QED BY <1>1, <2>1, <2>2, <2>3 DEF Connecting
<1>2. CASE Request \/ Disconnect
  BY <1>2 DEF Request, Disconnect, Leave, connection
<1>3. CASE Writes \/ Timeouts
  BY <1>3 DEF Writes, Timeouts, Deliver, SendFails, Timeout, connection
<1>4. CASE Events
  <2>1. CASE Chunk BY <2>1 DEF Chunk, connection
  <2>2. CASE Close
    <3>1. told' \in Nat BY <2>2 DEF Close
    <3>2. QED BY <2>2, <3>1 DEF Close
  <2>3. QED BY <1>4, <2>1, <2>2 DEF Events
<1>5. CASE \/ \E i \in Requests, answer \in Answers : Reply(i, answer)
           \/ Notify \/ Exit \/ UNCHANGED vars
  BY <1>5 DEF Reply, Notify, Exit, vars, connection
<1>6. QED BY <1>1, <1>2, <1>3, <1>4, <1>5 DEF Next

\* The process's variables keep their types.
LEMMA ServerStays ==
  ASSUME ServerTyped, [Next]_vars
  PROVE  ServerTyped'
<1> USE DEF ServerTyped, server
<1>1. CASE Connecting
  BY <1>1 DEF Connecting, Connect, SpawnFails, SpawnStarts, Spawned,
     Initialized, Announced, ConnectFails, Ask
<1>2. CASE Request \/ Disconnect
  BY <1>2 DEF Request, Disconnect, Ask
<1>3. CASE Writes \/ Timeouts
  BY <1>3 DEF Writes, Timeouts, Deliver, SendFails, Timeout
<1>4. CASE Events
  BY <1>4 DEF Events, Chunk, Close
<1>5. CASE \E i \in Requests, answer \in Answers : Reply(i, answer)
  BY <1>5 DEF Reply
<1>6. CASE Notify BY <1>6, ShellAssumption DEF Notify
<1>7. CASE Exit \/ UNCHANGED vars
  BY <1>7 DEF Exit, vars
<1>8. QED BY <1>1, <1>2, <1>3, <1>4, <1>5, <1>6, <1>7 DEF Next

\* An answer the process has not given yet makes nothing untrue.
LEMMA ReplyKeepsTrue ==
  ASSUME ServerTyped, NEW i \in Requests, NEW answer \in Answers, Reply(i, answer)
  PROVE  TrueMessages \subseteq TrueMessages'
<1> SUFFICES ASSUME NEW m \in TrueMessages PROVE m \in TrueMessages'
  OBVIOUS
<1>1. CASE m.kind = "answer"
  <2>1. m.id \in Requests /\ m.answer \in Answers /\ reply[m.id] = m.answer
    BY <1>1, TrueAnswer
  <2>2. m.id # i BY <2>1 DEF Reply, Answers
  <2>3. reply'[m.id] = m.answer
    BY <2>1, <2>2 DEF Reply, ServerTyped
  <2>4. QED BY <2>3 DEF TrueMessages
<1>2. CASE m.kind # "answer" BY <1>2 DEF TrueMessages
<1>3. QED BY <1>1, <1>2

\* What the process prints is appended in two pieces.
LEMMA PrintedTrue ==
  ASSUME NEW S, stdout \in Seq([part : {"start", "end"}, message : S]),
         NEW m \in S, PrintMessage(m)
  PROVE  stdout' \in Seq([part : {"start", "end"}, message : S])
<1> DEFINE P == [part : {"start", "end"}, message : S]
           two == <<[part |-> "start", message |-> m], [part |-> "end", message |-> m]>>
<1>1. two \in Seq(P) OBVIOUS
<1>2. stdout \o two \in Seq(P) BY <1>1, ConcatProperties
<1>3. QED BY <1>2 DEF PrintMessage

\* What lies between the process and the client stays true.
LEMMA StreamsStay ==
  ASSUME IInv, [Next]_vars
  PROVE  StreamsTrue'
<1> USE DEF IInv
<1>1. ASSUME UNCHANGED <<reply, stdout, heard>>, buffer' \in {buffer, None}
      PROVE  StreamsTrue'
  BY <1>1 DEF StreamsTrue, TruePieces, TrueMessages
<1>2. CASE Connecting \/ Request \/ Disconnect \/ Writes \/ Timeouts \/ Close
  <2>1. UNCHANGED <<reply, stdout, heard>> /\ buffer' \in {buffer, None}
    BY <1>2 DEF Connecting, Connect, SpawnFails, SpawnStarts, Spawned, Initialized,
       Announced, ConnectFails, Leave, Request, Disconnect, Writes, Timeouts, Deliver,
       SendFails, Timeout, Close, server
  <2>2. QED BY <1>1, <2>1
<1>3. CASE Chunk
  <2>1. UNCHANGED reply /\ stdout' \in Seq(TruePieces)
    BY <1>3, PieceTrue DEF Chunk, server
  <2>2. buffer' \in TrueMessages \cup {None}
    BY <1>3, PieceTrue DEF Chunk
  <2>3. heard' \in Seq(1 .. MaxNotices)
    <3>1. CASE UNCHANGED heard BY <3>1 DEF StreamsTrue
    <3>2. CASE buffer # None /\ HandleLine(buffer) /\ buffer.kind = "notice"
      <4>1. buffer \in Messages BY <3>2 DEF StreamsTrue, TrueMessages
      <4>2. buffer.id \in 1 .. MaxNotices BY <3>2, <4>1 DEF Messages
      <4>3. heard' = Append(heard, buffer.id) BY <3>2 DEF HandleLine
      <4>4. QED BY <4>2, <4>3, AppendProperties DEF StreamsTrue
    <3>3. QED BY <1>3, <3>1, <3>2 DEF Chunk, HandleLine
  <2>4. QED BY <2>1, <2>2, <2>3 DEF StreamsTrue, TruePieces, TrueMessages
<1>4. ASSUME NEW i \in Requests, NEW answer \in Answers, Reply(i, answer)
      PROVE  StreamsTrue'
  <2> DEFINE m == [kind |-> "answer", id |-> i, answer |-> answer]
  <2>1. TrueMessages \subseteq TrueMessages' BY <1>4, ReplyKeepsTrue
  <2>2. TruePieces \subseteq TruePieces' BY <2>1 DEF TruePieces
  <2>3. stdout \in Seq(TruePieces') BY <2>2, SeqMonotonic DEF StreamsTrue
  <2>4. reply'[i] = answer BY <1>4 DEF Reply, ServerTyped
  <2>5. m \in TrueMessages'
    <3>1. m \in Messages BY DEF Messages
    <3>2. m.kind = "answer" /\ m.id = i /\ m.answer = answer OBVIOUS
    <3> HIDE DEF m
    <3>3. QED BY <2>4, <3>1, <3>2 DEF TrueMessages
  <2>6. PrintMessage(m) BY <1>4 DEF Reply
  <2> HIDE DEF m
  <2>7. stdout' \in Seq(TruePieces') BY <2>3, <2>5, <2>6, PrintedTrue DEF TruePieces
  <2>8. buffer' \in TrueMessages' \cup {None} /\ heard' \in Seq(1 .. MaxNotices)
    BY <1>4, <2>1 DEF Reply, StreamsTrue
  <2>9. QED BY <2>7, <2>8 DEF StreamsTrue
<1>5. CASE Notify
  <2> DEFINE m == [kind |-> "notice", id |-> notices + 1, answer |-> "none"]
  <2>1. m \in Messages
    BY <1>5, ShellAssumption DEF Notify, ServerTyped, Messages
  <2>2. m.kind = "notice" OBVIOUS
  <2>3. PrintMessage(m) /\ UNCHANGED <<reply, buffer, heard>> BY <1>5 DEF Notify
  <2> HIDE DEF m
  <2>4. m \in TrueMessages BY <2>1, <2>2 DEF TrueMessages
  <2>5. stdout' \in Seq(TruePieces)
    BY <2>3, <2>4, PrintedTrue DEF StreamsTrue, TruePieces
  <2>6. QED BY <2>3, <2>5 DEF StreamsTrue, TruePieces, TrueMessages
<1>6. CASE Exit
  <2>1. stdout' \in Seq(TruePieces)
    <3>1. CASE UNCHANGED stdout BY <3>1 DEF StreamsTrue
    <3>2. CASE stdout # <<>> /\ stdout' = SubSeq(stdout, 1, Len(stdout) - 1)
      <4>1. Len(stdout) \in Nat BY LenProperties DEF StreamsTrue
      <4>2. \A i \in 1 .. Len(stdout) - 1 : stdout[i] \in TruePieces
        BY <4>1, ElementOfSeq DEF StreamsTrue
      <4>3. QED BY <3>2, <4>1, <4>2, SubSeqProperties
    <3>3. QED BY <1>6, <3>1, <3>2 DEF Exit
  <2>2. UNCHANGED <<reply, buffer, heard>> BY <1>6 DEF Exit
  <2>3. QED BY <2>1, <2>2 DEF StreamsTrue, TruePieces, TrueMessages
<1>7. CASE UNCHANGED vars
  BY <1>1, <1>7 DEF vars, server
<1>8. QED BY <1>2, <1>3, <1>4, <1>5, <1>6, <1>7 DEF Next, Events

-----------------------------------------------------------------------------
(* What was asked, sent and answered.                                      *)

\* Only a request just made is sent, and only a sent one is read.
LEMMA SentWasAsked ==
  ASSUME IInv, [Next]_vars
  PROVE  /\ sending' \cup received' \subseteq sending \cup received \cup {nextRequestId}
         /\ sending' \cup received' \subseteq sending \cup received \/ Opens
<1>1. CASE Connecting
  BY <1>1 DEF Connecting, Connect, SpawnFails, SpawnStarts, Spawned, Initialized,
     Announced, ConnectFails, Ask, Opens, server
<1>2. CASE Request \/ Disconnect
  BY <1>2 DEF Request, Disconnect, Ask, Opens, server
<1>3. CASE Writes \/ Timeouts \/ Events
  BY <1>3 DEF Writes, Timeouts, Events, Deliver, SendFails, Timeout, Chunk, Close, server
<1>4. CASE \/ \E i \in Requests, answer \in Answers : Reply(i, answer)
           \/ Notify \/ Exit \/ UNCHANGED vars
  BY <1>4 DEF Reply, Notify, Exit, vars, server
<1>5. QED BY <1>1, <1>2, <1>3, <1>4 DEF Next

\* Requests stay numbered in the order they are made.
LEMMA NumberedStays ==
  ASSUME IInv, [Next]_vars, Moves
  PROVE  Numbered'
<1> USE DEF IInv, TableTyped, Numbered
<1>1. ASSUME NEW S, S = sending \cup received
      PROVE  \A i \in S : i \in Requests /\ i \in Nat /\ i < nextRequestId
  BY <1>1, ShellAssumption DEF ServerTyped, Requests
<1>2. CASE Opens
  <2>1. nextRequestId \in Nat /\ nextRequestId' = nextRequestId + 1
    BY <1>2, ShellAssumption DEF Opens
  <2>2. \A i \in sending' \cup received' : i < nextRequestId'
    <3>1. ASSUME NEW i \in sending' \cup received' PROVE i < nextRequestId'
      <4>1. i = nextRequestId \/ i \in sending \cup received
        BY SentWasAsked, <3>1
      <4>2. CASE i = nextRequestId BY <2>1, <4>2
      <4>3. CASE i \in sending \cup received
        <5>1. i \in Nat /\ i < nextRequestId BY <1>1, <4>3
        <5>2. QED BY <2>1, <5>1
      <4>4. QED BY <4>1, <4>2, <4>3
    <3>2. QED BY <3>1
  <2>3. \A i \in Requests : promise'[i] = "unasked" <=> i >= nextRequestId'
    BY <1>2, <2>1, ShellAssumption DEF Opens, Requests
  <2>4. QED BY <2>2, <2>3
<1>3. CASE ~ Opens
  <2>1. UNCHANGED nextRequestId BY <1>3 DEF Moves, Answered, Settles, table
  <2>2. \A i \in sending' \cup received' : i < nextRequestId'
    BY <1>1, <1>3, <2>1, SentWasAsked
  <2>3. ASSUME NEW ids, NEW outcome, outcome # "unasked", Settle(ids, outcome)
        PROVE  \A i \in Requests : promise'[i] = "unasked" <=> promise[i] = "unasked"
    BY <2>3 DEF Settle
  <2>4. \A i \in Requests : promise'[i] = "unasked" <=> promise[i] = "unasked"
    <3>1. CASE UNCHANGED table BY <3>1 DEF table
    <3>2. CASE \E ids \in SUBSET Requests : Settles(ids, "failed")
      BY <2>3, <3>2 DEF Settles
    <3>3. ASSUME NEW m \in TrueMessages, Answered(m)
          PROVE  \A i \in Requests : promise'[i] = "unasked" <=> promise[i] = "unasked"
      <4>1. m.answer # "unasked" BY <3>3, TrueAnswer DEF Answered, Answers
      <4>2. QED BY <2>3, <3>3, <4>1 DEF Answered, Settles
    <3>4. QED BY <1>3, <3>1, <3>2, <3>3 DEF Moves
  <2>5. QED BY <2>1, <2>2, <2>4
<1>4. QED BY <1>2, <1>3

\* What the process answered stays, and it answers only what it has read.
LEMMA RepliesGrow ==
  ASSUME IInv, [Next]_vars
  PROVE  /\ received \subseteq received'
         /\ \A i \in Requests : \/ reply'[i] = reply[i]
                                \/ reply[i] = "none" /\ i \in received
<1> USE DEF server
<1>1. CASE Connecting
  BY <1>1 DEF Connecting, Connect, SpawnFails, SpawnStarts, Spawned, Initialized,
     Announced, ConnectFails
<1>2. CASE Request \/ Disconnect \/ Writes \/ Timeouts \/ Events
  BY <1>2 DEF Request, Disconnect, Writes, Timeouts, Events, Deliver, SendFails,
     Timeout, Chunk, Close
<1>3. CASE \E i \in Requests, answer \in Answers : Reply(i, answer)
  BY <1>3 DEF Reply, IInv, ServerTyped
<1>4. CASE Notify \/ Exit \/ UNCHANGED vars
  BY <1>4 DEF Notify, Exit, vars
<1>5. QED BY <1>1, <1>2, <1>3, <1>4 DEF Next

\* An answer the caller has is the process's, and stays so.
LEMMA ServedStays ==
  ASSUME IInv, [Next]_vars, Moves
  PROVE  Served'
<1> SUFFICES ASSUME NEW i \in Requests
             PROVE  /\ promise'[i] \in Answers => reply'[i] = promise'[i]
                    /\ reply'[i] # "none" => i \in received'
  BY DEF Served
<1> USE DEF IInv, TableTyped, Served
<1>1. reply'[i] # "none" => i \in received' BY RepliesGrow
<1>2. promise[i] \in Answers => reply'[i] = promise[i]
  BY RepliesGrow DEF Answers
<1>3. promise'[i] \in Answers => promise'[i] = promise[i] \/ reply[i] = promise'[i]
  <2>1. CASE UNCHANGED table BY <2>1 DEF table
  <2>2. CASE Opens BY <2>2 DEF Opens, Answers
  <2>3. CASE \E ids \in SUBSET Requests : Settles(ids, "failed")
    BY <2>3 DEF Settles, Settle, Answers
  <2>4. ASSUME NEW m \in TrueMessages, Answered(m)
        PROVE  promise'[i] = promise[i] \/ reply[i] = promise'[i]
    <3>1. reply[m.id] = m.answer BY <2>4, TrueAnswer DEF Answered
    <3>2. QED BY <2>4, <3>1 DEF Answered, Settles, Settle
  <2>5. QED BY <2>1, <2>2, <2>3, <2>4 DEF Moves
<1>4. promise'[i] \in Answers => reply'[i] = promise'[i]
  BY <1>2, <1>3, RepliesGrow DEF Answers
<1>5. QED BY <1>1, <1>4

-----------------------------------------------------------------------------
(* The end of the process.                                                 *)

\* A child whose end was reported has read nothing and is never connected with.
LEMMA OpenedStays ==
  ASSUME IInv, [Next]_vars
  PROVE  Opened'
<1> USE DEF IInv, Opened, server
<1>1. CASE Initialized
  <2>1. Initialize \in Requests BY ShellAssumption DEF Initialize, Requests
  <2>2. reply[Initialize] = "answered"
    BY <1>1, <2>1 DEF Initialized, Served, Answers
  <2>3. Initialize \in received BY <2>1, <2>2 DEF Served
  <2>4. QED BY <1>1, <2>3 DEF Initialized, table
<1>2. CASE Spawned
  BY <1>2 DEF Spawned, Ask, ClientTyped
<1>3. CASE Connect \/ SpawnFails \/ Announced
  BY <1>3 DEF Connect, SpawnFails, Announced, table, ClientTyped
<1>4. CASE SpawnStarts
  BY <1>4 DEF SpawnStarts, connection, table, ClientTyped
<1>5. CASE ConnectFails \/ Disconnect
  BY <1>5 DEF ConnectFails, Disconnect, Leave, ClientTyped
<1>6. CASE Request
  BY <1>6 DEF Request, connection, ClientTyped
<1>7. CASE Writes
  <2>1. ASSUME NEW i \in Requests, Deliver(i) PROVE Opened'
    <3>1. phase \notin {"new", "spawning"}
      <4>1. i < nextRequestId BY <2>1 DEF Deliver, Numbered
      <4>2. nextRequestId # 1 BY <4>1 DEF Requests
      <4>3. QED BY <4>2
    <3>2. QED BY <2>1, <3>1 DEF Deliver, connection, table
  <2>2. ASSUME NEW i \in Requests, SendFails(i) PROVE Opened'
    BY <2>2 DEF SendFails, DropUnsent, connection
  <2>3. QED BY <1>7, <2>1, <2>2 DEF Writes
<1>8. CASE Timeouts
  BY <1>8 DEF Timeouts, Timeout, connection
<1>9. CASE Chunk
  BY <1>9 DEF Chunk, HandleLine, connection, table
<1>10. CASE Close
  BY <1>10 DEF Close, RejectPending, ClientTyped
<1>11. CASE \/ \E i \in Requests, answer \in Answers : Reply(i, answer)
            \/ Notify \/ UNCHANGED vars
  <2>1. UNCHANGED <<phase, child, closed, process, received, nextRequestId>>
    BY <1>11 DEF Reply, Notify, vars, connection, table
  <2>2. QED BY <2>1
<1>12. CASE Exit BY <1>12 DEF Exit, connection, table
<1>13. QED BY <1>1, <1>2, <1>3, <1>4, <1>5, <1>6, <1>7, <1>8, <1>9, <1>10, <1>11, <1>12
     DEF Next, Connecting, Events

\* The panel is told of an end once, and only of one it did not want.
LEMMA ToldStays ==
  ASSUME IInv, [Next]_vars
  PROVE  Told'
<1> USE DEF IInv, Told, ClientTyped, ServerTyped
<1>1. CASE Connecting
  BY <1>1 DEF Connecting, Connect, SpawnFails, SpawnStarts, Spawned, Initialized,
     Announced, ConnectFails, Leave, connection
<1>2. CASE Request BY <1>2 DEF Request, connection
<1>3. CASE Disconnect BY <1>3 DEF Disconnect, Leave
<1>4. CASE Writes \/ Timeouts \/ Chunk
  <2>1. UNCHANGED <<phase, closing, left, told, closed>>
    BY <1>4 DEF Writes, Timeouts, Deliver, SendFails, Timeout, Chunk, connection
  <2>2. QED BY <2>1
<1>5. CASE Close
  <2>1. CASE closing BY <1>5, <2>1 DEF Close
  <2>2. CASE ~ closing BY <1>5, <2>2 DEF Close
  <2>3. QED BY <2>1, <2>2
<1>6. CASE \/ \E i \in Requests, answer \in Answers : Reply(i, answer)
           \/ Notify \/ Exit \/ UNCHANGED vars
  <2>1. UNCHANGED <<phase, closing, left, told, closed>>
    BY <1>6 DEF Reply, Notify, Exit, vars, connection
  <2>2. QED BY <2>1
<1>7. QED BY <1>1, <1>2, <1>3, <1>4, <1>5, <1>6 DEF Next, Events

-----------------------------------------------------------------------------
(* The theorems.                                                           *)

\* A new client, with nothing sent and nothing printed, satisfies the invariant.
THEOREM InitPromises == Init => IInv
<1> SUFFICES ASSUME Init PROVE IInv
  OBVIOUS
<1> USE ShellAssumption DEF Init
<1>1. ClientTyped
  <2>1. command \in 1 .. Commands /\ told \in Nat OBVIOUS
  <2>2. /\ phase \in {"new", "spawning", "initializing", "announcing", "open", "failed"}
        /\ child \in BOOLEAN /\ closing \in BOOLEAN /\ left \in BOOLEAN
    BY Zenon
  <2>3. QED BY <2>1, <2>2 DEF ClientTyped
<1>2. TableTyped BY DEF TableTyped, Requests
<1>3. ServerTyped
  <2>1. notices \in 0 .. MaxNotices /\ reply \in [Requests -> {"none"} \cup Answers]
    OBVIOUS
  <2>2. process \in {"none", "running", "ended"} /\ closed \in BOOLEAN BY Zenon
  <2>3. sending \subseteq Requests /\ received \subseteq Requests OBVIOUS
  <2>4. QED BY <2>1, <2>2, <2>3 DEF ServerTyped
<1>4. StreamsTrue BY DEF StreamsTrue
<1>5. TableMatchesPromises BY DEF TableMatchesPromises
<1>6. Numbered
  <2>1. \A i \in Requests : i >= 1 BY DEF Requests
  <2>2. QED BY <2>1 DEF Numbered
<1>7. Served BY DEF Served, Answers
<1>8. Opened BY DEF Opened
<1>9. Told BY DEF Told
<1>10. QED BY <1>1, <1>2, <1>3, <1>4, <1>5, <1>6, <1>7, <1>8, <1>9 DEF IInv

\* Every step of the client, the panel, the event loop or the process keeps it.
THEOREM StepPromises == IInv /\ [Next]_vars => IInv'
<1> SUFFICES ASSUME IInv, [Next]_vars PROVE IInv'
  OBVIOUS
<1>1. Moves BY TableMoves
<1>2. TableTyped' /\ TableMatchesPromises' BY <1>1, MovesKeepTable
<1>3. ClientTyped' BY ClientStays DEF IInv
<1>4. ServerTyped' BY ServerStays DEF IInv
<1>5. StreamsTrue' BY StreamsStay
<1>6. Numbered' BY <1>1, NumberedStays
<1>7. Served' BY <1>1, ServedStays
<1>8. Opened' BY OpenedStays
<1>9. Told' BY ToldStays
<1>10. QED BY <1>2, <1>3, <1>4, <1>5, <1>6, <1>7, <1>8, <1>9 DEF IInv

\* The invariant holds throughout.
LEMMA AlwaysPromises == Spec => []IInv
BY InitPromises, StepPromises, PTL DEF Spec

\* The invariant says what TypeOK says, and more of the streams.
LEMMA InvTyped ==
  ASSUME IInv
  PROVE  TypeOK
<1>1. TrueMessages \subseteq Messages BY DEF TrueMessages
<1>2. TruePieces \subseteq Pieces BY <1>1 DEF TruePieces, Pieces
<1>3. stdout \in Seq(Pieces) BY <1>2, SeqMonotonic DEF IInv, StreamsTrue
<1>4. buffer \in Messages \cup {None} /\ heard \in Seq(1 .. MaxNotices)
  BY <1>1 DEF IInv, StreamsTrue
<1>5. QED BY <1>3, <1>4 DEF IInv, ClientTyped, TableTyped, ServerTyped, TypeOK

\* Every variable of the client and of its environment keeps its type, for any
\* number of command lines, requests and notifications.
THEOREM TypesKept == Spec => []TypeOK
BY AlwaysPromises, InvTyped, PTL

\* tauri-shell.ts: no answer, timeout, failed write or exit, in whatever order,
\* leaves an entry or a timer behind, or a promise that nothing will settle.
THEOREM TableKept == Spec => []TableMatchesPromises
<1>1. IInv => TableMatchesPromises BY DEF IInv
<1>2. QED BY <1>1, AlwaysPromises, PTL

\* tauri-shell.ts, connect: a process that ends before spawn resolves never
\* becomes a connected client.
THEOREM OpenKept == Spec => []OpenIsLive
<1>1. IInv => OpenIsLive BY DEF IInv, Opened, OpenIsLive
<1>2. QED BY <1>1, AlwaysPromises, PTL

\* tauri-shell.ts, the close event: the panel hears once of an end it did not
\* ask for, and never of one it did.
THEOREM EndKept == Spec => []EndIsTold
<1>1. IInv => EndIsTold
  BY DEF IInv, Told, ClientTyped, EndIsTold
<1>2. QED BY <1>1, AlwaysPromises, PTL

-----------------------------------------------------------------------------
(* The refinement of RequestTable.                                         *)

\* A step that leaves the process's answers alone does to the promises what
\* RequestTable allows.
LEMMA MovesImplement ==
  ASSUME IInv, Moves, UNCHANGED reply
  PROVE  [Calls!Next]_<<promise, reply>>
<1> USE DEF IInv, TableTyped
<1>1. CASE UNCHANGED table BY <1>1 DEF table
<1>2. CASE Opens
  <2>1. nextRequestId \in Requests /\ nextRequestId \in Nat
    BY <1>2, ShellAssumption DEF Opens
  <2>2. promise[nextRequestId] = "unasked"
    BY <2>1 DEF Numbered
  <2>3. \A j \in Requests : j < nextRequestId => promise[j] # "unasked"
    BY <2>1, ShellAssumption DEF Numbered, Requests
  <2>4. Calls!Ask(nextRequestId)
    BY <1>2, <2>2, <2>3 DEF Opens, Calls!Ask
  <2>5. QED BY <2>1, <2>4 DEF Calls!Next
<1>3. ASSUME NEW ids \in SUBSET Requests, Settles(ids, "failed")
      PROVE  Calls!Next
  <2> DEFINE failing == {i \in ids : promise[i] = "open"}
  <2>1. failing \in SUBSET Requests OBVIOUS
  <2>2. promise' = [i \in Requests |-> IF i \in failing THEN "failed" ELSE promise[i]]
    BY <1>3 DEF Settles, Settle
  <2>3. Calls!Fail(failing) BY <2>2 DEF Calls!Fail
  <2>4. QED BY <2>1, <2>3 DEF Calls!Next
<1>4. ASSUME NEW m \in TrueMessages, Answered(m)
      PROVE  Calls!Next
  <2>1. m.id \in Requests /\ m.answer \in Answers /\ reply[m.id] = m.answer
    BY <1>4, TrueAnswer DEF Answered
  <2>2. promise[m.id] = "open" /\ reply[m.id] # "none"
    BY <1>4, <2>1 DEF Answered, TableMatchesPromises, Answers
  <2>3. promise' = [promise EXCEPT ![m.id] = reply[m.id]]
    BY <1>4, <2>1, <2>2 DEF Answered, Settles, Settle
  <2>4. Calls!Answer(m.id) BY <2>2, <2>3 DEF Calls!Answer
  <2>5. QED BY <2>1, <2>4 DEF Calls!Next
<1>5. QED BY <1>1, <1>2, <1>3, <1>4 DEF Moves

\* An answer of the process is RequestTable's Serve.
LEMMA ReplyImplements ==
  ASSUME IInv, NEW i \in Requests, NEW answer \in Answers, Reply(i, answer)
  PROVE  Calls!Next
<1>1. i < nextRequestId BY DEF Reply, IInv, Numbered
<1>2. nextRequestId \in Nat /\ i \in Nat
  BY ShellAssumption DEF IInv, TableTyped, Requests
<1>3. promise[i] # "unasked" BY <1>1, <1>2 DEF IInv, Numbered
<1>4. Calls!Serve(i, answer) BY <1>3 DEF Reply, Calls!Serve, table
<1>5. QED BY <1>4 DEF Calls!Next

\* The client implements RequestTable: every request is settled once, with the
\* answer the process gave to this very request, or it fails.
THEOREM TableImplemented == Spec => ImplementsRequestTable
<1>1. Init => Calls!Init BY DEF Init, Calls!Init
<1>2. IInv /\ [Next]_vars => [Calls!Next]_<<promise, reply>>
  <2> SUFFICES ASSUME IInv, [Next]_vars PROVE [Calls!Next]_<<promise, reply>>
    OBVIOUS
  <2>1. CASE \E i \in Requests, answer \in Answers : Reply(i, answer)
    BY <2>1, ReplyImplements
  <2>2. CASE ~ \E i \in Requests, answer \in Answers : Reply(i, answer)
    <3>1. UNCHANGED reply
      <4>1. CASE Connecting
        BY <4>1 DEF Connecting, Connect, SpawnFails, SpawnStarts, Spawned, Initialized,
           Announced, ConnectFails, server
      <4>2. CASE Request \/ Disconnect \/ Writes \/ Timeouts \/ Events
        BY <4>2 DEF Request, Disconnect, Writes, Timeouts, Events, Deliver, SendFails,
           Timeout, Chunk, Close, server
      <4>3. CASE Notify \/ Exit \/ UNCHANGED vars
        BY <4>3 DEF Notify, Exit, vars, server
      <4>4. QED BY <2>2, <4>1, <4>2, <4>3 DEF Next
    <3>2. QED BY <3>1, TableMoves, MovesImplement
  <2>3. QED BY <2>1, <2>2
<1>3. QED BY <1>1, <1>2, AlwaysPromises, PTL DEF Spec, ImplementsRequestTable, Calls!Spec

-----------------------------------------------------------------------------
(***************************************************************************)
(* The notifications: what lies between the process and the panel.         *)
(***************************************************************************)
Notice(q, k) == q[k].message.kind = "notice"

\* Each line comes in two pieces, one after the other.
Alternating(q) ==
  \A k, l \in DOMAIN q : l = k + 1 =>
    IF q[k].part = "start" THEN q[l].part = "end" /\ q[l].message = q[k].message
                           ELSE q[l].part = "start"

\* Later notifications have greater numbers.
Rising(q) ==
  \A k, l \in DOMAIN q : k < l /\ Notice(q, k) /\ Notice(q, l) =>
    \/ q[k].message.id < q[l].message.id
    \/ q[k].part = "start" /\ l = k + 1

\* buffer holds the first piece of the line of which the rest comes next, unless
\* it was thrown away; only the end of the process cuts a line short.
Framed ==
  /\ Alternating(stdout)
  /\ process # "ended" /\ stdout # <<>> => stdout[Len(stdout)].part = "end"
  /\ stdout # <<>> /\ stdout[1].part = "end" => buffer \in {None, stdout[1].message}
  /\ buffer # None => IF stdout = <<>> THEN process = "ended" ELSE stdout[1].part = "end"
  /\ closed => stdout = <<>>

\* What the panel has heard was sent before what it has not.
Ordered ==
  /\ Rising(stdout)
  /\ \A i, j \in DOMAIN heard : i < j => heard[i] < heard[j]
  /\ \A i \in DOMAIN heard : heard[i] <= notices
  /\ \A k \in DOMAIN stdout : Notice(stdout, k) =>
       /\ stdout[k].message.id <= notices
       /\ \A i \in DOMAIN heard : heard[i] < stdout[k].message.id

\* The rest of the line of notification n lies in q.
Comes(q, n) == \E k \in DOMAIN q :
                 Notice(q, k) /\ q[k].part = "end" /\ q[k].message.id = n

\* Nothing is lost while the panel is connected but the line the end of the
\* process cut short.
Complete ==
  ~ left /\ phase # "failed" =>
    /\ \A i \in DOMAIN heard : heard[i] = i
    /\ stdout # <<>> /\ stdout[1].part = "end" => buffer = stdout[1].message
    /\ \A n \in Len(heard) + 1 .. notices : Comes(stdout, n) \/ (n = notices /\ process = "ended")

NoticesInv == Framed /\ Ordered /\ Complete

\* Where the pieces left come from once the first one is read.
LEMMA TailAt ==
  ASSUME NEW S, NEW q \in Seq(S), q # <<>>
  PROVE  /\ Len(q) \in Nat \ {0} /\ 1 \in DOMAIN q /\ Head(q) = q[1] /\ Tail(q) \in Seq(S)
         /\ DOMAIN q = 1 .. Len(q) /\ DOMAIN Tail(q) = 1 .. Len(q) - 1
         /\ Len(Tail(q)) = Len(q) - 1 /\ (Tail(q) = <<>> <=> Len(q) = 1)
         /\ \A k \in DOMAIN Tail(q) : k + 1 \in DOMAIN q /\ Tail(q)[k] = q[k + 1]
         /\ \A k \in DOMAIN q : k # 1 => k - 1 \in DOMAIN Tail(q)
<1>1. /\ Len(q) \in Nat \ {0} /\ 1 \in DOMAIN q /\ Head(q) = q[1] /\ Tail(q) \in Seq(S)
      /\ DOMAIN q = 1 .. Len(q) /\ DOMAIN Tail(q) = 1 .. Len(q) - 1
      /\ Len(Tail(q)) = Len(q) - 1
      /\ \A k \in DOMAIN Tail(q) : k + 1 \in DOMAIN q /\ Tail(q)[k] = q[k + 1]
      /\ \A k \in DOMAIN q : k # 1 => k - 1 \in DOMAIN Tail(q)
  OBVIOUS
<1>2. Tail(q) = <<>> <=> Len(Tail(q)) = 0
  BY <1>1, EmptySeq
<1>3. QED
  BY <1>1, <1>2

\* Where the pieces come from after another line is printed.
LEMMA PrintedAt ==
  ASSUME NEW S, NEW q \in Seq(S), NEW a \in S, NEW b \in S, NEW p, p = q \o <<a, b>>
  PROVE  /\ Len(q) \in Nat /\ DOMAIN q = 1 .. Len(q) /\ p # <<>>
         /\ DOMAIN p = 1 .. Len(q) + 2 /\ Len(p) = Len(q) + 2
         /\ \A k \in DOMAIN q : p[k] = q[k]
         /\ p[Len(q) + 1] = a /\ p[Len(q) + 2] = b
<1>1. <<a, b>> \in Seq(S) /\ Len(<<a, b>>) = 2 /\ <<a, b>>[1] = a /\ <<a, b>>[2] = b
  OBVIOUS
<1>2. /\ p \in Seq(S) /\ Len(p) = Len(q) + 2
      /\ \A k \in 1 .. Len(q) + 2 : p[k] = IF k <= Len(q) THEN q[k] ELSE <<a, b>>[k - Len(q)]
  BY <1>1, ConcatProperties
<1>3. Len(q) \in Nat /\ DOMAIN q = 1 .. Len(q) /\ DOMAIN p = 1 .. Len(p)
  BY <1>2
<1>4. QED
  BY <1>1, <1>2, <1>3

\* Where the pieces come from once the last one is cut off.
LEMMA CutAt ==
  ASSUME NEW S, NEW q \in Seq(S), q # <<>>, NEW c, c = SubSeq(q, 1, Len(q) - 1)
  PROVE  /\ Len(q) \in Nat \ {0} /\ DOMAIN q = 1 .. Len(q)
         /\ DOMAIN c = 1 .. Len(q) - 1 /\ Len(c) = Len(q) - 1
         /\ \A k \in DOMAIN c : c[k] = q[k]
<1>1. Len(q) \in Nat \ {0} /\ DOMAIN q = 1 .. Len(q) /\ \A k \in 1 .. Len(q) : q[k] \in S
  OBVIOUS
<1>2. c \in Seq(S) /\ Len(c) = Len(q) - 1 /\ \A k \in 1 .. Len(q) - 1 : c[k] = q[k]
  BY <1>1, SubSeqProperties
<1>3. QED
  BY <1>1, <1>2

\* What the panel has heard with one more notification.
LEMMA HeardAt ==
  ASSUME NEW S, NEW q \in Seq(S), NEW m \in S
  PROVE  /\ Len(q) \in Nat /\ DOMAIN q = 1 .. Len(q)
         /\ DOMAIN Append(q, m) = 1 .. Len(q) + 1 /\ Len(Append(q, m)) = Len(q) + 1
         /\ \A k \in DOMAIN q : Append(q, m)[k] = q[k]
         /\ Append(q, m)[Len(q) + 1] = m
OBVIOUS

\* What is in a sequence is one of its elements.
LEMMA ElementAt ==
  ASSUME NEW S, NEW q \in Seq(S)
  PROVE  \A i \in DOMAIN q : q[i] \in S
OBVIOUS

\* The pieces of stdout and the numbers of notifications.
LEMMA PieceAt ==
  ASSUME StreamsTrue
  PROVE  /\ \A k \in DOMAIN stdout : /\ stdout[k].part \in {"start", "end"}
                                     /\ stdout[k].message \in Messages
                                     /\ Notice(stdout, k) => stdout[k].message.id \in 1 .. MaxNotices
         /\ \A i \in DOMAIN heard : heard[i] \in 1 .. MaxNotices
         /\ stdout \in Seq(TruePieces) /\ heard \in Seq(1 .. MaxNotices)
<1>1. \A k \in DOMAIN stdout : stdout[k] \in TruePieces
  BY DEF StreamsTrue
<1>2. \A m \in Messages : m.kind = "notice" => m.id \in 1 .. MaxNotices
  BY DEF Messages
<1>3. \A k \in DOMAIN stdout : stdout[k].part \in {"start", "end"} /\ stdout[k].message \in Messages
  BY <1>1 DEF TruePieces, TrueMessages
<1>4. \A k \in DOMAIN stdout : Notice(stdout, k) => stdout[k].message.id \in 1 .. MaxNotices
  BY <1>2, <1>3 DEF Notice
<1>5. stdout \in Seq(TruePieces) /\ heard \in Seq(1 .. MaxNotices)
  BY DEF StreamsTrue
<1>6. \A i \in DOMAIN heard : heard[i] \in 1 .. MaxNotices
  BY <1>5, ElementAt
<1>7. QED
  BY <1>3, <1>4, <1>5, <1>6

\* A step that prints, reads and hears nothing, and at most throws the first
\* piece of a line away when the panel leaves, keeps what lies between.
LEMMA QuietKeeps ==
  ASSUME NoticesInv,
         UNCHANGED <<stdout, heard, notices, closed>>,
         process' = process \/ process = "none",
         ~ left' /\ phase' # "failed" => ~ left /\ phase # "failed",
         buffer' = buffer \/ (buffer' = None /\ (left' \/ phase' = "failed"))
  PROVE  NoticesInv'
<1>1. Framed'
  BY DEF NoticesInv, Framed
<1>2. Ordered'
  BY DEF NoticesInv, Ordered
<1>3. Complete'
  BY DEF NoticesInv, Complete, Comes
<1>4. QED
  BY <1>1, <1>2, <1>3 DEF NoticesInv

\* The close event finds everything read.
LEMMA CloseKeeps ==
  ASSUME NoticesInv, Close
  PROVE  NoticesInv'
<1> USE DEF Close, server
<1>1. Framed'
  BY DEF NoticesInv, Framed
<1>2. Ordered'
  BY DEF NoticesInv, Ordered
<1>3. Complete'
  BY DEF NoticesInv, Complete, Comes
<1>4. QED
  BY <1>1, <1>2, <1>3 DEF NoticesInv

\* What holds of a stream still holds once its first piece is read.
LEMMA TailKeeps ==
  ASSUME NEW S, NEW q \in Seq(S), q # <<>>, NEW t, t = Tail(q)
  PROVE  /\ Alternating(q) => Alternating(t)
         /\ Rising(q) => Rising(t)
         /\ \A n : Comes(q, n) =>
              Comes(t, n) \/ (q[1].part = "end" /\ Notice(q, 1) /\ q[1].message.id = n)
<1>0. /\ Len(q) \in Nat \ {0} /\ DOMAIN q = 1 .. Len(q) /\ DOMAIN t = 1 .. Len(q) - 1
      /\ \A k \in DOMAIN t : k + 1 \in DOMAIN q /\ t[k] = q[k + 1]
      /\ \A k \in DOMAIN q : k # 1 => k - 1 \in DOMAIN t
  BY TailAt
<1>1. ASSUME Alternating(q) PROVE Alternating(t)
  BY <1>0, <1>1 DEF Alternating
<1>2. ASSUME Rising(q) PROVE Rising(t)
  BY <1>0, <1>2, SMTT(30) DEF Rising, Notice
<1>3. ASSUME NEW n, Comes(q, n), q[1].part # "end" \/ ~ Notice(q, 1) \/ q[1].message.id # n
      PROVE  Comes(t, n)
  <2>1. PICK k \in DOMAIN q : Notice(q, k) /\ q[k].part = "end" /\ q[k].message.id = n
    BY <1>3 DEF Comes
  <2>2. k # 1
    BY <1>3, <2>1
  <2>3. k - 1 \in DOMAIN t /\ t[k - 1] = q[k]
    BY <1>0, <2>2
  <2>4. QED
    BY <2>1, <2>3 DEF Comes, Notice
<1>4. QED
  BY <1>1, <1>2, <1>3

\* Reading the first piece of a line loses nothing: the rest is still to come.
LEMMA StartKeeps ==
  ASSUME IInv, NoticesInv, stdout # <<>>, stdout' = Tail(stdout), stdout[1].part = "start",
         buffer' = stdout[1].message,
         UNCHANGED <<heard, notices, closed, process, left, phase>>
  PROVE  NoticesInv'
<1> DEFINE q == Tail(stdout)
<1>0. /\ Len(stdout) \in Nat \ {0} /\ 1 \in DOMAIN stdout
      /\ DOMAIN stdout = 1 .. Len(stdout) /\ DOMAIN q = 1 .. Len(stdout) - 1
      /\ Len(q) = Len(stdout) - 1 /\ q \in Seq(TruePieces)
      /\ \A k \in DOMAIN q : k + 1 \in DOMAIN stdout /\ q[k] = stdout[k + 1]
      /\ \A k \in DOMAIN stdout : k # 1 => k - 1 \in DOMAIN q
  BY TailAt DEF IInv, StreamsTrue
<1>1. q = <<>> <=> Len(stdout) = 1
  BY TailAt DEF IInv, StreamsTrue
<1> HIDE DEF q
<1>2. stdout' = q
  BY DEF q
<1>3. q # <<>> => q[1].part = "end" /\ q[1].message = stdout[1].message
  BY <1>0, <1>1 DEF NoticesInv, Framed, Alternating
<1>4. Alternating(q) /\ Rising(q) /\ \A n : Comes(stdout, n) => Comes(q, n)
  BY TailKeeps DEF NoticesInv, Framed, Ordered, IInv, StreamsTrue, q
<1>5. Framed'
  <2>1. ASSUME process # "ended" PROVE q # <<>> /\ q[Len(q)].part = "end"
    <3>1. stdout[Len(stdout)].part = "end"
      BY <2>1 DEF NoticesInv, Framed
    <3>2. Len(stdout) # 1
      BY <3>1
    <3>3. Len(q) \in DOMAIN q /\ q[Len(q)] = stdout[Len(stdout)]
      BY <1>0, <3>2
    <3>4. QED
      BY <1>1, <3>1, <3>2, <3>3
  <2>2. QED
    BY <1>2, <1>3, <1>4, <2>1 DEF NoticesInv, Framed
<1>6. Ordered'
  <2>1. \A k \in DOMAIN q : Notice(q, k) =>
          /\ q[k].message.id <= notices
          /\ \A i \in DOMAIN heard : heard[i] < q[k].message.id
    BY <1>0 DEF NoticesInv, Ordered, Notice
  <2>2. QED
    BY <1>2, <1>4, <2>1 DEF NoticesInv, Ordered
<1>7. Complete'
  BY <1>2, <1>3, <1>4 DEF NoticesInv, Complete
<1>8. QED
  BY <1>5, <1>6, <1>7 DEF NoticesInv

\* Reading the rest of a line that is no notification, or of one of which the
\* first piece was thrown away.
LEMMA EndKeeps ==
  ASSUME IInv, NoticesInv, stdout # <<>>, stdout' = Tail(stdout), stdout[1].part = "end",
         buffer' = None,
         UNCHANGED <<heard, notices, closed, process, left, phase>>,
         ~ left /\ phase # "failed" => ~ Notice(stdout, 1)
  PROVE  NoticesInv'
<1> DEFINE q == Tail(stdout)
<1>0. /\ Len(stdout) \in Nat \ {0} /\ 1 \in DOMAIN stdout
      /\ DOMAIN stdout = 1 .. Len(stdout) /\ DOMAIN q = 1 .. Len(stdout) - 1
      /\ Len(q) = Len(stdout) - 1 /\ q \in Seq(TruePieces)
      /\ \A k \in DOMAIN q : k + 1 \in DOMAIN stdout /\ q[k] = stdout[k + 1]
  BY TailAt DEF IInv, StreamsTrue
<1>1. q = <<>> <=> Len(stdout) = 1
  BY TailAt DEF IInv, StreamsTrue
<1> HIDE DEF q
<1>2. stdout' = q
  BY DEF q
<1>3. q # <<>> => q[1].part # "end" /\ q[Len(q)] = stdout[Len(stdout)]
  BY <1>0, <1>1 DEF NoticesInv, Framed, Alternating
<1>4. /\ Alternating(q) /\ Rising(q)
      /\ \A n : Comes(stdout, n) => Comes(q, n) \/ Notice(stdout, 1)
  BY TailKeeps DEF NoticesInv, Framed, Ordered, IInv, StreamsTrue, q
<1>5. Framed'
  BY <1>2, <1>3, <1>4 DEF NoticesInv, Framed
<1>6. Ordered'
  <2>1. \A k \in DOMAIN q : Notice(q, k) =>
          /\ q[k].message.id <= notices
          /\ \A i \in DOMAIN heard : heard[i] < q[k].message.id
    BY <1>0 DEF NoticesInv, Ordered, Notice
  <2>2. QED
    BY <1>2, <1>4, <2>1 DEF NoticesInv, Ordered
<1>7. Complete'
  BY <1>2, <1>3, <1>4 DEF NoticesInv, Complete
<1>8. QED
  BY <1>5, <1>6, <1>7 DEF NoticesInv

\* A notification that is complete is the next one after those heard.
LEMMA HearKeeps ==
  ASSUME IInv, NoticesInv, stdout # <<>>, stdout' = Tail(stdout), stdout[1].part = "end",
         buffer' = None, Notice(stdout, 1), heard' = Append(heard, stdout[1].message.id),
         UNCHANGED <<notices, closed, process, left, phase>>
  PROVE  NoticesInv'
<1> DEFINE q == Tail(stdout)
           m == stdout[1].message.id
           h == Append(heard, m)
<1>0. /\ Len(stdout) \in Nat \ {0} /\ 1 \in DOMAIN stdout
      /\ DOMAIN stdout = 1 .. Len(stdout) /\ DOMAIN q = 1 .. Len(stdout) - 1
      /\ Len(q) = Len(stdout) - 1 /\ q \in Seq(TruePieces)
      /\ \A k \in DOMAIN q : k + 1 \in DOMAIN stdout /\ q[k] = stdout[k + 1]
  BY TailAt DEF IInv, StreamsTrue
<1>1. q = <<>> <=> Len(stdout) = 1
  BY TailAt DEF IInv, StreamsTrue
<1>2. /\ m \in 1 .. MaxNotices /\ notices \in Nat
      /\ \A k \in DOMAIN stdout : Notice(stdout, k) => stdout[k].message.id \in Nat
      /\ \A i \in DOMAIN heard : heard[i] \in Nat
  BY <1>0, PieceAt, ShellAssumption DEF IInv, ServerTyped
<1>3. /\ Len(heard) \in Nat /\ DOMAIN heard = 1 .. Len(heard)
      /\ DOMAIN h = 1 .. Len(heard) + 1 /\ Len(h) = Len(heard) + 1
      /\ \A i \in DOMAIN heard : h[i] = heard[i]
      /\ h[Len(heard) + 1] = m
  BY <1>2, HeardAt, PieceAt DEF IInv
<1>4. m <= notices /\ \A i \in DOMAIN heard : heard[i] < m
  BY <1>0 DEF NoticesInv, Ordered
<1>5. \A k \in DOMAIN stdout : Notice(stdout, k) /\ k # 1 => m < stdout[k].message.id
  BY <1>0 DEF NoticesInv, Ordered, Rising
<1> HIDE DEF q, m, h
<1>6. stdout' = q /\ heard' = h
  BY DEF q, h, m
<1>7. q # <<>> => q[1].part # "end" /\ q[Len(q)] = stdout[Len(stdout)]
  BY <1>0, <1>1, SMTT(30) DEF NoticesInv, Framed, Alternating
<1>8. /\ Alternating(q) /\ Rising(q)
      /\ \A n : Comes(stdout, n) => Comes(q, n) \/ n = m
  BY TailKeeps DEF NoticesInv, Framed, Ordered, IInv, StreamsTrue, q, m
<1>9. Framed'
  BY <1>6, <1>7, <1>8 DEF NoticesInv, Framed
<1>10. Ordered'
  <2>1. \A i, j \in DOMAIN h : i < j => h[i] < h[j]
    <3> SUFFICES ASSUME NEW i \in DOMAIN h, NEW j \in DOMAIN h, i < j PROVE h[i] < h[j]
      OBVIOUS
    <3>1. i \in DOMAIN heard /\ h[i] = heard[i]
      BY <1>3
    <3>2. CASE j \in DOMAIN heard
      BY <1>3, <3>1, <3>2 DEF NoticesInv, Ordered
    <3>3. CASE j = Len(heard) + 1
      BY <1>3, <1>4, <3>1, <3>3
    <3>4. QED
      BY <1>3, <3>2, <3>3
  <2>2. \A i \in DOMAIN h : h[i] <= m
    BY <1>2, <1>3, <1>4
  <2>3. \A k \in DOMAIN q : Notice(q, k) => q[k].message.id <= notices /\ m < q[k].message.id
    <3> SUFFICES ASSUME NEW k \in DOMAIN q, Notice(q, k)
                 PROVE  q[k].message.id <= notices /\ m < q[k].message.id
      OBVIOUS
    <3>1. k + 1 \in DOMAIN stdout /\ q[k] = stdout[k + 1] /\ k + 1 # 1
      BY <1>0
    <3>2. Notice(stdout, k + 1)
      BY <3>1 DEF Notice
    <3>3. QED
      BY <1>5, <3>1, <3>2 DEF NoticesInv, Ordered
  <2>4. \A i \in DOMAIN h : h[i] \in Nat
    BY <1>2, <1>3
  <2>5. \A k \in DOMAIN q : Notice(q, k) => q[k].message.id \in Nat
    BY <1>0, <1>2 DEF Notice
  <2>6. \A i \in DOMAIN h : h[i] <= notices
    BY <1>2, <1>4, <2>2, <2>4
  <2>7. \A k \in DOMAIN q : Notice(q, k) => \A i \in DOMAIN h : h[i] < q[k].message.id
    BY <1>2, <2>2, <2>3, <2>4, <2>5
  <2>8. QED
    BY <1>6, <1>8, <2>1, <2>3, <2>6, <2>7 DEF Ordered
<1>11. Complete'
  <2> SUFFICES ASSUME ~ left, phase # "failed"
               PROVE  /\ \A i \in DOMAIN h : h[i] = i
                      /\ \A n \in Len(h) + 1 .. notices :
                           Comes(q, n) \/ (n = notices /\ process = "ended")
    BY <1>6, <1>7 DEF Complete
  <2>1. /\ \A i \in DOMAIN heard : heard[i] = i
        /\ \A n \in Len(heard) + 1 .. notices :
             Comes(stdout, n) \/ (n = notices /\ process = "ended")
    BY DEF NoticesInv, Complete
  <2>2. m = Len(heard) + 1
    <3>1. m > Len(heard)
      <4>1. CASE Len(heard) = 0
        BY <1>2, <4>1
      <4>2. CASE Len(heard) # 0
        <5>1. Len(heard) \in DOMAIN heard
          BY <1>3, <4>2
        <5>2. QED
          BY <1>2, <1>3, <1>4, <2>1, <5>1
      <4>3. QED
        BY <4>1, <4>2
    <3>2. ASSUME m > Len(heard) + 1 PROVE FALSE
      <4>1. Comes(stdout, Len(heard) + 1)
        BY <1>2, <1>3, <1>4, <2>1, <3>2
      <4>2. PICK k \in DOMAIN stdout :
              Notice(stdout, k) /\ stdout[k].message.id = Len(heard) + 1
        BY <4>1 DEF Comes
      <4>3. k # 1
        BY <1>2, <1>3, <3>2, <4>2 DEF m
      <4>4. QED
        BY <1>2, <1>3, <1>5, <3>2, <4>2, <4>3
    <3>3. QED
      BY <1>2, <1>3, <3>1, <3>2
  <2>3. \A i \in DOMAIN h : h[i] = i
    BY <1>3, <2>1, <2>2
  <2>4. \A n \in Len(h) + 1 .. notices : n \in Len(heard) + 1 .. notices /\ n # m
    BY <1>2, <1>3, <2>2
  <2>5. QED
    BY <1>8, <2>1, <2>3, <2>4
<1>12. QED
  BY <1>9, <1>10, <1>11 DEF NoticesInv

\* Another line follows the lines that are whole.
LEMMA PrintKeeps ==
  ASSUME IInv, NoticesInv, process = "running", NEW m \in Messages, PrintMessage(m),
         UNCHANGED <<buffer, heard, closed, process, left, phase>>,
         IF m.kind = "notice" THEN m.id = notices + 1 /\ notices' = notices + 1
                              ELSE notices' = notices
  PROVE  NoticesInv'
<1> DEFINE a == [part |-> "start", message |-> m]
           b == [part |-> "end", message |-> m]
           p == stdout'
<1>1. /\ a.part = "start" /\ a.message = m /\ a \in Pieces
      /\ b.part = "end" /\ b.message = m /\ b \in Pieces
  BY DEF Pieces
<1>2. p = stdout \o <<a, b>> /\ stdout \in Seq(Pieces) /\ heard \in Seq(1 .. MaxNotices)
  BY InvTyped DEF PrintMessage, TypeOK
<1> HIDE DEF a, b, p
<1>3. /\ Len(stdout) \in Nat /\ DOMAIN stdout = 1 .. Len(stdout) /\ p # <<>>
      /\ DOMAIN p = 1 .. Len(stdout) + 2 /\ Len(p) = Len(stdout) + 2
      /\ \A k \in DOMAIN stdout : p[k] = stdout[k]
      /\ p[Len(stdout) + 1] = a /\ p[Len(stdout) + 2] = b
  BY <1>1, <1>2, PrintedAt
<1>4. stdout = <<>> <=> Len(stdout) = 0
  BY <1>2, EmptySeq
<1>5. /\ notices \in Nat /\ \A i \in DOMAIN heard : heard[i] \in Nat
      /\ \A k \in DOMAIN stdout : Notice(stdout, k) => stdout[k].message.id \in Nat
  BY PieceAt, ShellAssumption DEF IInv, ServerTyped
<1>6. ~ closed /\ (stdout = <<>> => buffer = None)
      /\ (stdout # <<>> => stdout[Len(stdout)].part = "end")
  BY DEF IInv, Opened, NoticesInv, Framed
<1>7. \A k \in DOMAIN p :
        \/ k \in DOMAIN stdout /\ p[k] = stdout[k]
        \/ k = Len(stdout) + 1 /\ p[k] = a
        \/ k = Len(stdout) + 2 /\ p[k] = b
  BY <1>3
<1>8. Framed'
  <2>1. Alternating(p)
    <3> SUFFICES ASSUME NEW k \in DOMAIN p, k + 1 \in DOMAIN p
                 PROVE  IF p[k].part = "start"
                          THEN p[k + 1].part = "end" /\ p[k + 1].message = p[k].message
                          ELSE p[k + 1].part = "start"
      BY DEF Alternating
    <3>1. CASE k + 1 \in DOMAIN stdout
      <4>1. k \in DOMAIN stdout
        BY <1>3, <3>1
      <4>2. QED
        BY <1>3, <3>1, <4>1 DEF NoticesInv, Framed, Alternating
    <3>2. CASE k = Len(stdout)
      <4>1. k \in DOMAIN stdout /\ stdout # <<>>
        BY <1>3, <1>4, <3>2
      <4>2. QED
        BY <1>1, <1>3, <1>6, <3>2, <4>1
    <3>3. CASE k = Len(stdout) + 1
      BY <1>1, <1>3, <3>3
    <3>4. QED
      BY <1>3, <3>1, <3>2, <3>3
  <2>2. p[Len(p)].part = "end"
    BY <1>1, <1>3
  <2>3. IF stdout = <<>> THEN p[1].part = "start" ELSE p[1] = stdout[1]
    BY <1>1, <1>3, <1>4
  <2>4. QED
    BY <1>3, <1>6, <2>1, <2>2, <2>3 DEF NoticesInv, Framed, p
<1>9. Ordered'
  <2>1. \A k \in DOMAIN p : Notice(p, k) =>
          \/ k \in DOMAIN stdout /\ p[k] = stdout[k] /\ Notice(stdout, k)
          \/ k > Len(stdout) /\ p[k].message = m /\ m.id = notices + 1 /\ notices' = notices + 1
    BY <1>1, <1>3, <1>7 DEF Notice
  <2>2. \A k \in DOMAIN p : Notice(p, k) =>
          /\ p[k].message.id <= notices'
          /\ \A i \in DOMAIN heard : heard[i] < p[k].message.id
    BY <1>5, <2>1 DEF NoticesInv, Ordered
  <2>3. Rising(p)
    <3> SUFFICES ASSUME NEW k \in DOMAIN p, NEW l \in DOMAIN p, k < l, Notice(p, k), Notice(p, l)
                 PROVE  p[k].message.id < p[l].message.id \/ (p[k].part = "start" /\ l = k + 1)
      BY DEF Rising
    <3>1. CASE l \in DOMAIN stdout
      <4>1. k \in DOMAIN stdout
        BY <1>3, <3>1
      <4>2. Notice(stdout, k) /\ Notice(stdout, l) /\ p[k] = stdout[k] /\ p[l] = stdout[l]
        BY <1>3, <3>1, <4>1 DEF Notice
      <4>3. QED
        BY <3>1, <4>1, <4>2 DEF NoticesInv, Ordered, Rising
    <3>2. CASE k \in DOMAIN stdout /\ l \notin DOMAIN stdout
      <4>1. Notice(stdout, k) /\ p[k] = stdout[k] /\ p[l].message.id = notices + 1
        BY <1>3, <2>1, <3>2 DEF Notice
      <4>2. p[k].message.id <= notices /\ p[k].message.id \in Nat
        BY <1>5, <3>2, <4>1 DEF NoticesInv, Ordered
      <4>3. QED
        BY <1>5, <4>1, <4>2
    <3>3. CASE k \notin DOMAIN stdout /\ l \notin DOMAIN stdout
      BY <1>1, <1>3, <1>7, <3>3
    <3>4. QED
      BY <1>3, <3>1, <3>2, <3>3
  <2>4. \A i \in DOMAIN heard : heard[i] <= notices'
    BY <1>5 DEF NoticesInv, Ordered
  <2>5. QED
    BY <2>2, <2>3, <2>4 DEF NoticesInv, Ordered, p
<1>10. Complete'
  <2>1. \A n : Comes(stdout, n) => Comes(p, n)
    <3> SUFFICES ASSUME NEW n, Comes(stdout, n) PROVE Comes(p, n)
      OBVIOUS
    <3>1. PICK k \in DOMAIN stdout :
            Notice(stdout, k) /\ stdout[k].part = "end" /\ stdout[k].message.id = n
      BY DEF Comes
    <3>2. k \in DOMAIN p /\ p[k] = stdout[k]
      BY <1>3
    <3>3. QED
      BY <3>1, <3>2 DEF Comes, Notice
  <2>2. notices' # notices => Comes(p, notices')
    <3> SUFFICES ASSUME notices' # notices PROVE Comes(p, notices')
      OBVIOUS
    <3>1. m.kind = "notice" /\ m.id = notices'
      OBVIOUS
    <3>2. Len(stdout) + 2 \in DOMAIN p /\ p[Len(stdout) + 2] = b
      BY <1>3
    <3>3. QED
      BY <1>1, <3>1, <3>2 DEF Comes, Notice
  <2>3. \A n \in Len(heard) + 1 .. notices' : n \in Len(heard) + 1 .. notices \/ n = notices'
    <3>1. Len(heard) \in Nat
      BY <1>2, LenProperties
    <3>2. QED
      BY <1>5, <3>1
  <2>4. stdout = <<>> => p[1].part # "end"
    BY <1>1, <1>3, <1>4
  <2>5. stdout # <<>> => p[1] = stdout[1]
    BY <1>3, <1>4
  <2>6. ASSUME ~ left, phase # "failed", NEW n \in Len(heard) + 1 .. notices' PROVE Comes(p, n)
    BY <2>1, <2>2, <2>3, <2>6 DEF NoticesInv, Complete
  <2>7. QED
    BY <2>4, <2>5, <2>6 DEF NoticesInv, Complete, p
<1>11. QED
  BY <1>8, <1>9, <1>10 DEF NoticesInv

\* The end of the process cuts at most the line of its last message.
LEMMA ExitKeeps ==
  ASSUME IInv, NoticesInv, Exit
  PROVE  NoticesInv'
<1>0. /\ process = "running" /\ process' = "ended"
      /\ UNCHANGED <<phase, left, buffer, heard, closed, notices>>
  BY DEF Exit, connection
<1>1. CASE UNCHANGED stdout
  <2>1. Framed'
    BY <1>0, <1>1 DEF NoticesInv, Framed
  <2>2. Ordered'
    BY <1>0, <1>1 DEF NoticesInv, Ordered
  <2>3. Complete'
    BY <1>0, <1>1 DEF NoticesInv, Complete
  <2>4. QED
    BY <2>1, <2>2, <2>3 DEF NoticesInv
<1>2. CASE stdout # <<>> /\ stdout' = SubSeq(stdout, 1, Len(stdout) - 1)
  <2> DEFINE c == stdout'
  <2>1. stdout \in Seq(Pieces) /\ heard \in Seq(1 .. MaxNotices)
    BY InvTyped DEF TypeOK
  <2>2. /\ Len(stdout) \in Nat \ {0} /\ DOMAIN stdout = 1 .. Len(stdout)
        /\ DOMAIN c = 1 .. Len(stdout) - 1
        /\ \A k \in DOMAIN c : k \in DOMAIN stdout /\ c[k] = stdout[k]
    BY <1>2, <2>1, CutAt
  <2>3. c = <<>> \/ (1 \in DOMAIN c /\ c[1] = stdout[1])
    <3>1. c \in Seq(Pieces) /\ Len(c) = Len(stdout) - 1
      <4>1. \A k \in 1 .. Len(stdout) - 1 : stdout[k] \in Pieces
        BY <2>1, <2>2, ElementAt
      <4>2. QED
        BY <1>2, <2>2, <4>1, SubSeqProperties
    <3>2. c # <<>> => Len(c) # 0
      BY <3>1, EmptySeq
    <3>3. QED
      BY <2>2, <3>1, <3>2
  <2> HIDE DEF c
  <2>4. Framed'
    <3>1. Alternating(c)
      BY <2>2 DEF NoticesInv, Framed, Alternating
    <3>2. QED
      BY <1>0, <1>2, <2>3, <3>1 DEF NoticesInv, Framed, IInv, Opened, c
  <2>5. Ordered'
    <3>1. Rising(c)
      BY <2>2 DEF NoticesInv, Ordered, Rising, Notice
    <3>2. \A k \in DOMAIN c : Notice(c, k) =>
            /\ c[k].message.id <= notices
            /\ \A i \in DOMAIN heard : heard[i] < c[k].message.id
      BY <2>2 DEF NoticesInv, Ordered, Notice
    <3>3. QED
      BY <1>0, <3>1, <3>2 DEF NoticesInv, Ordered, c
  <2>6. Complete'
    <3> SUFFICES ASSUME ~ left, phase # "failed"
                 PROVE  \A n \in Len(heard) + 1 .. notices : Comes(c, n) \/ n = notices
      BY <1>0, <1>2, <2>3 DEF NoticesInv, Complete, c
    <3>1. notices \in Nat /\ Len(heard) \in Nat
          /\ \A k \in DOMAIN stdout : Notice(stdout, k) => stdout[k].message.id \in Nat
      BY <2>1, PieceAt, LenProperties, ShellAssumption DEF IInv, ServerTyped
    <3>2. \A n \in Len(heard) + 1 .. notices : Comes(stdout, n)
      BY <1>0 DEF NoticesInv, Complete
    <3> SUFFICES ASSUME NEW n \in Len(heard) + 1 .. notices, n # notices PROVE Comes(c, n)
      OBVIOUS
    <3>3. PICK k \in DOMAIN stdout :
            Notice(stdout, k) /\ stdout[k].part = "end" /\ stdout[k].message.id = n
      BY <3>2 DEF Comes
    <3>4. PICK l \in DOMAIN stdout :
            Notice(stdout, l) /\ stdout[l].part = "end" /\ stdout[l].message.id = notices
      BY <3>1, <3>2 DEF Comes
    <3>5. k # Len(stdout)
      <4> SUFFICES ASSUME k = Len(stdout) PROVE FALSE
        OBVIOUS
      <4>1. l < k
        BY <2>2, <3>3, <3>4
      <4>2. stdout[l].message.id < stdout[k].message.id
        BY <3>3, <3>4, <4>1 DEF NoticesInv, Ordered, Rising
      <4>3. QED
        BY <3>1, <3>3, <3>4, <4>2
    <3>6. k \in DOMAIN c /\ c[k] = stdout[k]
      BY <2>2, <3>5
    <3>7. QED
      BY <3>3, <3>6 DEF Comes, Notice
  <2>7. QED
    BY <2>4, <2>5, <2>6 DEF NoticesInv
<1>3. QED
  BY <1>1, <1>2 DEF Exit

\* handleStdout: a complete notification goes to the panel, and only that.
LEMMA ChunkKeeps ==
  ASSUME IInv, NoticesInv, Chunk
  PROVE  NoticesInv'
<1>0. /\ stdout # <<>> /\ stdout' = Tail(stdout)
      /\ UNCHANGED <<notices, closed, process, left, phase>>
  BY DEF Chunk, connection, server
<1>1. Head(stdout) = stdout[1] /\ 1 \in DOMAIN stdout
  BY <1>0, TailAt DEF IInv, StreamsTrue
<1>2. stdout[1].message \in Messages
  BY <1>1, PieceAt DEF IInv
<1>3. CASE stdout[1].part = "start" /\ buffer' = stdout[1].message /\ UNCHANGED heard
  BY <1>0, <1>3, StartKeeps
<1>4. CASE stdout[1].part = "end" /\ buffer' = None /\ buffer = None /\ UNCHANGED heard
  <2>1. left \/ phase = "failed"
    BY <1>0, <1>2, <1>4, ShellAssumption DEF NoticesInv, Complete
  <2>2. QED
    BY <1>0, <1>4, <2>1, EndKeeps
<1>5. CASE stdout[1].part = "end" /\ buffer' = None /\ buffer # None /\ HandleLine(buffer)
  <2>1. buffer = stdout[1].message
    BY <1>0, <1>5 DEF NoticesInv, Framed
  <2>2. CASE Notice(stdout, 1)
    BY <1>0, <1>5, <2>1, <2>2, HearKeeps DEF HandleLine, Notice
  <2>3. CASE ~ Notice(stdout, 1)
    BY <1>0, <1>5, <2>1, <2>3, EndKeeps DEF HandleLine, Notice
  <2>4. QED
    BY <2>2, <2>3
<1>6. QED
  BY <1>1, <1>3, <1>4, <1>5 DEF Chunk, table

\* Every step keeps what lies between the process and the panel.
LEMMA NoticesStep ==
  IInv /\ NoticesInv /\ [Next]_vars => NoticesInv'
<1> SUFFICES ASSUME IInv, NoticesInv, [Next]_vars PROVE NoticesInv'
  OBVIOUS
<1>1. CASE Connecting \/ Request \/ Disconnect \/ Writes \/ Timeouts \/ UNCHANGED vars
  <2>1. UNCHANGED <<stdout, heard, notices, closed>> /\ (process' = process \/ process = "none")
    BY <1>1 DEF Connecting, Connect, SpawnFails, SpawnStarts, Spawned, Initialized, Announced,
       ConnectFails, Leave, Request, Disconnect, Writes, Timeouts, Deliver, SendFails, Timeout,
       server, vars
  <2>2. CASE Disconnect
    <3>1. left' /\ buffer' = None
      BY <2>2 DEF Disconnect, Leave
    <3>2. QED
      BY <2>1, <3>1, QuietKeeps
  <2>3. CASE ConnectFails
    <3>1. phase' = "failed" /\ buffer' = None
      BY <2>3 DEF ConnectFails, Leave
    <3>2. QED
      BY <2>1, <3>1, QuietKeeps
  <2>4. CASE ~ Disconnect /\ ~ ConnectFails
    <3>1. left' = left /\ buffer' = buffer /\ (phase = "failed" => phase' = "failed")
      BY <1>1, <2>4 DEF Connecting, Connect, SpawnFails, SpawnStarts, Spawned, Initialized,
         Announced, Request, Writes, Timeouts, Deliver, SendFails, Timeout, connection, vars
    <3>2. QED
      BY <2>1, <3>1, QuietKeeps
  <2>5. QED
    BY <2>2, <2>3, <2>4
<1>2. ASSUME NEW i \in Requests, NEW answer \in Answers, Reply(i, answer)
      PROVE  NoticesInv'
  <2> DEFINE m == [kind |-> "answer", id |-> i, answer |-> answer]
  <2>1. m \in Messages /\ m.kind # "notice"
    BY DEF Messages
  <2>2. PrintMessage(m) /\ process = "running"
        /\ UNCHANGED <<buffer, heard, closed, process, left, phase, notices>>
    BY <1>2 DEF Reply, connection
  <2> HIDE DEF m
  <2>3. QED
    BY <2>1, <2>2, PrintKeeps
<1>3. CASE Notify
  <2> DEFINE m == [kind |-> "notice", id |-> notices + 1, answer |-> "none"]
  <2>1. m \in Messages
    BY <1>3, ShellAssumption DEF Messages, Notify, IInv, ServerTyped
  <2>2. m.id = notices + 1 /\ m.kind = "notice"
    OBVIOUS
  <2>3. PrintMessage(m) /\ process = "running" /\ notices' = notices + 1
        /\ UNCHANGED <<buffer, heard, closed, process, left, phase>>
    BY <1>3 DEF Notify, connection
  <2> HIDE DEF m
  <2>4. QED
    BY <2>1, <2>2, <2>3, PrintKeeps
<1>4. QED
  BY <1>1, <1>2, <1>3, ChunkKeeps, CloseKeeps, ExitKeeps DEF Next, Events

\* tauri-shell.ts, handleStdout: however its output is cut into chunks, the
\* panel hears the notifications of its process in the order they were sent, and
\* every one up to the moment it disconnects.
THEOREM NoticesKept == Spec => []NoticesInOrder
<1>1. Init => NoticesInv
  <2> SUFFICES ASSUME Init PROVE NoticesInv
    OBVIOUS
  <2>1. Framed /\ Ordered
    BY DEF Init, Framed, Ordered, Alternating, Rising
  <2>2. Complete
    BY DEF Init, Complete
  <2>3. QED
    BY <2>1, <2>2 DEF NoticesInv
<1>2. NoticesInv => NoticesInOrder
  BY DEF NoticesInv, Ordered, Complete, NoticesInOrder
<1>3. QED
  BY <1>1, <1>2, NoticesStep, AlwaysPromises, PTL DEF Spec

=============================================================================
