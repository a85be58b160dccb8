----------------------------- MODULE ShellClient -----------------------------
(***************************************************************************)
(* The panel's client of an app-server it spawns itself                    *)
(* (src/lib/tauri-shell.ts): connect tries one command line after the      *)
(* other, then requests and answers go over stdin and stdout.  One client  *)
(* connects once: the panel makes a new one for each connection.           *)
(*                                                                         *)
(* The process, the writes to it and its events run beside the client;     *)
(* each event handler of the client, and each stretch between two awaits,  *)
(* is one step.  A request made while there is no child is rejected at     *)
(* once and leaves no trace, so it is not a step.                          *)
(***************************************************************************)
EXTENDS Naturals, Sequences

CONSTANTS
  Commands,     \* how many command lines getAppServerCommands returns
  MaxRequests,  \* bound: requests of one client, "initialize" among them
  MaxNotices,   \* bound: notifications of one process
  None          \* nothing

Requests == 1 .. MaxRequests
Initialize == 1
Answers == {"answered", "refused"}
Messages == [kind : {"answer"}, id : Requests, answer : Answers]
            \cup [kind : {"notice"}, id : 1 .. MaxNotices, answer : {"none"}]

ASSUME ShellAssumption ==
  /\ Commands \in Nat \ {0}
  /\ MaxRequests \in Nat \ {0}
  /\ MaxNotices \in Nat
  /\ None \notin Messages

VARIABLES
  phase,          \* how far connect has come
  command,        \* the command line spawnAppServer tries
  child,          \* this.child is set
  closing,        \* this.closing
  buffer,         \* this.buffer: the line of which the first part was read
  nextRequestId,
  pending,        \* the keys of this.pending
  timers,         \* the requests whose timeout is armed
  promise,        \* what became of each request
  heard,          \* the notifications handed to the panel
  left,           \* the panel has disconnected this client
  told,           \* how often onDisconnect was called
  process,        \* the app-server: "none", "running", "ended"
  closed,         \* its close event was handled
  sending,        \* requests on their way to its stdin
  received,       \* requests it has read
  reply,          \* its answer to each request
  notices,        \* how many notifications it has sent
  stdout          \* what it has printed: each message in two parts

connection == <<phase, command, child, closing, left, told>>
table == <<nextRequestId, pending, timers, promise>>
server == <<process, received, reply, notices>>
vars == <<connection, table, server, buffer, heard, closed, sending, stdout>>

-----------------------------------------------------------------------------
(* Requests.                                                               *)

\* A promise keeps the first outcome it is given.
Settle(ids, outcome) ==
  promise' = [i \in Requests |-> IF i \in ids /\ promise[i] = "open" THEN outcome
                                 ELSE promise[i]]

\* request: an entry, a timer, and the line sent.
Ask ==
  /\ nextRequestId \in Requests
  /\ nextRequestId' = nextRequestId + 1
  /\ pending' = pending \cup {nextRequestId}
  /\ timers' = timers \cup {nextRequestId}
  /\ promise' = [promise EXCEPT ![nextRequestId] = "open"]
  /\ sending' = sending \cup {nextRequestId}

\* Mutant: timers are cleared and entries dropped, but no promise is rejected.
ForgetPending ==
  /\ UNCHANGED promise
  /\ timers' = timers \ pending
  /\ pending' = {}
  /\ UNCHANGED nextRequestId

RejectPending ==
  /\ Settle(pending, "failed")
  /\ timers' = timers \ pending
  /\ pending' = {}
  /\ UNCHANGED nextRequestId

\* A request of the panel, over the client it is connected with.
Request ==
  /\ phase = "open" /\ child
  /\ Ask
  /\ UNCHANGED <<connection, server, buffer, heard, closed, stdout>>

\* RPC_TIMEOUT_MS have passed.
Timeout(i) ==
  /\ i \in timers
  /\ timers' = timers \ {i}
  /\ pending' = pending \ {i}
  /\ Settle({i}, "failed")
  /\ UNCHANGED <<connection, nextRequestId, server, buffer, heard, closed, sending, stdout>>

\* Mutant: the entry is kept when the line could not be written.
KeepUnsent(i) ==
  /\ timers' = timers \ {i}
  /\ Settle({i}, "failed")
  /\ UNCHANGED pending

\* The catch of send in request.
DropUnsent(i) ==
  /\ timers' = timers \ {i}
  /\ pending' = pending \ {i}
  /\ Settle({i}, "failed")

SendFails(i) ==
  /\ i \in sending
  /\ sending' = sending \ {i}
  /\ DropUnsent(i)
  /\ UNCHANGED <<connection, nextRequestId, server, buffer, heard, closed, stdout>>

-----------------------------------------------------------------------------
(* Connecting and disconnecting.                                           *)

\* disconnect: the child is killed, which nobody waits for.
Leave ==
  /\ closing' = TRUE
  /\ child' = FALSE
  /\ buffer' = None
  /\ RejectPending

\* Mutant: closing stays as connect's disconnect left it.
ConnectClosing ==
  /\ phase = "new"
  /\ phase' = "spawning"
  /\ closing' = TRUE
  /\ UNCHANGED <<command, child, left, told, table, server, buffer, heard, closed,
                 sending, stdout>>

\* connect disconnects first, which changes nothing for a new client, and sets
\* closing back.
Connect ==
  /\ phase = "new"
  /\ phase' = "spawning"
  /\ closing' = FALSE
  /\ UNCHANGED <<command, child, left, told, table, server, buffer, heard, closed,
                 sending, stdout>>

\* Mutant: one command line too many.
SpawnFailsOnce ==
  /\ phase = "spawning" /\ process = "none"
  /\ \/ command <= Commands /\ command' = command + 1 /\ UNCHANGED phase
     \/ command > Commands /\ phase' = "failed" /\ UNCHANGED command
  /\ UNCHANGED <<child, closing, left, told, table, server, buffer, heard, closed,
                 sending, stdout>>

\* This command line cannot be run: the next is tried, or connect throws.
SpawnFails ==
  /\ phase = "spawning" /\ process = "none"
  /\ \/ command < Commands /\ command' = command + 1 /\ UNCHANGED phase
     \/ command = Commands /\ phase' = "failed" /\ UNCHANGED command
  /\ UNCHANGED <<child, closing, left, told, table, server, buffer, heard, closed,
                 sending, stdout>>

SpawnStarts ==
  /\ phase = "spawning" /\ process = "none"
  /\ process' = "running"
  /\ UNCHANGED <<connection, table, received, reply, notices, buffer, heard, closed,
                 sending, stdout>>

\* spawn resolves, perhaps after the process has ended; "initialize" is sent.
Spawned ==
  /\ phase = "spawning" /\ process # "none"
  /\ phase' = "initializing"
  /\ child' = TRUE
  /\ Ask
  /\ UNCHANGED <<command, closing, left, told, server, buffer, heard, closed, stdout>>

\* Mutant: any outcome of "initialize" will do.
InitializedAnyhow ==
  /\ phase = "initializing" /\ promise[Initialize] # "open"
  /\ phase' = "announcing"
  /\ UNCHANGED <<command, child, closing, left, told, table, server, buffer, heard,
                 closed, sending, stdout>>

\* "initialize" was answered: "initialized" is sent.
Initialized ==
  /\ phase = "initializing" /\ promise[Initialize] = "answered"
  /\ phase' = "announcing"
  /\ UNCHANGED <<command, child, closing, left, told, table, server, buffer, heard,
                 closed, sending, stdout>>

Announced ==
  /\ phase = "announcing" /\ child
  /\ phase' = "open"
  /\ UNCHANGED <<command, child, closing, left, told, table, server, buffer, heard,
                 closed, sending, stdout>>

\* The catch of connect: "initialize" failed, or "initialized" was not written.
ConnectFails ==
  /\ \/ phase = "initializing" /\ promise[Initialize] \in {"refused", "failed"}
     \/ phase = "announcing"
  /\ phase' = "failed"
  /\ Leave
  /\ UNCHANGED <<command, left, told, server, heard, closed, sending, stdout>>

\* The panel disconnects the client it holds, clientRef.
Disconnect ==
  /\ phase = "open" /\ ~ left /\ told = 0
  /\ left' = TRUE
  /\ Leave
  /\ UNCHANGED <<phase, command, told, server, heard, closed, sending, stdout>>

-----------------------------------------------------------------------------
(* Events of the process.                                                  *)

\* "close": the last event of a process, whether it was killed or exited.
Close ==
  /\ process = "ended" /\ stdout = <<>> /\ ~ closed
  /\ closed' = TRUE
  /\ told' = IF closing THEN told ELSE told + 1
  /\ closing' = FALSE
  /\ child' = FALSE
  /\ buffer' = None
  /\ RejectPending
  /\ UNCHANGED <<phase, command, left, server, heard, sending, stdout>>

\* Mutant: answers are taken in the order of the requests.
HandleInOrder(m) ==
  /\ IF m.kind = "answer" /\ pending # {}
       THEN LET first == CHOOSE i \in pending : \A j \in pending : i <= j
            IN /\ Settle({first}, m.answer)
               /\ pending' = pending \ {first}
               /\ timers' = timers \ {first}
       ELSE UNCHANGED <<promise, pending, timers>>
  /\ heard' = IF m.kind = "notice" THEN Append(heard, m.id) ELSE heard
  /\ UNCHANGED nextRequestId

\* A line is complete: an answer settles the request it names if that is
\* pending, a notification goes to the panel.
HandleLine(m) ==
  /\ IF m.kind = "answer" /\ m.id \in pending
       THEN /\ Settle({m.id}, m.answer)
            /\ pending' = pending \ {m.id}
            /\ timers' = timers \ {m.id}
       ELSE UNCHANGED <<promise, pending, timers>>
  /\ heard' = IF m.kind = "notice" THEN Append(heard, m.id) ELSE heard
  /\ UNCHANGED nextRequestId

\* Mutant: an answer nobody waits for ends the handler, not just its line.
ChunkReturns ==
  /\ stdout # <<>>
  /\ LET piece == Head(stdout)
         unknown == buffer # None /\ buffer.kind = "answer" /\ buffer.id \notin pending
     IN \/ /\ piece.part = "start" /\ buffer' = piece.message /\ UNCHANGED <<table, heard>>
           /\ stdout' = Tail(stdout)
        \/ /\ piece.part = "end" /\ buffer' = None
           /\ stdout' = IF unknown THEN <<>> ELSE Tail(stdout)
           /\ IF buffer = None THEN UNCHANGED <<table, heard>> ELSE HandleLine(buffer)
  /\ UNCHANGED <<connection, server, closed, sending>>

\* handleStdout, for the first part of a line or for the rest of it.  If the
\* first part was thrown away by disconnect, the rest is no JSON and is logged.
Chunk ==
  /\ stdout # <<>>
  /\ stdout' = Tail(stdout)
  /\ LET piece == Head(stdout)
     IN \/ piece.part = "start" /\ buffer' = piece.message /\ UNCHANGED <<table, heard>>
        \/ /\ piece.part = "end" /\ buffer' = None
           /\ IF buffer = None THEN UNCHANGED <<table, heard>> ELSE HandleLine(buffer)
  /\ UNCHANGED <<connection, server, closed, sending>>

-----------------------------------------------------------------------------
(* The process.                                                            *)

\* A line is written; a process that has ended does not read it.
Deliver(i) ==
  /\ i \in sending
  /\ sending' = sending \ {i}
  /\ received' = IF process = "running" THEN received \cup {i} ELSE received
  /\ UNCHANGED <<connection, table, process, reply, notices, buffer, heard, closed, stdout>>

PrintMessage(m) ==
  stdout' = stdout \o <<[part |-> "start", message |-> m], [part |-> "end", message |-> m]>>

\* Requests are answered in any order, or never.
Reply(i, answer) ==
  /\ process = "running" /\ i \in received /\ reply[i] = "none"
  /\ reply' = [reply EXCEPT ![i] = answer]
  /\ PrintMessage([kind |-> "answer", id |-> i, answer |-> answer])
  /\ UNCHANGED <<connection, table, process, received, notices, buffer, heard, closed, sending>>

Notify ==
  /\ process = "running" /\ notices < MaxNotices
  /\ notices' = notices + 1
  /\ PrintMessage([kind |-> "notice", id |-> notices + 1, answer |-> "none"])
  /\ UNCHANGED <<connection, table, process, received, reply, buffer, heard, closed, sending>>

\* It exits by itself or is killed; a line may be cut short.
Exit ==
  /\ process = "running"
  /\ process' = "ended"
  /\ \/ UNCHANGED stdout
     \/ stdout # <<>> /\ stdout' = SubSeq(stdout, 1, Len(stdout) - 1)
  /\ UNCHANGED <<connection, table, received, reply, notices, buffer, heard, closed, sending>>

-----------------------------------------------------------------------------
(* The specification.                                                      *)

Init ==
  /\ phase = "new" /\ command = 1 /\ child = FALSE /\ closing = FALSE
  /\ left = FALSE /\ told = 0
  /\ buffer = None /\ heard = <<>>
  /\ nextRequestId = 1 /\ pending = {} /\ timers = {}
  /\ promise = [i \in Requests |-> "unasked"]
  /\ process = "none" /\ closed = FALSE
  /\ sending = {} /\ received = {} /\ notices = 0 /\ stdout = <<>>
  /\ reply = [i \in Requests |-> "none"]

Connecting == Connect \/ SpawnFails \/ SpawnStarts \/ Spawned
              \/ Initialized \/ Announced \/ ConnectFails
Writes == \E i \in Requests : Deliver(i) \/ SendFails(i)
Timeouts == \E i \in Requests : Timeout(i)
Events == Chunk \/ Close

Next ==
  \/ Connecting \/ Request \/ Disconnect
  \/ Writes \/ Timeouts \/ Events
  \/ \E i \in Requests, answer \in Answers : Reply(i, answer)
  \/ Notify \/ Exit

Spec == Init /\ [][Next]_vars

\* The event loop of the window runs: connect goes on after its awaits, timers
\* fire, writes and events come through.  What the process does is up to it.
Fairness ==
  /\ WF_vars(Connecting) /\ WF_vars(Writes) /\ WF_vars(Events)
  /\ \A i \in Requests : WF_vars(Timeout(i))
FairSpec == Spec /\ Fairness

-----------------------------------------------------------------------------
(* Properties.                                                             *)

Pieces == [part : {"start", "end"}, message : Messages]

\* Every variable has its type.
TypeOK ==
  /\ phase \in {"new", "spawning", "initializing", "announcing", "open", "failed"}
  /\ command \in 1 .. Commands
  /\ child \in BOOLEAN /\ closing \in BOOLEAN /\ left \in BOOLEAN /\ told \in Nat
  /\ buffer \in Messages \cup {None} /\ heard \in Seq(1 .. MaxNotices)
  /\ nextRequestId \in 1 .. MaxRequests + 1
  /\ pending \subseteq Requests /\ timers \subseteq Requests
  /\ promise \in [Requests -> {"unasked", "open", "failed"} \cup Answers]
  /\ process \in {"none", "running", "ended"} /\ closed \in BOOLEAN
  /\ sending \subseteq Requests /\ received \subseteq Requests
  /\ notices \in 0 .. MaxNotices /\ stdout \in Seq(Pieces)
  /\ reply \in [Requests -> {"none"} \cup Answers]

\* The table, the timers and the promises agree: what is unsettled can still be
\* answered and will time out, what is settled has left nothing behind, over
\* answers, timeouts, failed writes and exits in any order.
TableMatchesPromises ==
  \A i \in Requests : /\ i \in pending <=> promise[i] = "open"
                      /\ i \in timers <=> promise[i] = "open"

\* A client that has connected and says so has a process whose end was not yet
\* reported, even if a process may end before spawn resolves.
OpenIsLive == phase = "open" /\ child => ~ closed

\* The panel hears of the end of its process once, and not of one it ended.
EndIsTold ==
  /\ told <= 1
  /\ closed /\ phase = "open" /\ ~ left => told = 1
  /\ left => told = 0

\* Notifications reach the panel in the order they were sent, none twice, and
\* none is lost before the panel disconnects.
NoticesInOrder ==
  /\ \A i, j \in DOMAIN heard : i < j => heard[i] < heard[j]
  /\ ~ left /\ phase # "failed" => \A i \in DOMAIN heard : heard[i] = i

\* Every request is settled, whatever the process does: the panel waits for none
\* for ever, and connect, which waits for "initialize", comes to an end.
RequestsSettled == \A i \in Requests : promise[i] = "open" ~> promise[i] # "open"

\* What a caller is promised: see RequestTable.
Calls == INSTANCE RequestTable WITH result <- promise, served <- reply
ImplementsRequestTable == Calls!Spec

=============================================================================
