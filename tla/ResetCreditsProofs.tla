------------------------- MODULE ResetCreditsProofs -------------------------
(***************************************************************************)
(* That the panel shows no reset credits from before it last forgot them,  *)
(* for any accounts, any number of requests and of switches.  The argument *)
(* is about the requests under way: one that carries the current           *)
(* generation was sent after the last change, so the login it read is one  *)
(* that auth.json has held since.                                          *)
(***************************************************************************)
EXTENDS ResetCredits, TLAPS

\* A request under way: no newer than the generation, and if it is of the
\* current one then what it read is recent.
GoodRequest(q, g, s) ==
  q # Free =>
    /\ q.generation \in 0 .. g
    /\ q.generation = g /\ q.login # None => q.login \in s

RequestsTyped == request \in [Requests -> [generation : Nat \cup {None},
                                           login : Connections \cup {None}]]

ConnectionsTyped ==
  /\ login \in Plus
  /\ active \in Connections /\ shown \in Connections
  /\ target \in Connections /\ previous \in Connections

IInv ==
  /\ RequestsTyped
  /\ ConnectionsTyped
  /\ generation \in Nat
  /\ login \in since
  /\ ShownIsRecent
  /\ \A r \in Requests : GoodRequest(request[r], generation, since)

\* The connections stay connections.
LEMMA ConnectionsStay ==
  ASSUME ConnectionsTyped, [Next]_vars
  PROVE  ConnectionsTyped'
<1> USE DEF ConnectionsTyped, Connections, files, switch
<1>1. CASE Tick \/ RefreshClicked \/ Elapse
  BY <1>1 DEF Tick, RefreshClicked, Elapse
<1>2. CASE \E r \in Requests : Read(r)
  BY <1>2 DEF Read, ReadLogin, Answer, RequestFails
<1>3. CASE Switching
  BY <1>3 DEF Switching, Begin, Switch, Replace, LoginOf, Return, Verified, NotVerified
<1>4. CASE Undoing
  BY <1>4 DEF Undoing, GiveUp, Undo, Replace, LoginOf, UndoReturns, Restored, Reconnect
<1>5. CASE Notified
  BY <1>5 DEF Notified, AccountUpdated, LoginCompleted, LoginSaved
<1>6. CASE \E p \in Plus : Login(p)
  BY <1>6 DEF Login
<1>7. CASE UNCHANGED vars
  BY <1>7 DEF vars
<1>8. QED BY <1>1, <1>2, <1>3, <1>4, <1>5, <1>6, <1>7 DEF Next

\* A record that a request may become.
LEMMA AskedTyped ==
  ASSUME NEW g \in Nat
  PROVE  /\ Asked(g) \in [generation : Nat \cup {None}, login : Connections \cup {None}]
         /\ Asked(g).generation = g /\ Asked(g).login = None
         /\ Free \in [generation : Nat \cup {None}, login : Connections \cup {None}]
         /\ Free.login = None
BY DEF Asked, Free

\* What a refresh does to the requests and the credits.
LEMMA RefreshKeeps ==
  ASSUME IInv, NEW c, NEW f, Refresh(c, f, generation)
  PROVE  /\ RequestsTyped'
         /\ \A r \in Requests : GoodRequest(request'[r], generation, since)
         /\ credits' # None => credits' \in since
<1>1. CASE c \in Apis /\ HideCredits /\ UNCHANGED <<due, request>>
  BY <1>1 DEF IInv, RequestsTyped, HideCredits, GoodRequest
<1>2. CASE UNCHANGED <<due, credits, failed, request>>
  BY <1>2 DEF IInv, RequestsTyped, ShownIsRecent, GoodRequest
<1>3. ASSUME NEW r \in Requests, request[r] = Free,
             request' = [request EXCEPT ![r] = Asked(generation)],
             UNCHANGED <<credits, failed>>
      PROVE  /\ RequestsTyped'
             /\ \A q \in Requests : GoodRequest(request'[q], generation, since)
             /\ credits' # None => credits' \in since
  <2>1. generation \in Nat BY DEF IInv
  <2>2. GoodRequest(Asked(generation), generation, since)
    BY <2>1, AskedTyped DEF GoodRequest
  <2>3. RequestsTyped'
    BY <1>3, <2>1, AskedTyped DEF IInv, RequestsTyped
  <2>4. ASSUME NEW q \in Requests PROVE GoodRequest(request'[q], generation, since)
    <3>1. CASE q = r BY <1>3, <2>2, <3>1 DEF IInv, RequestsTyped
    <3>2. CASE q # r BY <1>3, <3>2 DEF IInv, RequestsTyped
    <3>3. QED BY <3>1, <3>2
  <2>5. credits' # None => credits' \in since
    BY <1>3 DEF IInv, ShownIsRecent
  <2>6. QED BY <2>3, <2>4, <2>5
<1>4. QED BY <1>1, <1>2, <1>3 DEF Refresh

\* When the generation changes, no request under way carries the new one.
LEMMA ForgottenAreOld ==
  ASSUME IInv, NEW r \in Requests, NEW s
  PROVE  GoodRequest(request[r], generation + 1, s)
<1>1. generation \in Nat /\ GoodRequest(request[r], generation, since) BY DEF IInv
<1>2. CASE request[r] = Free BY <1>2 DEF GoodRequest
<1>3. CASE request[r] # Free
  <2>1. request[r].generation \in 0 .. generation BY <1>1, <1>3 DEF GoodRequest
  <2>2. request[r].generation \in 0 .. generation + 1
        /\ request[r].generation # generation + 1
    BY <1>1, <2>1
  <2>3. QED BY <2>2 DEF GoodRequest
<1>4. QED BY <1>2, <1>3

\* Forgetting the credits: nothing is shown, and only the login there is counts.
LEMMA ForgetKeeps ==
  ASSUME IInv, Forget, since' = {login}, login' = login, UNCHANGED request
  PROVE  /\ RequestsTyped' /\ generation' \in Nat /\ login' \in since' /\ ShownIsRecent'
         /\ \A r \in Requests : GoodRequest(request'[r], generation', since')
<1>1. generation' = generation + 1 /\ credits' = None BY DEF Forget
<1>2. \A r \in Requests : GoodRequest(request[r], generation + 1, since')
  BY ForgottenAreOld
<1>3. \A r \in Requests : GoodRequest(request'[r], generation', since')
  BY <1>1, <1>2
<1>4. generation \in Nat BY DEF IInv
<1>5. QED BY <1>1, <1>3, <1>4 DEF IInv, RequestsTyped, ShownIsRecent

\* Forgetting and asking at once: the new request carries the new generation.
LEMMA ForgetAndRefreshKeeps ==
  ASSUME IInv, NEW c, ForgetAndRefresh(c), since' = {login}, login' = login
  PROVE  /\ RequestsTyped' /\ generation' \in Nat /\ login' \in since' /\ ShownIsRecent'
         /\ \A r \in Requests : GoodRequest(request'[r], generation', since')
<1>1. generation' = generation + 1 /\ credits' = None BY DEF ForgetAndRefresh
<1>2. generation \in Nat /\ generation' \in Nat BY <1>1 DEF IInv
<1>3. \A r \in Requests : GoodRequest(request[r], generation', since')
  BY <1>1, ForgottenAreOld
<1>4. CASE UNCHANGED request
  BY <1>1, <1>2, <1>3, <1>4 DEF IInv, RequestsTyped, ShownIsRecent
<1>5. ASSUME NEW r \in Requests, request' = [request EXCEPT ![r] = Asked(generation')]
      PROVE  RequestsTyped' /\ \A q \in Requests : GoodRequest(request'[q], generation', since')
  <2>1. GoodRequest(Asked(generation'), generation', since')
    BY <1>2, AskedTyped DEF GoodRequest
  <2>2. RequestsTyped' BY <1>2, <1>5, AskedTyped DEF IInv, RequestsTyped
  <2>3. ASSUME NEW q \in Requests PROVE GoodRequest(request'[q], generation', since')
    <3>1. CASE q = r BY <1>5, <2>1, <3>1 DEF IInv, RequestsTyped
    <3>2. CASE q # r BY <1>3, <1>5, <3>2 DEF IInv, RequestsTyped
    <3>3. QED BY <3>1, <3>2
  <2>4. QED BY <2>2, <2>3
<1>6. QED
  BY <1>1, <1>2, <1>4, <1>5 DEF ForgetAndRefresh, ShownIsRecent

\* The requests stay good when auth.json gets another login.
LEMMA MoreLogins ==
  ASSUME IInv, NEW p \in Plus, login' = p, since' = since \cup {p},
         UNCHANGED <<generation, credits, request>>, ConnectionsTyped'
  PROVE  IInv'
<1>1. \A r \in Requests : GoodRequest(request'[r], generation', since')
  BY DEF IInv, GoodRequest
<1>2. QED BY <1>1 DEF IInv, RequestsTyped, ConnectionsTyped, ShownIsRecent

\* A request reads auth.json, is answered or fails.
LEMMA ReadKeeps ==
  ASSUME IInv, NEW r \in Requests, Read(r), ConnectionsTyped'
  PROVE  IInv'
<1> DEFINE Typed == [generation : Nat \cup {None}, login : Connections \cup {None}]
<1>1. /\ UNCHANGED <<login, generation, since>>
      /\ request[r] \in Typed /\ GoodRequest(request[r], generation, since)
  BY DEF IInv, RequestsTyped, Read, ReadLogin, Answer, RequestFails, files, switch, shows
<1>2. ASSUME NEW q \in Typed, GoodRequest(q, generation, since),
             request' = [request EXCEPT ![r] = q], credits' # None => credits' \in since
      PROVE  IInv'
  <2>1. RequestsTyped' BY <1>2 DEF IInv, RequestsTyped
  <2>2. ASSUME NEW x \in Requests PROVE GoodRequest(request'[x], generation', since')
    <3>1. CASE x = r BY <1>1, <1>2, <3>1 DEF IInv, RequestsTyped
    <3>2. CASE x # r BY <1>1, <1>2, <3>2 DEF IInv, RequestsTyped
    <3>3. QED BY <3>1, <3>2
  <2>3. QED BY <1>1, <1>2, <2>1, <2>2 DEF IInv, ConnectionsTyped, ShownIsRecent
<1>3. CASE ReadLogin(r)
  <2> DEFINE q == [request[r] EXCEPT !.login = login]
  <2>1. request' = [request EXCEPT ![r] = q] /\ UNCHANGED credits /\ request[r] # Free
    BY <1>3 DEF ReadLogin, shows
  <2>2. login \in Connections /\ login \in since BY DEF IInv, ConnectionsTyped, Connections
  <2>3. q \in Typed /\ q.generation = request[r].generation /\ q.login = login
    BY <1>1, <2>2
  <2>4. GoodRequest(q, generation, since)
    BY <1>1, <2>1, <2>2, <2>3 DEF GoodRequest
  <2>5. credits' # None => credits' \in since BY <2>1 DEF IInv, ShownIsRecent
  <2> HIDE DEF q
  <2>6. QED BY <1>2, <2>1, <2>3, <2>4, <2>5
<1>4. ASSUME Answer(r) \/ RequestFails(r) PROVE IInv'
  <2>1. request' = [request EXCEPT ![r] = Free] /\ request[r].login # None
    BY <1>4 DEF Answer, RequestFails
  <2>2. request[r] # Free BY <2>1 DEF Free
  <2>3. credits' = credits \/ (Current(r) /\ credits' = request[r].login)
    BY <1>4 DEF Answer, RequestFails
  <2>4. credits' # None => credits' \in since
    BY <1>1, <2>1, <2>2, <2>3 DEF IInv, ShownIsRecent, GoodRequest, Current
  <2>5. Free \in Typed /\ GoodRequest(Free, generation, since)
    BY AskedTyped DEF GoodRequest, Free
  <2>6. QED BY <1>2, <2>1, <2>4, <2>5
<1>5. QED BY <1>3, <1>4 DEF Read

-----------------------------------------------------------------------------

\* The panel is opened without credits and without requests.
THEOREM InitRecent == Init => IInv
BY DEF Init, IInv, RequestsTyped, ConnectionsTyped, ShownIsRecent, GoodRequest, Connections, Free

\* No refresh, answer, switch, roll-back or login breaks the invariant.
THEOREM StepRecent == IInv /\ [Next]_vars => IInv'
<1> SUFFICES ASSUME IInv, [Next]_vars PROVE IInv'
  OBVIOUS
<1> USE DEF files, switch, shows
<1>0. ConnectionsTyped' /\ ConnectionsTyped
  BY ConnectionsStay DEF IInv
<1>1. ASSUME NEW c, NEW f, Refresh(c, f, generation),
             UNCHANGED <<login, generation, since>>
      PROVE  IInv'
  BY <1>0, <1>1, RefreshKeeps DEF IInv, ShownIsRecent
<1>2. CASE UNCHANGED <<login, generation, since, credits, request>>
  BY <1>0, <1>2 DEF IInv, RequestsTyped, ShownIsRecent
<1>3. ASSUME NEW c \in Connections, Replace(c),
             UNCHANGED <<generation, credits, request>>
      PROVE  IInv'
  <2>1. LoginOf(c) \in Plus /\ login' = LoginOf(c) /\ since' = since \cup {LoginOf(c)}
    BY <1>0, <1>3 DEF ConnectionsTyped, Replace, LoginOf
  <2>2. QED BY <1>0, <1>3, <2>1, MoreLogins
<1>4. CASE Tick \/ RefreshClicked
  BY <1>1, <1>4 DEF Tick, RefreshClicked
<1>5. CASE Elapse
  BY <1>2, <1>5 DEF Elapse
<1>6. ASSUME NEW r \in Requests, Read(r) PROVE IInv'
  BY <1>0, <1>6, ReadKeeps
<1>7. CASE Switching
  <2>1. ASSUME NEW c \in Connections, Begin(c) PROVE IInv'
    <3>1. Forget /\ since' = {login} /\ login' = login /\ UNCHANGED request
      BY <2>1 DEF Begin
    <3>2. QED BY <1>0, <3>1, ForgetKeeps DEF IInv
  <2>2. CASE Switch BY <1>0, <1>3, <2>2 DEF Switch, ConnectionsTyped
  <2>3. CASE Return BY <1>2, <2>3 DEF Return
  <2>4. CASE Verified BY <1>1, <2>4 DEF Verified
  <2>5. CASE NotVerified BY <1>2, <2>5 DEF NotVerified
  <2>6. QED BY <1>7, <2>1, <2>2, <2>3, <2>4, <2>5 DEF Switching
<1>8. CASE Undoing
  <2>1. CASE GiveUp BY <1>2, <2>1 DEF GiveUp
  <2>2. CASE Undo BY <1>0, <1>3, <2>2 DEF Undo, ConnectionsTyped
  <2>3. CASE UndoReturns BY <1>0, <2>3, ForgetKeeps DEF UndoReturns, IInv
  <2>4. CASE Restored BY <1>1, <2>4 DEF Restored
  <2>5. CASE Reconnect BY <1>1, <2>5 DEF Reconnect
  <2>6. QED BY <1>8, <2>1, <2>2, <2>3, <2>4, <2>5 DEF Undoing
<1>9. CASE Notified
  <2>1. CASE AccountUpdated
    BY <1>0, <2>1, ForgetAndRefreshKeeps DEF AccountUpdated, IInv
  <2>2. CASE LoginCompleted
    BY <1>0, <2>2, ForgetKeeps DEF LoginCompleted, IInv
  <2>3. CASE LoginSaved
    BY <1>1, <1>2, <2>3 DEF LoginSaved
  <2>4. QED BY <1>9, <2>1, <2>2, <2>3 DEF Notified
<1>10. ASSUME NEW p \in Plus, Login(p) PROVE IInv'
  BY <1>0, <1>10, MoreLogins DEF Login
<1>11. CASE UNCHANGED vars
  BY <1>2, <1>11 DEF vars
<1>12. QED BY <1>4, <1>5, <1>6, <1>7, <1>8, <1>9, <1>10, <1>11 DEF Next

\* The credits that are shown were read after the panel last forgot them, so
\* no late answer of an earlier account or switch gets through.
THEOREM RecentCredits == Spec => []ShownIsRecent
<1>1. IInv => ShownIsRecent BY DEF IInv
<1>2. QED BY InitRecent, StepRecent, <1>1, PTL DEF Spec

=============================================================================
