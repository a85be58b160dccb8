------------------------- MODULE ThreadHistoryProofs -------------------------
(***************************************************************************)
(* That a listing finds every chat left alone, that no switch goes on      *)
(* without its backup and that the first copy is the oldest, for any chats,*)
(* page size, number of switches and faults.                               *)
(*                                                                         *)
(* The heart is Found: while a listing runs, a chat that has not changed   *)
(* since it began is either among the entries, with its place, or still    *)
(* ahead of the cursor, or in the listing of the archived chats that is    *)
(* still to come.  Clock says that a chat's copies and what was listed of  *)
(* it are no newer than the chat.                                          *)
(***************************************************************************)
EXTENDS ThreadHistory, FiniteSetTheorems, TLAPS

Listings == [asked : BOOLEAN, place : Places, cursor : Nat \cup {None}, cursors : SUBSET Nat]
Stamps == [Threads -> Nat \cup {None}]
Found3 == [Threads -> Places \cup {None}]

Typed ==
  /\ now \in Nat
  /\ updated \in Stamps /\ place \in [Threads -> Places]
  /\ listing \in Listings
  /\ entries \in Found3 /\ previous \in Found3
  /\ initial \in Stamps /\ latest \in Stamps /\ listed \in Stamps
  /\ listing.asked => pc \in {"list", "review"}

ClockOf(t) ==
  /\ updated[t] # None => updated[t] <= now
  /\ listed[t] # None => listed[t] <= now /\ (Exists(t) => listed[t] <= updated[t])
  /\ initial[t] # None => initial[t] <= now /\ (Exists(t) => initial[t] <= updated[t])
Clock == \A t \in Threads : ClockOf(t)

\* The listing has still to come to the chat.
Ahead(t) == t \in After(listing.place, listing.cursor)

\* What the entries say of a chat that has not changed.
FoundOf(t) ==
  t \notin changed =>
    /\ pc \in {"list", "review"} =>
         /\ entries[t] # None => Exists(t) /\ entries[t] = place[t]
         /\ Exists(t) => \/ entries[t] = place[t]
                         \/ Ahead(t)
                         \/ listing.place = "sessions" /\ place[t] = "archived"
    /\ pc \in {"backup", "compare"} => entries[t] = (IF Exists(t) THEN place[t] ELSE None)
    /\ pc = "backup" => previous[t] = entries[t]
Found == \A t \in Threads : FoundOf(t)

\* What became of an entry that the backup is done with.
CopiedOf(t) ==
  pc \in {"backup", "switch"} /\ previous[t] # None /\ t \notin todo =>
    IF t \in skipped THEN t \in Lost \cup changed
    ELSE latest[t] # None /\ (listed[t] # None => latest[t] >= listed[t])
Copied ==
  /\ pc = "switch" => todo = {}
  /\ pc = "backup" => \A t \in todo : t \in Threads /\ previous[t] # None
  /\ pc \in {"backup", "switch"} => skipped \subseteq Lost \cup changed
  /\ \A t \in Threads : CopiedOf(t)

IInv == Typed /\ Clock /\ Found /\ Copied /\ FirstCopyIsOldest

-----------------------------------------------------------------------------
(* Lemmas.                                                                 *)

\* The values that calls begin with.
LEMMA Fresh ==
  /\ Nothing \in Found3 /\ Nothing \in Stamps
  /\ NoListing \in Listings /\ ~ NoListing.asked
  /\ NoListing.place = "sessions" /\ NoListing.cursor = None
  /\ \A t \in Threads : Nothing[t] = None
BY DEF Nothing, Found3, Stamps, NoListing, Listings, Places

\* No time is None, and no place.
LEMMA NoneIsNone == None \notin Nat /\ None \notin Places
BY HistoryAssumption

\* A listing that begins: every chat is still ahead.
LEMMA BeginKeeps ==
  ASSUME IInv, BeginListing, UNCHANGED <<chats, latest>>,
         \/ pc' \in {"list", "review"}
         \/ pc' \in {"idle", "undo"}
  PROVE  Found' /\ Copied'
<1>1. \A t \in Threads : entries'[t] = None /\ listing' = NoListing /\ todo' = {}
  BY Fresh DEF BeginListing
<1>2. ASSUME NEW t \in Threads PROVE FoundOf(t)'
  <2>1. updated' = updated /\ place' = place /\ place[t] \in Places
    BY DEF chats, IInv, Typed
  <2>2. Exists(t)' => Ahead(t)' \/ place'[t] = "archived"
    BY <1>1, <2>1, Fresh DEF Exists, Ahead, After, Places
  <2>3. QED BY <1>1, <2>2, Fresh DEF FoundOf, Exists
<1>3. pc' \notin {"backup", "switch"} OBVIOUS
<1>4. QED BY <1>2, <1>3 DEF Found, Copied, CopiedOf

\* The first copies are kept when one more is made.
LEMMA KeepInitialKeeps ==
  ASSUME IInv, NEW t \in Threads, Exists(t), initial' = KeepInitial(t), UNCHANGED chats
  PROVE  /\ initial' \in Stamps
         /\ initial'[t] # None /\ initial'[t] <= updated[t]
         /\ \A u \in Threads : u # t => initial'[u] = initial[u]
         /\ \A u \in Threads : initial[u] # None => initial'[u] = initial[u]
<1>1. updated[t] \in Nat /\ initial \in Stamps
  BY DEF IInv, Typed, Exists, Stamps
<1>2. CASE initial[t] = None
  <2>1. initial' = [initial EXCEPT ![t] = updated[t]] BY <1>2 DEF KeepInitial
  <2>2. QED BY <1>1, <1>2, <2>1, NoneIsNone DEF Stamps
<1>3. CASE initial[t] # None
  <2>1. initial' = initial BY <1>3 DEF KeepInitial
  <2>2. QED BY <1>1, <1>3, <2>1 DEF IInv, Clock, ClockOf
<1>4. QED BY <1>2, <1>3

ChangesTo(t, x, p) ==
  /\ Changes(t)
  /\ x \in Nat \cup {None} /\ p \in Places
  /\ updated' = [updated EXCEPT ![t] = x] /\ place' = [place EXCEPT ![t] = p]
  /\ now' \in Nat /\ now <= now'
  /\ x # None => x <= now' /\ (updated[t] = x \/ now < x)
  /\ UNCHANGED <<pc, listing, entries, previous, backup, files, round, listed>>

\* A chat changes: the others are as they were.
LEMMA ChatChanges ==
  ASSUME IInv, NEW t \in Threads, NEW x, NEW p, ChangesTo(t, x, p)
  PROVE  IInv'
<1> USE DEF backup, files, ChangesTo
<1>1. /\ updated' \in Stamps /\ place' \in [Threads -> Places]
      /\ updated'[t] = x
      /\ \A u \in Threads : u # t => updated'[u] = updated[u] /\ place'[u] = place[u]
  BY DEF IInv, Typed, Stamps
<1>2. Typed' BY <1>1 DEF IInv, Typed
<1>3. ASSUME NEW u \in Threads PROVE ClockOf(u)'
  <2>1. ClockOf(u) /\ now \in Nat /\ updated[u] \in Nat \cup {None}
        /\ listed[u] \in Nat \cup {None} /\ initial[u] \in Nat \cup {None}
    BY DEF IInv, Clock, Typed, Stamps
  <2>2. CASE u # t BY <1>1, <2>1, <2>2 DEF ClockOf, Exists
  <2>3. CASE u = t BY <1>1, <2>1, <2>3 DEF ClockOf, Exists
  <2>4. QED BY <2>2, <2>3
<1>4. pc \in {"idle", "undo"} \/ (t \in changed' /\ changed \subseteq changed')
  BY DEF Changes
<1>5. ASSUME NEW u \in Threads PROVE FoundOf(u)'
  <2>1. CASE pc \in {"idle", "undo"} BY <2>1 DEF FoundOf
  <2>2. CASE u \in changed' BY <2>2 DEF FoundOf
  <2>3. CASE u \notin changed' /\ pc \notin {"idle", "undo"}
    <3>1. u # t /\ u \notin changed BY <1>4, <2>3
    <3>2. Exists(u)' = Exists(u) /\ place'[u] = place[u] /\ updated'[u] = updated[u]
      BY <1>1, <3>1 DEF Exists
    <3>3. Ahead(u) => Ahead(u)'
      BY <3>2 DEF Ahead, After
    <3>4. FoundOf(u) BY DEF IInv, Found
    <3>5. QED BY <3>1, <3>2, <3>3, <3>4 DEF FoundOf
  <2>4. QED BY <2>1, <2>2, <2>3
<1>6. ASSUME NEW u \in Threads PROVE CopiedOf(u)'
  BY <1>4 DEF IInv, Copied, CopiedOf
<1>7. FirstCopyIsOldest' BY DEF IInv, FirstCopyIsOldest
<1>8. Copied'
  <2>1. pc \in {"backup", "switch"} => skipped \subseteq Lost \cup changed'
    BY <1>4 DEF IInv, Copied
  <2>2. QED BY <1>6, <2>1 DEF IInv, Copied
<1>9. QED BY <1>2, <1>3, <1>5, <1>7, <1>8 DEF IInv, Clock, Found

-----------------------------------------------------------------------------
(* The steps.                                                              *)

\* The desktop client's steps.
LEMMA ClientSteps ==
  ASSUME IInv, NEW t \in Threads, Update(t) \/ Archive(t) \/ DeleteChat(t)
  PROVE  IInv'
<1>1. now \in Nat /\ updated \in Stamps /\ place \in [Threads -> Places]
  BY DEF IInv, Typed
<1>2. updated[t] # None => updated[t] \in Nat /\ updated[t] <= now
  BY <1>1 DEF IInv, Clock, ClockOf, Stamps
<1>3. CASE Update(t)
  <2> DEFINE p == IF Exists(t) THEN place[t] ELSE "sessions"
  <2>1. p \in Places BY <1>1 DEF Places
  <2>2. place' = [place EXCEPT ![t] = p] BY <1>3 DEF Update
  <2>3. /\ Changes(t) /\ updated' = [updated EXCEPT ![t] = now + 1] /\ now' = now + 1
        /\ UNCHANGED <<pc, listing, entries, previous, backup, files, round, listed>>
    BY <1>3 DEF Update
  <2>4. now + 1 \in Nat \cup {None} /\ now <= now + 1 /\ now < now + 1 BY <1>1
  <2> HIDE DEF p
  <2>5. ChangesTo(t, now + 1, p) BY <1>1, <2>1, <2>2, <2>3, <2>4 DEF ChangesTo
  <2>6. QED BY <2>5, ChatChanges
<1>4. CASE Archive(t)
  <2>1. Elsewhere(place[t]) \in Places BY DEF Elsewhere, Places
  <2>2. /\ Changes(t) /\ place' = [place EXCEPT ![t] = Elsewhere(place[t])]
        /\ now' = now /\ updated' = updated
        /\ UNCHANGED <<pc, listing, entries, previous, backup, files, round, listed>>
    BY <1>4 DEF Archive
  <2>3. updated' = [updated EXCEPT ![t] = updated[t]] BY <1>1, <2>2 DEF Stamps
  <2>4. updated[t] \in Nat \cup {None} /\ now' \in Nat /\ now <= now'
    BY <1>1, <2>2 DEF Stamps
  <2>5. ChangesTo(t, updated[t], Elsewhere(place[t]))
    BY <1>1, <1>2, <2>1, <2>2, <2>3, <2>4 DEF ChangesTo
  <2>6. QED BY <2>5, ChatChanges
<1>5. CASE DeleteChat(t)
  <2>1. /\ Changes(t) /\ updated' = [updated EXCEPT ![t] = None]
        /\ now' = now /\ place' = place
        /\ UNCHANGED <<pc, listing, entries, previous, backup, files, round, listed>>
    BY <1>5 DEF DeleteChat
  <2>2. place' = [place EXCEPT ![t] = place[t]] /\ place[t] \in Places BY <1>1, <2>1
  <2>3. now' \in Nat /\ now <= now' BY <1>1, <2>1
  <2>4. ChangesTo(t, None, place[t]) BY <1>1, <2>1, <2>2, <2>3 DEF ChangesTo
  <2>5. QED BY <2>4, ChatChanges
<1>6. QED BY <1>3, <1>4, <1>5

\* A call of listThreadHistory begins, or the switch returns.
LEMMA Restarts ==
  ASSUME IInv, BeginListing, previous' \in Found3,
         pc' \in {"list", "review", "idle", "undo"}, UNCHANGED <<chats, files>>
  PROVE  IInv'
<1>1. Typed'
  BY Fresh DEF IInv, Typed, BeginListing, chats, files
<1>2. Clock'
  <2>1. \A t \in Threads : listed'[t] = None BY Fresh DEF BeginListing
  <2>2. QED BY <2>1 DEF IInv, Clock, ClockOf, Exists, chats, files
<1>3. Found' /\ Copied' BY BeginKeeps DEF files
<1>4. FirstCopyIsOldest' BY DEF IInv, FirstCopyIsOldest, files
<1>5. QED BY <1>1, <1>2, <1>3, <1>4 DEF IInv

\* A switch that returns leaves the copies as they are.
LEMMA ReturnKeeps ==
  ASSUME IInv, NEW end \in {"idle", "undo"}, Return(end), UNCHANGED <<chats, files>>
  PROVE  IInv'
BY Restarts, Fresh DEF Return

\* A page of the chats ahead, and the cursor that comes with it.
LEMMA PageKeeps ==
  ASSUME IInv, listing.asked, NEW next \in {None} \cup Times, NEW page \in SUBSET Threads,
         IsPage(page, next, listing.place, listing.cursor), Continue(page, next),
         UNCHANGED <<chats, files, round>>
  PROVE  IInv'
<1>1. /\ pc \in {"list", "review"} /\ listing \in Listings /\ listing.place \in Places
      /\ listing.cursor \in Nat \cup {None} /\ listing.cursors \in SUBSET Nat
      /\ entries \in Found3 /\ updated \in Stamps /\ place \in [Threads -> Places]
  BY DEF IInv, Typed, Listings
<1>2. entries' \in Found3 /\ \A t \in Threads :
        entries'[t] = IF t \in page THEN listing.place ELSE entries[t]
  BY <1>1 DEF Continue, Add, Found3
<1>3. next = None \/ next \in Nat BY DEF Times
<1>4. UNCHANGED <<updated, place, now, initial, latest, changed>>
  BY DEF chats, files, Continue
<1>5. ASSUME NEW t \in Threads
      PROVE  t \in page => t \in After(listing.place, listing.cursor)
  BY DEF IsPage
<1>6. ASSUME NEW t \in After(listing.place, listing.cursor), t \notin page
      PROVE  next # None /\ t \in After(listing.place, next)
  <2>1. next # None /\ page = {u \in After(listing.place, listing.cursor) : updated[u] >= next}
    BY <1>6 DEF IsPage
  <2>2. ~ (updated[t] >= next) /\ t \in Threads /\ Exists(t) /\ place[t] = listing.place
    BY <1>6, <2>1 DEF After
  <2>3. updated[t] \in Nat /\ next \in Nat BY <1>1, <1>3, <2>1, <2>2 DEF Stamps, Exists
  <2>4. updated[t] < next BY <2>2, <2>3
  <2>5. QED BY <2>1, <2>2, <2>4 DEF After
<1>7. ASSUME NEW t \in Threads, t \notin changed
      PROVE  /\ entries'[t] # None => Exists(t) /\ entries'[t] = place[t]
             /\ Exists(t) => \/ entries'[t] = place[t]
                             \/ next # None /\ t \in After(listing.place, next)
                             \/ listing.place = "sessions" /\ place[t] = "archived"
  <2>1. FoundOf(t) BY DEF IInv, Found
  <2>2. t \in page => Exists(t) /\ place[t] = listing.place BY <1>5 DEF After
  <2>3. entries'[t] = IF t \in page THEN listing.place ELSE entries[t] BY <1>2
  <2>4. CASE t \in page BY <2>2, <2>3, <2>4
  <2>5. CASE t \notin page
    <3>1. entries'[t] = entries[t] BY <2>3, <2>5
    <3>2. Ahead(t) => next # None /\ t \in After(listing.place, next)
      BY <1>6, <2>5 DEF Ahead
    <3>3. QED BY <1>1, <1>7, <2>1, <3>1, <3>2 DEF FoundOf
  <2>6. QED BY <2>4, <2>5
<1>8. CASE next # None
  <2>1. /\ listing' = [listing EXCEPT !.asked = FALSE, !.cursor = next,
                                      !.cursors = @ \cup {next}]
        /\ UNCHANGED <<pc, previous, backup, listed>>
    BY <1>8 DEF Continue
  <2>2. /\ listing' \in Listings /\ ~ listing'.asked
        /\ listing'.place = listing.place /\ listing'.cursor = next
    BY <1>1, <1>3, <1>8, <2>1 DEF Listings
  <2>3. ASSUME NEW t \in Threads PROVE FoundOf(t)'
    <3>1. t \in After(listing.place, next) => Ahead(t)'
      BY <1>4, <2>2 DEF Ahead, After, Exists
    <3>2. QED BY <1>1, <1>4, <1>7, <1>8, <2>1, <2>2, <3>1 DEF FoundOf, Exists
  <2>4. Typed' BY <1>2, <1>4, <2>1, <2>2 DEF IInv, Typed
  <2>5. Clock' BY <1>4, <2>1 DEF IInv, Clock, ClockOf, Exists
  <2>6. Copied' BY <1>1, <2>1 DEF Copied, CopiedOf
  <2>7. FirstCopyIsOldest' BY <1>4 DEF IInv, FirstCopyIsOldest
  <2>8. QED BY <2>3, <2>4, <2>5, <2>6, <2>7 DEF IInv, Found
<1>9. CASE next = None /\ listing.place = "sessions"
  <2>1. listing' = [NoListing EXCEPT !.place = "archived"] /\ UNCHANGED <<pc, previous, backup, listed>>
    BY <1>9 DEF Continue, Places
  <2>2. /\ listing' \in Listings /\ ~ listing'.asked
        /\ listing'.place = "archived" /\ listing'.cursor = None
    BY <2>1 DEF Listings, NoListing, Places
  <2>3. ASSUME NEW t \in Threads PROVE FoundOf(t)'
    <3>1. Exists(t) /\ place[t] = "archived" => Ahead(t)'
      BY <1>4, <2>2 DEF Ahead, After, Exists
    <3>2. QED BY <1>1, <1>4, <1>7, <1>9, <2>1, <2>2, <3>1 DEF FoundOf, Exists
  <2>4. Typed' BY <1>2, <1>4, <2>1, <2>2 DEF IInv, Typed
  <2>5. Clock' BY <1>4, <2>1 DEF IInv, Clock, ClockOf, Exists
  <2>6. Copied' BY <1>1, <2>1 DEF Copied, CopiedOf
  <2>7. FirstCopyIsOldest' BY <1>4 DEF IInv, FirstCopyIsOldest
  <2>8. QED BY <2>3, <2>4, <2>5, <2>6, <2>7 DEF IInv, Found
<1>10. CASE next = None /\ listing.place = "archived"
  <2>1. ListEnds BY <1>10 DEF Continue
  <2>2. /\ listing' = NoListing /\ listed' = updated
        /\ \/ /\ pc' = "backup" /\ previous' = entries' /\ skipped' = {}
              /\ todo' = {t \in Threads : entries'[t] # None}
           \/ pc' = "compare" /\ previous' = previous
    BY <2>1 DEF ListEnds
  <2>3. ASSUME NEW t \in Threads, t \notin changed
        PROVE  entries'[t] = IF Exists(t) THEN place[t] ELSE None
    BY <1>7, <1>10, <2>3
  <2>4. Found' BY <1>4, <2>2, <2>3 DEF Found, FoundOf, Exists
  <2>5. Typed' BY <1>2, <1>4, <2>2, Fresh DEF IInv, Typed
  <2>6. ASSUME NEW t \in Threads PROVE ClockOf(t)'
    <3>1. ClockOf(t) /\ updated[t] \in Nat \cup {None} BY <1>1 DEF IInv, Clock, Stamps
    <3>2. QED BY <1>4, <2>2, <3>1 DEF ClockOf, Exists
  <2>7. Copied' BY <2>2 DEF Copied, CopiedOf
  <2>8. FirstCopyIsOldest' BY <1>4 DEF IInv, FirstCopyIsOldest
  <2>9. QED BY <2>4, <2>5, <2>6, <2>7, <2>8 DEF IInv, Clock
<1>11. QED BY <1>1, <1>8, <1>9, <1>10 DEF Places

\* Asking for a page, reading one, and failing to (listThreadHistory).
LEMMA ListSteps ==
  ASSUME IInv, List
  PROVE  IInv'
<1>1. CASE AskPage
  <2>1. /\ listing' = [listing EXCEPT !.asked = TRUE] /\ pc \in {"list", "review"}
        /\ UNCHANGED <<chats, pc, entries, previous, backup, files, round, changed, listed>>
    BY <1>1 DEF AskPage
  <2>2. /\ listing' \in Listings /\ listing'.place = listing.place
        /\ listing'.cursor = listing.cursor
    BY <2>1 DEF IInv, Typed, Listings
  <2>3. Typed' BY <2>1, <2>2 DEF IInv, Typed, chats, files
  <2>4. Clock' /\ Copied' /\ FirstCopyIsOldest'
    BY <2>1 DEF IInv, Clock, ClockOf, Exists, Copied, CopiedOf, FirstCopyIsOldest,
                chats, files, backup
  <2>5. Found'
    BY <2>1, <2>2 DEF IInv, Found, FoundOf, Ahead, After, Exists, chats
  <2>6. QED BY <2>3, <2>4, <2>5 DEF IInv
<1>2. ASSUME ListFails, UNCHANGED <<chats, files>> PROVE IInv'
  BY <1>2, ReturnKeeps DEF ListFails
<1>3. CASE PageFails BY <1>2, <1>3 DEF PageFails
<1>4. CASE ReadPage
  <2>1. PICK next \in {None} \cup Times, page \in SUBSET Threads :
          /\ IsPage(page, next, listing.place, listing.cursor)
          /\ \E cursor \in Given(next) : \/ Seen(cursor) /\ ListFails
                                         \/ ~ Seen(cursor) /\ Continue(page, cursor)
    BY <1>4 DEF ReadPage
  <2>2. listing.asked /\ UNCHANGED <<chats, files, round>> BY <1>4 DEF ReadPage
  <2>3. CASE ListFails BY <1>2, <2>2, <2>3
  <2>4. ASSUME NEW cursor \in Given(next), ~ Seen(cursor), Continue(page, cursor)
        PROVE  IInv'
    <3>1. cursor = next BY <2>4 DEF Given, Seen
    <3>2. QED BY <2>1, <2>2, <2>4, <3>1, PageKeeps
  <2>5. QED BY <2>1, <2>3, <2>4
<1>5. QED BY <1>1, <1>3, <1>4 DEF List

\* One entry is copied or skipped.
LEMMA CopyKeeps ==
  ASSUME IInv, NEW t \in Threads, BackUpOne(t)
  PROVE  IInv'
<1>1. /\ pc = "backup" /\ t \in todo /\ todo' = todo \ {t}
      /\ UNCHANGED <<chats, pc, listing, entries, previous, round, changed, listed>>
  BY DEF BackUpOne
<1>2. Found' BY <1>1 DEF IInv, Found, FoundOf, Ahead, After, Exists, chats
<1>3. pc' # "switch" BY <1>1
<1>4. FoundOf(t) /\ ClockOf(t) BY DEF IInv, Found, Clock
<1>5. CASE Readable(t) /\ Copy(t) /\ UNCHANGED skipped
  <2>1. Exists(t) /\ initial' = KeepInitial(t) /\ latest' = [latest EXCEPT ![t] = updated[t]]
    BY <1>5 DEF Readable, Copy
  <2>2. /\ initial' \in Stamps /\ initial'[t] # None /\ initial'[t] <= updated[t]
        /\ \A u \in Threads : u # t => initial'[u] = initial[u]
    BY <1>1, <2>1, KeepInitialKeeps
  <2>3. updated[t] \in Nat /\ latest \in Stamps /\ now \in Nat
    BY <2>1 DEF IInv, Typed, Exists, Stamps
  <2>4. /\ latest' \in Stamps /\ latest'[t] = updated[t]
        /\ \A u \in Threads : u # t => latest'[u] = latest[u]
    BY <2>1, <2>3 DEF Stamps
  <2>5. Typed' BY <1>1, <2>2, <2>4 DEF IInv, Typed, chats
  <2>6. ASSUME NEW u \in Threads PROVE ClockOf(u)'
    <3>1. CASE u # t BY <1>1, <2>2, <3>1 DEF IInv, Clock, ClockOf, Exists, chats
    <3>2. CASE u = t
      <4>1. initial'[t] \in Nat BY <2>2 DEF Stamps
      <4>2. updated[t] <= now BY <1>4, <2>1 DEF ClockOf, Exists
      <4>3. initial'[t] <= now BY <2>2, <2>3, <4>1, <4>2
      <4>4. QED BY <1>1, <1>4, <2>2, <3>2, <4>3 DEF ClockOf, Exists, chats
    <3>3. QED BY <3>1, <3>2
  <2>7. ASSUME NEW u \in Threads PROVE CopiedOf(u)'
    <3>1. CASE u # t BY <1>1, <1>5, <2>4, <3>1 DEF IInv, Copied, CopiedOf
    <3>2. CASE u = t
      <4>1. listed[t] # None => latest'[t] >= listed[t]
        BY <1>4, <2>1, <2>3, <2>4 DEF ClockOf, IInv, Typed, Stamps
      <4>2. latest'[t] # None BY <2>3, <2>4, NoneIsNone
      <4>3. t \in skipped => t \in Lost \cup changed
        BY <1>1 DEF IInv, Copied
      <4>4. QED BY <1>1, <1>5, <3>2, <4>1, <4>2, <4>3 DEF CopiedOf
    <3>3. QED BY <3>1, <3>2
  <2>8. FirstCopyIsOldest'
    BY <2>2, <2>4 DEF IInv, FirstCopyIsOldest
  <2>9. skipped' \subseteq Lost \cup changed' /\ \A u \in todo' : u \in Threads /\ previous'[u] # None
    BY <1>1, <1>5 DEF IInv, Copied
  <2>10. QED BY <1>2, <1>3, <2>5, <2>6, <2>7, <2>8, <2>9 DEF IInv, Clock, Copied
<1>6. CASE ~ Readable(t) /\ skipped' = skipped \cup {t} /\ UNCHANGED <<initial, latest>>
  <2>1. Typed' /\ Clock' /\ FirstCopyIsOldest'
    BY <1>1, <1>6 DEF IInv, Typed, Clock, ClockOf, FirstCopyIsOldest, Exists, chats
  <2>2. t \in Lost \cup changed
    <3>1. previous[t] # None BY <1>1 DEF IInv, Copied
    <3>2. QED BY <1>1, <1>4, <1>6, <3>1 DEF Readable, FoundOf
  <2>3. ASSUME NEW u \in Threads PROVE CopiedOf(u)'
    <3>1. CASE u # t BY <1>1, <1>6, <3>1 DEF IInv, Copied, CopiedOf
    <3>2. CASE u = t BY <1>1, <1>6, <2>2, <3>2 DEF CopiedOf
    <3>3. QED BY <3>1, <3>2
  <2>4. skipped' \subseteq Lost \cup changed' /\ \A u \in todo' : u \in Threads /\ previous'[u] # None
    BY <1>1, <1>6, <2>2 DEF IInv, Copied
  <2>5. QED BY <1>2, <1>3, <2>1, <2>3, <2>4 DEF IInv, Copied
<1>7. QED BY <1>5, <1>6 DEF BackUpOne

\* Copying, failing to, and the end of the backup (backup_thread_history).
LEMMA BackupSteps ==
  ASSUME IInv, Backup
  PROVE  IInv'
<1>1. ASSUME NEW t \in Threads, BackUpOne(t) PROVE IInv'
  BY <1>1, CopyKeeps
<1>2. CASE BackupFails
  <2>1. CASE UNCHANGED initial
    BY <1>2, <2>1, ReturnKeeps DEF BackupFails, files
  <2>2. ASSUME NEW t \in todo, Readable(t), initial' = KeepInitial(t)
        PROVE  IInv'
    <3>1. UNCHANGED <<chats, latest, round>> /\ Return("idle") BY <1>2 DEF BackupFails
    <3>2. t \in Threads /\ Exists(t)
      BY <1>2, <2>2 DEF Readable, BackupFails, IInv, Copied
    <3>3. /\ initial' \in Stamps /\ initial'[t] # None /\ initial'[t] <= updated[t]
          /\ \A u \in Threads : u # t => initial'[u] = initial[u]
          /\ \A u \in Threads : initial[u] # None => initial'[u] = initial[u]
      BY <2>2, <3>1, <3>2, KeepInitialKeeps
    <3>4. Typed' BY <3>1, <3>3, Fresh DEF IInv, Typed, Return, BeginListing, chats
    <3>5. Found' /\ Copied' BY <3>1, BeginKeeps DEF Return
    <3>6. ASSUME NEW u \in Threads PROVE ClockOf(u)'
      <4>1. listed'[u] = None BY <3>1, Fresh DEF Return, BeginListing
      <4>2. CASE u # t BY <3>1, <3>3, <4>1, <4>2 DEF IInv, Clock, ClockOf, Exists, chats
      <4>3. CASE u = t
        <5>1. updated[t] \in Nat /\ now \in Nat /\ initial'[t] \in Nat /\ updated[t] <= now
          BY <3>2, <3>3 DEF IInv, Typed, Clock, ClockOf, Exists, Stamps
        <5>2. initial'[t] <= now BY <3>3, <5>1
        <5>3. QED BY <3>1, <3>3, <4>1, <4>3, <5>1, <5>2 DEF ClockOf, Exists, chats
      <4>4. QED BY <4>2, <4>3
    <3>7. FirstCopyIsOldest' BY <3>1, <3>3 DEF IInv, FirstCopyIsOldest
    <3>8. QED BY <3>4, <3>5, <3>6, <3>7 DEF IInv, Clock
  <2>3. QED BY <1>2, <2>1, <2>2 DEF BackupFails
<1>3. CASE BackupEnds
  <2>1. pc = "backup" /\ todo = {} /\ pc' = "switch" /\ UNCHANGED <<chats, call, files, round>>
    BY <1>3 DEF BackupEnds
  <2>2. Typed' /\ Clock' /\ FirstCopyIsOldest'
    BY <2>1 DEF IInv, Typed, Clock, ClockOf, FirstCopyIsOldest, Exists, chats, call, files
  <2>3. Found' BY <2>1 DEF Found, FoundOf
  <2>4. Copied' BY <2>1 DEF IInv, Copied, CopiedOf, call, backup, files
  <2>5. QED BY <2>2, <2>3, <2>4 DEF IInv
<1>4. QED BY <1>1, <1>2, <1>3 DEF Backup

-----------------------------------------------------------------------------

\* Before anything is listed.
THEOREM InitProtected == Init => IInv
<1> SUFFICES ASSUME Init PROVE IInv
  OBVIOUS
<1>1. now \in Nat /\ updated \in [Threads -> {None} \cup 1 .. now]
  BY HistoryAssumption, FS_CardinalityType DEF Init
<1>2. Typed
  BY <1>1, Fresh DEF Init, Typed, Stamps
<1>3. \A t \in Threads : listed[t] = None /\ initial[t] = None /\ latest[t] = None
  BY Fresh DEF Init
<1>4. Clock /\ FirstCopyIsOldest
  BY <1>1, <1>3 DEF Clock, ClockOf, FirstCopyIsOldest
<1>5. Found /\ Copied
  BY DEF Init, Found, FoundOf, Copied, CopiedOf
<1>6. QED BY <1>2, <1>4, <1>5 DEF IInv

\* No step breaks what the listing and the backup have achieved.
THEOREM StepProtected == IInv /\ [Next]_vars => IInv'
<1> SUFFICES ASSUME IInv, [Next]_vars PROVE IInv'
  OBVIOUS
<1>1. CASE Begin
  BY <1>1, Restarts, Fresh DEF Begin
<1>2. CASE List
  BY <1>2, ListSteps
<1>3. CASE Backup
  BY <1>3, BackupSteps
<1>4. CASE Review
  BY <1>4, Restarts DEF Review, IInv, Typed
<1>5. CASE Compare
  BY <1>5, ReturnKeeps DEF Compare
<1>6. CASE Stop
  BY <1>6, ReturnKeeps DEF Stop
<1>7. ASSUME NEW t \in Threads, Update(t) \/ Archive(t) \/ DeleteChat(t) PROVE IInv'
  BY <1>7, ClientSteps
<1>8. CASE UNCHANGED vars
  BY <1>8 DEF vars, chats, files, backup, IInv, Typed, Clock, ClockOf, Found, FoundOf, Ahead,
              After, Copied, CopiedOf, FirstCopyIsOldest, Exists
<1>9. QED BY <1>1, <1>2, <1>3, <1>4, <1>5, <1>6, <1>7, <1>8 DEF Next

\* A listing that ended holds every chat that did not change meanwhile.
THEOREM ListedUnchanged == Spec => []UnchangedAreListed
<1>1. IInv => UnchangedAreListed BY DEF IInv, Found, FoundOf, UnchangedAreListed
<1>2. QED BY InitProtected, StepProtected, <1>1, PTL DEF Spec

\* No switch goes on without a backup of every chat that could be read.
THEOREM BackedUp == Spec => []SwitchIsBackedUp
<1>1. IInv => SwitchIsBackedUp BY DEF IInv, Copied, CopiedOf, SwitchIsBackedUp
<1>2. QED BY InitProtected, StepProtected, <1>1, PTL DEF Spec

\* The first copy of a chat stays older than the latest.
THEOREM OldestFirst == Spec => []FirstCopyIsOldest
<1>1. IInv => FirstCopyIsOldest BY DEF IInv
<1>2. QED BY InitProtected, StepProtected, <1>1, PTL DEF Spec

=============================================================================
