---------------------------- MODULE ThreadHistory ----------------------------
(***************************************************************************)
(* The protection of the chats during a switch: listThreadHistory pages    *)
(* through all chats, first those not archived, then the archived ones     *)
(* (src/lib/thread-history.ts); backup_thread_history copies their files   *)
(* (src-tauri/src/lib.rs); after the switch the chats are listed again and *)
(* compared, and one that is missing stops the switch.                     *)
(*                                                                         *)
(* Meanwhile the desktop client goes on with its chats: it updates,        *)
(* archives, unarchives, begins and deletes them.  A chat's file grows     *)
(* with each update, so its content is the time of its last update.        *)
(***************************************************************************)
EXTENDS Naturals, FiniteSets

CONSTANTS
  Threads,   \* the chats
  Lost,      \* those without a file that can be read
  None,      \* no chat, no file, no cursor
  PageSize,  \* how many chats thread/list returns at most
  MaxTime,   \* bound: updates of all chats
  Switches,  \* bound: switches
  Faults     \* "write": a backup cannot be written; "cursor": the server
             \* returns a cursor a second time

Times == 1 .. MaxTime
Places == {"sessions", "archived"}
Elsewhere(p) == IF p = "sessions" THEN "archived" ELSE "sessions"

ASSUME HistoryAssumption ==
  /\ IsFiniteSet(Threads) /\ Lost \subseteq Threads
  /\ PageSize \in Nat \ {0}
  /\ MaxTime \in Nat
  /\ None \notin Nat /\ None \notin Places
  /\ Faults \subseteq {"write", "cursor"}

VARIABLES
  now,       \* the time
  updated,   \* when each chat was last updated; None: there is no such chat
  place,     \* where its file is, and so whether it is archived
  pc,        \* "idle", "list", "backup", "switch", "review", "compare", "undo"
  listing,   \* the call of listThreadHistory that runs
  entries,   \* what it has found: each chat's place, None if not found
  previous,  \* previousHistory, from before the switch
  todo,      \* entries that backup_thread_history has still to copy
  skipped,   \* those it has skipped
  initial,   \* <id>.initial.jsonl
  latest,    \* <id>.latest.jsonl
  round,     \* switches begun
  changed,   \* chats that changed since the listing began
  listed     \* updated, when the listing ended

chats == <<now, updated, place>>
files == <<initial, latest>>
backup == <<todo, skipped>>
vars == <<chats, pc, listing, entries, previous, backup, files, round, changed, listed>>
call == <<listing, entries, previous, backup, changed, listed>>

Nothing == [t \in Threads |-> None]
Exists(t) == updated[t] # None
NoListing == [asked |-> FALSE, place |-> "sessions", cursor |-> None, cursors |-> {}]

-----------------------------------------------------------------------------
(* The server and the desktop client.                                      *)

\* thread/list: the page after a cursor, the latest first.
After(p, cursor) ==
  {t \in Threads : /\ Exists(t) /\ place[t] = p
                   /\ cursor # None => updated[t] < cursor}

\* A full page ends at a chat, which is its cursor; the last page has none.
IsPage(page, next, p, cursor) ==
  IF next = None
    THEN page = After(p, cursor) /\ Cardinality(page) <= PageSize
    ELSE /\ page = {t \in After(p, cursor) : updated[t] >= next}
         /\ Cardinality(page) = PageSize /\ page # After(p, cursor)
         /\ \E t \in page : updated[t] = next

Changes(t) == changed' = IF pc \in {"idle", "undo"} THEN {} ELSE changed \cup {t}

\* A turn of a chat, or a new chat.
Update(t) ==
  /\ now < MaxTime
  /\ now' = now + 1
  /\ updated' = [updated EXCEPT ![t] = now + 1]
  /\ place' = [place EXCEPT ![t] = IF Exists(t) THEN @ ELSE "sessions"]
  /\ Changes(t)
  /\ UNCHANGED <<pc, listing, entries, previous, backup, files, round, listed>>

Archive(t) ==
  /\ Exists(t)
  /\ place' = [place EXCEPT ![t] = Elsewhere(@)]
  /\ Changes(t)
  /\ UNCHANGED <<now, updated, pc, listing, entries, previous, backup, files, round, listed>>

DeleteChat(t) ==
  /\ Exists(t)
  /\ updated' = [updated EXCEPT ![t] = None]
  /\ Changes(t)
  /\ UNCHANGED <<now, place, pc, listing, entries, previous, backup, files, round, listed>>

-----------------------------------------------------------------------------
(* listThreadHistory.                                                      *)

BeginListing ==
  /\ listing' = NoListing /\ entries' = Nothing
  /\ todo' = {} /\ skipped' = {} /\ listed' = Nothing /\ changed' = {}

\* The switch is over, well or not.
Return(end) ==
  /\ pc' = end
  /\ BeginListing
  /\ previous' = Nothing

\* Before the switch the listing's failure ends it, after it it is undone.
ListFails == Return(IF pc = "review" THEN "undo" ELSE "idle")

\* The switch begins.
Begin ==
  /\ pc \in {"idle", "undo"} /\ round < Switches
  /\ round' = round + 1
  /\ pc' = "list"
  /\ previous' = Nothing
  /\ BeginListing
  /\ UNCHANGED <<chats, files>>

\* The last page was read: before the switch the backup begins, after it the
\* chats are compared.
ListEnds ==
  /\ listing' = NoListing
  /\ listed' = updated
  /\ IF pc = "list"
       THEN /\ pc' = "backup"
            /\ previous' = entries'
            /\ todo' = {t \in Threads : entries'[t] # None}
            /\ skipped' = {}
       ELSE pc' = "compare" /\ UNCHANGED <<previous, todo, skipped>>

\* Mutant: the chats of the first page only.
AddFirst(page) ==
  [t \in Threads |-> IF t \in page /\ listing.cursors = {} THEN listing.place ELSE entries[t]]

\* Later entries take the place of earlier ones.
Add(page) == [t \in Threads |-> IF t \in page THEN listing.place ELSE entries[t]]

\* Mutant: cursors are not remembered.
Repeated(next) == FALSE

\* A cursor this listing has been given before.
Seen(next) == next \in listing.cursors

\* thread/list is sent.
AskPage ==
  /\ pc \in {"list", "review"} /\ ~ listing.asked
  /\ listing' = [listing EXCEPT !.asked = TRUE]
  /\ UNCHANGED <<chats, pc, entries, previous, backup, files, round, changed, listed>>

\* The cursors that may come with a page.
Given(next) == {next} \cup (IF "cursor" \in Faults THEN listing.cursors ELSE {})

\* A page comes in: there is another one, or the archived chats are listed
\* next, or the listing ends.
Continue(page, cursor) ==
  /\ entries' = Add(page)
  /\ \/ /\ cursor # None
        /\ listing' = [listing EXCEPT !.asked = FALSE, !.cursor = cursor,
                                      !.cursors = @ \cup {cursor}]
        /\ UNCHANGED <<pc, previous, backup, listed>>
     \/ /\ cursor = None /\ listing.place = "sessions"
        /\ listing' = [NoListing EXCEPT !.place = "archived"]
        /\ UNCHANGED <<pc, previous, backup, listed>>
     \/ cursor = None /\ listing.place = "archived" /\ ListEnds
  /\ UNCHANGED changed

\* A cursor that was given before ends the listing, and the switch with it.
ReadPage ==
  /\ listing.asked
  /\ \E next \in {None} \cup Times, page \in SUBSET Threads :
       /\ IsPage(page, next, listing.place, listing.cursor)
       /\ \E cursor \in Given(next) :
            \/ Seen(cursor) /\ ListFails
            \/ ~ Seen(cursor) /\ Continue(page, cursor)
  /\ UNCHANGED <<chats, files, round>>

\* The client was lost, or the request timed out.
PageFails ==
  /\ listing.asked
  /\ ListFails
  /\ UNCHANGED <<chats, files, round>>

-----------------------------------------------------------------------------
(* backup_thread_history.                                                  *)

\* The path of the entry leads to a file only while the chat is where it was
\* listed.
Readable(t) == Exists(t) /\ t \notin Lost /\ place[t] = previous[t]

\* Mutant: the first copy is renewed with the latest.
RenewInitial(t) == [initial EXCEPT ![t] = updated[t]]

KeepInitial(t) == IF initial[t] = None THEN [initial EXCEPT ![t] = updated[t]] ELSE initial

\* Mutant: a chat with a latest copy is taken for done.
CopyOnce(t) ==
  /\ initial' = KeepInitial(t)
  /\ latest' = IF latest[t] = None THEN [latest EXCEPT ![t] = updated[t]] ELSE latest

Copy(t) ==
  /\ initial' = KeepInitial(t)
  /\ latest' = [latest EXCEPT ![t] = updated[t]]

\* One entry: what cannot be read is skipped.
BackUpOne(t) ==
  /\ pc = "backup" /\ t \in todo
  /\ todo' = todo \ {t}
  /\ \/ Readable(t) /\ Copy(t) /\ UNCHANGED skipped
     \/ ~ Readable(t) /\ skipped' = skipped \cup {t} /\ UNCHANGED <<initial, latest>>
  /\ UNCHANGED <<chats, pc, listing, entries, previous, round, changed, listed>>

\* A write fails, perhaps after the first of a chat's two copies: the switch stops.
BackupFails ==
  /\ "write" \in Faults
  /\ pc = "backup"
  /\ \/ UNCHANGED initial
     \/ \E t \in todo : Readable(t) /\ initial' = KeepInitial(t)
  /\ Return("idle")
  /\ UNCHANGED <<chats, latest, round>>

\* last-switch.json and last-skipped.json are written too.
BackupEnds ==
  /\ pc = "backup" /\ todo = {}
  /\ pc' = "switch"
  /\ UNCHANGED <<chats, call, files, round>>

-----------------------------------------------------------------------------
(* After the switch.                                                       *)

Missing == {t \in Threads : previous[t] # None /\ entries[t] = None}

\* The target is installed and verified (SwitchFlow), or was not.
Review ==
  /\ pc = "switch"
  /\ pc' = "review"
  /\ BeginListing
  /\ UNCHANGED <<chats, previous, files, round>>

\* compareThreadHistory: a missing chat, or one with another provider (the
\* bridge relabels the chats it resumes), stops the switch, and the previous
\* connection is installed again (SwitchFlow).
Compare ==
  /\ pc = "compare"
  /\ \/ Missing = {} /\ Return("idle")
     \/ Return("undo")
  /\ UNCHANGED <<chats, files, round>>

Stop ==
  /\ pc = "switch"
  /\ Return("idle")
  /\ UNCHANGED <<chats, files, round>>

-----------------------------------------------------------------------------
(* The specification.                                                      *)

Init ==
  /\ now = Cardinality(Threads)
  /\ updated \in [Threads -> {None} \cup 1 .. now]
  /\ \A t, u \in Threads : t # u /\ Exists(t) => updated[t] # updated[u]
  /\ place \in [Threads -> Places]
  /\ \A t \in Threads : ~ Exists(t) => place[t] = "sessions"
  /\ pc = "idle" /\ listing = NoListing /\ entries = Nothing /\ previous = Nothing
  /\ todo = {} /\ skipped = {}
  /\ initial = Nothing /\ latest = Nothing
  /\ round = 0 /\ changed = {} /\ listed = Nothing

Backup == (\E t \in Threads : BackUpOne(t)) \/ BackupFails \/ BackupEnds
List == AskPage \/ ReadPage \/ PageFails

Next ==
  \/ Begin \/ List \/ Backup \/ Review \/ Compare \/ Stop
  \/ \E t \in Threads : Update(t) \/ Archive(t) \/ DeleteChat(t)

Spec == Init /\ [][Next]_vars

\* Each request is answered or times out, each command returns.
Fairness == WF_vars(List) /\ WF_vars(Backup) /\ WF_vars(Compare \/ Stop)
FairSpec == Spec /\ Fairness

-----------------------------------------------------------------------------
(* Properties.                                                             *)

\* A listing that has ended holds every chat that did not change while it ran,
\* with its archived flag, whatever the others did meanwhile; so a chat that is
\* reported missing was deleted or has changed.
UnchangedAreListed ==
  pc \in {"backup", "compare"} =>
    \A t \in Threads : Exists(t) /\ t \notin changed => entries[t] = place[t]

\* No switch goes on without a backup: every chat listed has a copy at least as
\* new as it was when the listing ended, or is in last-skipped.json because it
\* had no file or has moved since.
SwitchIsBackedUp ==
  pc = "switch" =>
    \A t \in Threads : previous[t] # None =>
      IF t \in skipped THEN t \in Lost \cup changed
      ELSE latest[t] # None /\ (listed[t] # None => latest[t] >= listed[t])

\* The first copy of a chat is never newer than the latest one, even when a
\* backup stopped between the two: it is what the chat was before any switch.
FirstCopyIsOldest ==
  \A t \in Threads : latest[t] # None => initial[t] # None /\ initial[t] <= latest[t]

\* A listing ends, even if the server returns cursors in a circle.
ListingEnds == pc \in {"list", "review"} ~> pc \notin {"list", "review"}

=============================================================================
