----------------------------- MODULE WebLibrary ----------------------------
(***************************************************************************)
(* The library page (src/web/src/pages/LibraryPage.tsx): the shelves'      *)
(* entries and the sources they are bound to, and the three jobs the page  *)
(* runs itself, one request at a time, against what it had on screen when  *)
(* the button was pressed - pulling every tracker record and rolling       *)
(* chapters back to it, sweeping the sources for new chapters, and a batch *)
(* over the selected titles (remove, file, catch up, find matches, move).  *)
(* A record not there is one at 0; an entry bound to itself has no         *)
(* binding; chapter 0 stands for those a source could not number.          *)
(***************************************************************************)
EXTENDS Naturals, FiniteSets

CONSTANTS Entries, Sources, \* library entries, and the sources' own rows
          LastChapter,      \* bound: chapters are numbered up to this
          Lists, Numbers,   \* what a source and a tracker may answer with
          MaxEdits, MaxJobs \* bounds: changes made on another device, jobs

ASSUME ShelvesAssumption == /\ Entries \cap Sources = {} /\ LastChapter \in Nat
                            /\ Lists \subseteq SUBSET (0..LastChapter)
                            /\ Numbers \subseteq 0..LastChapter
                            /\ MaxEdits \in Nat /\ MaxJobs \in Nat

VARIABLES bound, listed, read, record, \* server: binding, chapter list, read flags, tracker progress
          library, filed,              \* server: entries in the library, and in the chosen category
          completed,                   \* server: entries the tracker calls completed
          edits, jobs,                 \* counted for the bounds
          seen,                        \* the page's answers: what it computes from
          selected, matches,           \* the selection, and the rows to confirm
          batch, sync, sweep           \* the jobs that are running

libraryVars == <<bound, listed, read, record, library, filed, completed, edits, jobs, seen,
                 selected, matches, batch, sync, sweep>>
serverVars  == <<bound, listed, read, record, library, filed, completed, edits>>
quietVars   == <<serverVars, jobs>>

Mangas   == Entries \cup Sources
Chapters == 0..LastChapter
Unpulled == LastChapter + 1

Furthest(S) == IF S = {} THEN 0 ELSE CHOOSE n \in S : \A k \in S : k <= n

View   == [bound |-> bound, listed |-> listed, read |-> read, record |-> record,
           library |-> library]
NoView == [bound |-> [e \in Entries |-> e], listed |-> [s \in Sources |-> {}],
           read |-> [s \in Sources |-> {}], record |-> [m \in Mangas |-> 0], library |-> {}]

IdleBatch == [kind |-> "none", snap |-> NoView, left |-> {}, at |-> "next", chapters |-> {},
              found |-> {}]
IdleSync  == [on |-> FALSE, snap |-> NoView, left |-> {}, got |-> [m \in Mangas |-> Unpulled],
              clearing |-> {}]
IdleSweep == [on |-> FALSE, known |-> [s \in Sources |-> {}], left |-> {}, found |-> {}]

Begun == jobs < MaxJobs /\ jobs' = jobs + 1

Idle(job) == IF job = "batch" THEN batch.kind = "none"
             ELSE IF job = "sync" THEN ~sync.on ELSE ~sweep.on

ReadSourcesOf(v) == {v.bound[e] : e \in v.library} \cap Sources

\* How far an entry has been read: the best of its own record, its source's
\* record and the chapters marked read there.
ReadThrough(v, e) ==
    Furthest({v.record[e]} \cup
             IF v.bound[e] \in Sources THEN {v.record[v.bound[e]]} \cup v.read[v.bound[e]]
             ELSE {})

LibraryInit ==
    /\ bound \in [Entries -> Sources]
    /\ listed \in {[s \in Sources |-> list] : list \in Lists}
    /\ read = [s \in Sources |-> listed[s] \ {0}]
    /\ record \in {[m \in Mangas |-> 0], [m \in Mangas |-> 1]}
    /\ library = Entries /\ filed = {} /\ completed \in {{}, Entries} /\ edits = 0 /\ jobs = 0
    /\ seen = View
    /\ selected = {} /\ matches = {}
    /\ batch = IdleBatch /\ sync = IdleSync /\ sweep = IdleSweep

(***************************** other devices, and the answers *************)

\* A chapter is read or unread, or a title rebound, somewhere else.
Elsewhere ==
    /\ edits < MaxEdits /\ edits' = edits + 1
    /\ \/ \E s \in Sources : \E n \in listed[s] :
             read' = [read EXCEPT ![s] = IF n \in @ THEN @ \ {n}
                                         ELSE @ \cup {n}] /\ UNCHANGED bound
       \/ \E e \in library, s \in Sources : bound' = [bound EXCEPT ![e] = s] /\ UNCHANGED read
    /\ UNCHANGED <<listed, record, library, filed, completed, jobs, seen, selected, matches,
                   batch, sync, sweep>>

\* The library query answers, and the query of the sources' chapters.
LibraryAnswers ==
    /\ seen' = [seen EXCEPT !.bound = bound, !.library = library,
                            !.record = [m \in Mangas |-> IF m \in Entries THEN record[m]
                                                         ELSE @[m]]]
    /\ UNCHANGED <<quietVars, selected, matches, batch, sync, sweep>>

UnreadAnswers ==
    /\ seen' = [seen EXCEPT !.listed = listed, !.read = read,
                            !.record = [m \in Mangas |-> IF m \in Sources THEN record[m]
                                                         ELSE @[m]]]
    /\ UNCHANGED <<quietVars, selected, matches, batch, sync, sweep>>

(***************************** pulling the records ************************)

RefreshTracking ==
    /\ Idle("sync") /\ Begun
    /\ sync' = [on |-> TRUE, snap |-> seen, left |-> seen.library \cup ReadSourcesOf(seen),
                got |-> [m \in Mangas |-> Unpulled], clearing |-> ReadSourcesOf(seen)]
    /\ UNCHANGED <<serverVars, seen, selected, matches, batch, sweep>>

\* The tracker answers with its number, or the title counts as failed.
RecordPulled(m, n) ==
    /\ m \in sync.left
    /\ IF n = Unpulled THEN UNCHANGED record ELSE record' = [record EXCEPT ![m] = n]
    /\ sync' = [sync EXCEPT !.left = @ \ {m}, !.got[m] = n]
    /\ UNCHANGED <<bound, listed, read, library, filed, completed, edits, jobs, seen, selected,
                   matches, batch, sweep>>

Synced(s) == IF sync.got[s] = Unpulled THEN sync.snap.record[s] ELSE sync.got[s]

\* Mutant: everything read is above a record that says nothing.
StaleAnyway(s) == {n \in sync.snap.read[s] : n > Synced(s)}

\* What was read, when the refresh was asked for, above the tracker's number.
Stale(s) == IF Synced(s) = 0 THEN {} ELSE {n \in sync.snap.read[s] : n > Synced(s)}

RollBackToTracker(s) ==
    /\ sync.on /\ sync.left = {} /\ s \in sync.clearing
    /\ read' = [read EXCEPT ![s] = @ \ Stale(s)]
    /\ sync' = [sync EXCEPT !.clearing = @ \ {s}]
    /\ UNCHANGED <<bound, listed, record, library, filed, completed, edits, jobs, seen,
                   selected, matches, batch, sweep>>

SyncDone ==
    /\ sync.on /\ sync.left = {} /\ sync.clearing = {}
    /\ sync' = IdleSync
    /\ seen' = View
    /\ UNCHANGED <<quietVars, selected, matches, batch, sweep>>

(***************************** new chapters *******************************)

SweepIds == {seen.bound[e] : e \in seen.library \ completed} \cap Sources

CheckForNewChapters ==
    /\ Idle("sweep") /\ SweepIds # {} /\ Begun
    /\ sweep' = [on |-> TRUE, known |-> seen.listed, left |-> SweepIds, found |-> {}]
    /\ UNCHANGED <<serverVars, seen, selected, matches, batch, sync>>

\* Mutant: what the answer has above the last chapter known.
FreshByNumber(s) == {n \in listed'[s] : n > Furthest(sweep.known[s])}

\* What the answer has that the page did not, chapter by chapter.
Fresh(s) == listed'[s] \ sweep.known[s]

\* A source is asked for its list, drops and gains chapters, or fails.
SourceSwept(s, list) ==
    /\ s \in sweep.left
    /\ listed' = [listed EXCEPT ![s] = list]
    /\ read' = [read EXCEPT ![s] = @ \cap list]
    /\ sweep' = [sweep EXCEPT !.left = @ \ {s}, !.found = @ \cup ({s} \X Fresh(s))]
    /\ UNCHANGED <<bound, record, library, filed, completed, edits, jobs, seen, selected,
                   matches, batch, sync>>

SweepFailed(s) ==
    /\ s \in sweep.left
    /\ sweep' = [sweep EXCEPT !.left = @ \ {s}]
    /\ UNCHANGED <<quietVars, seen, selected, matches, batch, sync>>

SweepDone ==
    /\ sweep.on /\ sweep.left = {}
    /\ sweep' = IdleSweep
    /\ seen' = [seen EXCEPT !.listed = listed, !.read = read]
    /\ UNCHANGED <<quietVars, selected, matches, batch, sync>>

(***************************** the selection ******************************)

ToggleSelected(e) ==
    /\ e \in seen.library
    /\ selected' = IF e \in selected THEN selected \ {e} ELSE selected \cup {e}
    /\ matches' = {}
    /\ UNCHANGED <<quietVars, seen, batch, sync, sweep>>

LeaveSelection ==
    /\ Idle("batch") /\ selected # {}
    /\ selected' = {} /\ matches' = {}
    /\ UNCHANGED <<quietVars, seen, batch, sync, sweep>>

\* Every batch is over what is selected, and one at a time.
StartBatch(kind) ==
    /\ Idle("batch") /\ Begun
    /\ batch' = [IdleBatch EXCEPT !.kind = kind, !.snap = seen,
                    !.left = IF kind = "migrate" THEN {r \in matches : r.chosen}
                             ELSE {[entry |-> e] : e \in selected}]
    /\ batch'.left # {}
    /\ matches' = IF kind = "find" THEN {} ELSE matches
    /\ UNCHANGED <<serverVars, seen, selected, sync, sweep>>

BatchOver ==
    /\ batch' = IdleBatch /\ seen' = View
    /\ selected' = {} /\ matches' = {}

RemoveSelected ==
    /\ batch.kind = "remove"
    /\ library' = library \ {r.entry : r \in batch.left}
    /\ BatchOver
    /\ UNCHANGED <<bound, listed, read, record, filed, completed, edits, jobs, sync, sweep>>

FileSelected ==
    /\ batch.kind = "file"
    /\ filed' \in {filed \cup {r.entry : r \in batch.left},
                   filed \ {r.entry : r \in batch.left}}
    /\ BatchOver
    /\ UNCHANGED <<bound, listed, read, record, library, completed, edits, jobs, sync, sweep>>

\* One call is refused: the selection stays as it was.
BatchRefused ==
    /\ batch.kind \in {"remove", "file"}
    /\ batch' = IdleBatch
    /\ UNCHANGED <<quietVars, seen, selected, matches, sync, sweep>>

\* A title is caught up: its numbered unread chapters, as the page has them,
\* unless it has no source or the call fails.
CaughtUp(r, ok) ==
    /\ batch.kind = "catchup" /\ r \in batch.left
    /\ LET s == batch.snap.bound[r.entry]
       IN  IF ok /\ s \in Sources
           THEN LET unread == batch.snap.listed[s] \ (batch.snap.read[s] \cup {0})
                IN  read' = [read EXCEPT ![s] = @ \cup (unread \cap listed[s])]
           ELSE UNCHANGED read
    /\ batch' = [batch EXCEPT !.left = @ \ {r}]
    /\ UNCHANGED <<bound, listed, record, library, filed, completed, edits, jobs, seen,
                   selected, matches, sync, sweep>>

\* The chosen catalogue answers for one title: a copy, surely or hardly the
\* same, which may be the entry's own row, or nothing.
MatchFound(r, m, confident) ==
    /\ batch.kind = "find" /\ r \in batch.left
    /\ batch' = [batch EXCEPT !.left = @ \ {r},
                              !.found = @ \cup {[entry |-> r.entry, match |-> m,
                                                 chosen |-> confident]}]
    /\ UNCHANGED <<quietVars, seen, selected, matches, sync, sweep>>

NoMatchFound(r) ==
    /\ batch.kind = "find" /\ r \in batch.left
    /\ batch' = [batch EXCEPT !.left = @ \ {r}]
    /\ UNCHANGED <<quietVars, seen, selected, matches, sync, sweep>>

MatchesShown ==
    /\ batch.kind = "find" /\ batch.left = {}
    /\ matches' = batch.found
    /\ batch' = IdleBatch
    /\ UNCHANGED <<quietVars, seen, selected, sync, sweep>>

ToggleMigrateRow(r) ==
    /\ Idle("batch") /\ r \in matches
    /\ matches' = (matches \ {r}) \cup {[r EXCEPT !.chosen = ~@]}
    /\ UNCHANGED <<quietVars, seen, selected, batch, sync, sweep>>

(***************************** moving to another source *******************)

\* The binding is written, or dropped when the copy found is the entry; one
\* already there, or refused, is left.
BindingMoved(r, ok) ==
    /\ batch.kind = "migrate" /\ r \in batch.left /\ batch.at = "next"
    /\ IF ok /\ batch.snap.bound[r.entry] # r.match
       THEN bound' = [bound EXCEPT ![r.entry] = r.match]
            /\ batch' = [batch EXCEPT !.at = "list", !.found = {r}]
       ELSE batch' = [batch EXCEPT !.left = @ \ {r}] /\ UNCHANGED bound
    /\ UNCHANGED <<listed, read, record, library, filed, completed, edits, jobs, seen, selected,
                   matches, sync, sweep>>

\* The new source is asked for its chapters, and the unread ones are kept.
MovedListed(r, list) ==
    /\ batch.kind = "migrate" /\ batch.at = "list" /\ r \in batch.found
    /\ IF r.match \in Sources
       THEN listed' = [listed EXCEPT ![r.match] = list] /\ read' = [read EXCEPT ![r.match] = @ \cap list]
       ELSE UNCHANGED <<listed, read>>
    /\ batch' = [batch EXCEPT !.at = "mark",
                              !.chapters = IF r.match \in Sources THEN list \ read'[r.match]
                                           ELSE {}]
    /\ UNCHANGED <<bound, record, library, filed, completed, edits, jobs, seen, selected,
                   matches, sync, sweep>>

MovedUnlisted(r) ==
    /\ batch.kind = "migrate" /\ batch.at = "list" /\ r \in batch.found
    /\ batch' = [batch EXCEPT !.at = "next", !.left = @ \ {r}, !.found = {}]
    /\ UNCHANGED <<quietVars, seen, selected, matches, sync, sweep>>

\* Mutant: chapters without a number are below any read-through.
CarriedAll(r) == {n \in batch.chapters : n <= ReadThrough(batch.snap, r.entry)}

\* What the old source had been read through, on the new source.
Carried(r) == {n \in batch.chapters \ {0} : n <= ReadThrough(batch.snap, r.entry)}

MovedMarked(r, ok) ==
    /\ batch.kind = "migrate" /\ batch.at = "mark" /\ r \in batch.found
    /\ IF ok /\ r.match \in Sources
       THEN read' = [read EXCEPT ![r.match] = @ \cup (Carried(r) \cap listed[r.match])]
       ELSE UNCHANGED read
    /\ batch' = [batch EXCEPT !.at = "next", !.left = @ \ {r}, !.found = {}, !.chapters = {}]
    /\ UNCHANGED <<bound, listed, record, library, filed, completed, edits, jobs, seen,
                   selected, matches, sync, sweep>>

BatchDone ==
    /\ batch.kind \in {"catchup", "migrate"} /\ batch.left = {}
    /\ BatchOver
    /\ UNCHANGED <<quietVars, sync, sweep>>

LibraryNext ==
    \/ Elsewhere \/ LibraryAnswers \/ UnreadAnswers
    \/ RefreshTracking \/ SyncDone
    \/ \E m \in Mangas, n \in Numbers \cup {Unpulled} : RecordPulled(m, n)
    \/ \E s \in Sources : RollBackToTracker(s) \/ SweepFailed(s)
    \/ CheckForNewChapters \/ SweepDone
    \/ \E s \in Sources, list \in Lists : SourceSwept(s, list)
    \/ LeaveSelection \/ \E e \in Entries : ToggleSelected(e)
    \/ \E kind \in {"remove", "file", "catchup", "find", "migrate"} : StartBatch(kind)
    \/ RemoveSelected \/ FileSelected \/ BatchRefused \/ BatchDone \/ MatchesShown
    \/ \E r \in batch.left :
          \/ \E ok \in BOOLEAN : CaughtUp(r, ok) \/ BindingMoved(r, ok)
          \/ \E m \in Sources \cup {r.entry}, sure \in BOOLEAN : MatchFound(r, m, sure)
          \/ NoMatchFound(r)
    \/ \E r \in matches : ToggleMigrateRow(r)
    \/ \E r \in batch.found :
          \/ \E list \in Lists : MovedListed(r, list)
          \/ MovedUnlisted(r)
          \/ \E ok \in BOOLEAN : MovedMarked(r, ok)

LibrarySpec == LibraryInit /\ [][LibraryNext]_libraryVars
-----------------------------------------------------------------------------

\* The page's state holds what its declarations say.
LibraryPageTypeOK ==
    /\ bound \in [Entries -> Mangas] /\ \A e \in Entries : bound[e] \in Sources \cup {e}
    /\ \A s \in Sources : read[s] \subseteq listed[s] /\ listed[s] \subseteq Chapters
    /\ record \in [Mangas -> Chapters \cup {Unpulled}]
    /\ {library, filed, selected, completed} \subseteq SUBSET Entries
    /\ \A r \in matches : r.entry \in Entries /\ r.match \in Sources \cup {r.entry}
    /\ sweep.left \subseteq Sources /\ sync.left \subseteq Mangas

\* A refresh takes back only what was read before it was asked for and lies
\* above a number the tracker stands by, so what is read while it is out
\* stays (LibraryPage.tsx:1157-1162); a move marks on the new source only
\* numbered chapters within what the title's old source had been read
\* through, and all of those (:1579-1580, :1521-1524); and no chapter the
\* page already had is shown as new, however the list changed (:1271-1275).
LibraryKeepsPlace ==
    /\ \A s \in Sources : sync.on /\ sync'.clearing = sync.clearing \ {s} /\ s \in sync.clearing =>
          \A n \in read[s] \ read'[s] :
             n \in sync.snap.read[s] /\ Synced(s) \in 1..(n - 1)
    /\ batch.kind = "migrate" /\ batch.at = "mark" /\ batch' # batch /\ read' # read =>
          \A r \in batch.found, s \in Sources : \A n \in batch.chapters \cap listed[s] :
             IF s = r.match /\ 0 < n /\ n <= ReadThrough(batch.snap, r.entry)
             THEN n \in read'[s] ELSE n \in read[s] \/ n \notin read'[s]
    /\ \A f \in sweep'.found \ sweep.found : f[2] \in listed'[f[1]] \ sweep.known[f[1]]
    /\ \A s \in sweep.left \ sweep'.left : listed' # listed =>
          \A n \in listed'[s] \ sweep.known[s] : <<s, n>> \in sweep'.found
=============================================================================
