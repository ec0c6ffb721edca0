---------------------------- MODULE ChapterList -----------------------------
(***************************************************************************)
(* The chapters of one title of one account (graphql/resolvers/chapter.ts, *)
(* reader/progress.ts) and the backup that carries them (backup/create.ts, *)
(* backup/apply.ts).  A chapter is known by its url; where it stands in    *)
(* the list, its order, is what the reader's routes carry.                 *)
(*                                                                         *)
(* Names, dates and numbers of chapters come from the source and decide    *)
(* nothing; a bookmark is set, refreshed and restored as the read flag is. *)
(***************************************************************************)
EXTENDS Naturals, FiniteSets, Sequences

CONSTANTS
    Urls,        \* chapters the source has ever listed
    Listings,    \* the lists it may answer with, duplicates already removed
    LastPage,    \* pages are 0..LastPage
    MaxClock,    \* bound: times the reader reports
    Absent

Row == [id : Nat \ {0}, order : Nat \ {0}, read : BOOLEAN,
        last : 0..LastPage, readAt : 0..MaxClock]

ASSUME ChapterListAssumption ==
    /\ IsFiniteSet(Urls)
    /\ \A l \in Listings :
          /\ l \in Seq(Urls)
          /\ \A i, j \in 1..Len(l) : l[i] = l[j] => i = j
    /\ LastPage \in Nat /\ MaxClock \in Nat
    /\ Absent \notin Urls /\ Absent \notin Row

VARIABLES
    chapter,     \* table chapter: a row for each url, or Absent
    backup,      \* the chapters in the newest backup; nobody's at first
    clock,       \* when the reader last reported anything
    latest       \* the chapter the reader last reported in, or Absent

listVars == <<chapter, backup, clock, latest>>

Table == [Urls -> Row \cup {Absent}]

Unread(id, order) ==
    [id |-> id, order |-> order, read |-> FALSE, last |-> 0, readAt |-> 0]

NoChapters == [u \in Urls |-> Absent]

Present(rows) == {u \in Urls : rows[u] # Absent}

Listed(l) == {l[i] : i \in 1..Len(l)}
Place(l, u) == CHOOSE i \in 1..Len(l) : l[i] = u

ListInit ==
    /\ chapter = NoChapters
    /\ backup = NoChapters
    /\ clock = 0
    /\ latest = Absent

\* Mutant: the vanished placed by their old order alone.
BeforeByOrder(rows, u, v) == rows[u].order <= rows[v].order

\* ORDER BY source_order, id
Before(rows, u, v) ==
    \/ rows[u].order < rows[v].order
    \/ rows[u].order = rows[v].order /\ rows[u].id <= rows[v].id

\* AUTOINCREMENT: rows inserted in turn take the ids after those there are.
NextId(rows, inserted) == Cardinality(Present(rows)) + Cardinality(inserted)

\* The survivors take 1..n, the vanished follow in the order they were in.
Survivor(rows, l, u) ==
    LET inserted == {v \in Listed(l) \ Present(rows) : Place(l, v) <= Place(l, u)}
    IN  IF rows[u] = Absent THEN Unread(NextId(rows, inserted), Place(l, u))
        ELSE [rows[u] EXCEPT !.order = Place(l, u)]

Vanished(rows, l, u) ==
    LET ahead == {v \in Present(rows) \ Listed(l) : Before(rows, v, u)}
    IN  [rows[u] EXCEPT !.order = Len(l) + Cardinality(ahead)]

Reconciled(rows, l) ==
    [u \in Urls |->
        IF u \in Listed(l) THEN Survivor(rows, l, u)
        ELSE IF rows[u] # Absent THEN Vanished(rows, l, u)
        ELSE Absent]

\* fetchChaptersFor.  Nothing read before the wait for the source is used
\* after it, so a refresh is one step; overlapping refreshes end in any order
\* and with lists of any age, as the choice of l allows.
FetchChapters(l) ==
    /\ chapter' = Reconciled(chapter, l)
    /\ UNCHANGED <<backup, clock, latest>>

\* Mutant: a bulk edit that stamps the time of reading.
PatchAndStamp(row, patch) ==
    CASE patch.column = "read" -> [row EXCEPT !.read = patch.value, !.readAt = clock + 1]
      [] patch.column = "last" -> [row EXCEPT !.last = patch.value]

\* updateChapters: the columns the patch names, and never readAt.
Patch(row, patch) ==
    CASE patch.column = "read" -> [row EXCEPT !.read = patch.value]
      [] patch.column = "last" -> [row EXCEPT !.last = patch.value]

Patches == [column : {"read"}, value : BOOLEAN]
               \cup [column : {"last"}, value : 0..LastPage]

UpdateChapters(us, patch) ==
    /\ us \subseteq Present(chapter)
    /\ chapter' = [u \in Urls |->
                     IF u \in us THEN Patch(chapter[u], patch) ELSE chapter[u]]
    /\ UNCHANGED <<backup, clock, latest>>

\* recordProgress, at a place in the list: the row SQLite finds there.
Progress(row, page, finished, now) ==
    [row EXCEPT !.last = page, !.readAt = now, !.read = @ \/ finished]

RecordProgress(u, page, finished) ==
    /\ clock < MaxClock
    /\ u \in Present(chapter)
    /\ clock' = clock + 1
    /\ chapter' = [chapter EXCEPT ![u] = Progress(chapter[u], page, finished, clock + 1)]
    /\ latest' = u
    /\ UNCHANGED backup

\* toChapter; history may be left out of the backup.
Forget(row) == [row EXCEPT !.last = 0, !.readAt = 0]

CreateBackup(history) ==
    /\ backup' = [u \in Urls |->
                    IF chapter[u] = Absent \/ history THEN chapter[u]
                    ELSE Forget(chapter[u])]
    /\ UNCHANGED <<chapter, clock, latest>>

Larger(a, b) == IF a >= b THEN a ELSE b

\* Mutant: a restore that takes the backup's word for it.
MergedBlindly(row, saved) ==
    [row EXCEPT !.order = saved.order, !.read = saved.read,
                !.last = saved.last, !.readAt = Larger(@, saved.readAt)]

\* upsertChapters: a chapter the account has keeps its id and the furthest of
\* both readings, and takes the order it had in the backup.
Merged(row, saved) ==
    [row EXCEPT !.order = saved.order,
                !.read = @ \/ saved.read,
                !.last = Larger(@, saved.last),
                !.readAt = Larger(@, saved.readAt)]

Restored(rows, saved, u) ==
    LET inserted == {v \in Present(saved) \ Present(rows) : Before(saved, v, u)}
    IN  IF rows[u] = Absent THEN [saved[u] EXCEPT !.id = NextId(rows, inserted)]
        ELSE Merged(rows[u], saved[u])

RestoreBackup ==
    /\ chapter' = [u \in Urls |->
                     IF backup[u] = Absent THEN chapter[u]
                     ELSE Restored(chapter, backup, u)]
    /\ UNCHANGED <<backup, clock, latest>>

\* cli.ts: an account is removed, with all its rows, and added again.
RemoveAccount ==
    /\ chapter' = NoChapters
    /\ latest' = Absent
    /\ UNCHANGED <<backup, clock>>

ListNext ==
    \/ \E l \in Listings : FetchChapters(l)
    \/ \E us \in SUBSET Urls : \E patch \in Patches : UpdateChapters(us, patch)
    \/ \E u \in Urls : \E page \in 0..LastPage : \E finished \in BOOLEAN :
          RecordProgress(u, page, finished)
    \/ \E history \in BOOLEAN : CreateBackup(history)
    \/ RestoreBackup
    \/ RemoveAccount

\* Every row is one the schema allows, and what was read last is still there.
TypeOK ==
    /\ chapter \in Table
    /\ backup \in Table
    /\ clock \in 0..MaxClock
    /\ latest \in Urls \cup {Absent}
    /\ latest # Absent => chapter[latest] # Absent

\* The orders of a table's n rows are 1..n.
InOrder(rows) ==
    {rows[u].order : u \in Present(rows)} = 1..Cardinality(Present(rows))

\* A refresh leaves one chapter, and only one, at each of the reader's routes
\* (chapter.ts:275-279), whatever the order columns were before it: a backup
\* restored over newer chapters leaves two of them at one order.
RefreshSeparates ==
    [][InOrder(chapter') \/ ~\E l \in Listings : FetchChapters(l)]_listVars

\* Refreshes and restores lose nothing of what the reader did: a row goes
\* only with its account, and the read flag, the page and the time of reading
\* go back only when the reader takes them back (chapter.ts:336, apply.ts:243).
TakesBack(u) ==
    \/ \E us \in SUBSET Urls : \E patch \in Patches :
          u \in us /\ UpdateChapters(us, patch)
    \/ \E page \in 0..LastPage : \E finished \in BOOLEAN :
          RecordProgress(u, page, finished) /\ (chapter[u].read => chapter'[u].read)

KeepsReading(row, next) ==
    /\ next # Absent
    /\ row.read => next.read
    /\ row.last <= next.last
    /\ row.readAt <= next.readAt
    /\ row.id = next.id

ReadingSurvives ==
    [][\A u \in Present(chapter) :
         KeepsReading(chapter[u], chapter'[u]) \/ TakesBack(u) \/ RemoveAccount]_listVars

\* The continue-reading shelf is led by the chapter somebody last read: no
\* bulk edit, refresh or restore moves another past it (progress.ts:2-8).
LatestLeads ==
    latest # Absent =>
        \A u \in Present(chapter) : chapter[u].readAt <= chapter[latest].readAt

\* What every refresh, edit, restore and removal leaves as it should be.
ChaptersKept == TypeOK /\ LatestLeads

ListSpec == ListInit /\ [][ListNext]_listVars
=============================================================================
