----------------------------- MODULE WebShelves -----------------------------
(***************************************************************************)
(* What the library page shows (web/src/pages/LibraryPage.tsx): which row  *)
(* stands for a series, its shelf, order and unread count, what the search *)
(* and the chips leave, the shelf of what was read last, and the count of  *)
(* it all on another page (utils/libraryStats.ts); with which link counts  *)
(* (utils/tracking.ts) and which titles are alike (utils/titleMatch.ts).   *)
(*                                                                         *)
(* A title is its key, as titleKey folds it; what is bound, or known, at   *)
(* most once is a set of at most one.                                      *)
(***************************************************************************)
EXTENDS Integers, Sequences, SequencesExt, FiniteSets

CONSTANTS
    Shelved,       \* the libraries there may be: rows, and what they read from
    RecentLimit,   \* how many series the shelf of the last reads holds
    MaxReads,      \* bound: when the last read may be
    MaxAlike       \* bound: letters of a title that is compared

ASSUME ShelvesAssumption == RecentLimit \in Nat \ {0} /\ MaxReads \in Nat /\ MaxAlike \in Nat

VARIABLES
    looking,   \* "shelves", "recent", "titles", or "nothing" yet
    lib,       \* the library and what it is read from, as the queries brought it
    look,      \* the reader's arrangement of the shelves
    reads,     \* the server's: when a chapter of a row was last read, and which
    stamps,    \* the server's: when a row was put out of sight
    fetched,   \* the last reads, as the page has them
    hides,     \* hiding on this visit: out of sight, back in sight, on their way
    alike      \* two titles that are compared

shelfVars == <<looking, lib, look, reads, stamps, fetched, hides, alike>>

Top(S) == CHOOSE n \in S : \A m \in S : m <= n
AtLeast(S, n) == Top(S \cup {n})

-----------------------------------------------------------------------------
(* Links to trackers (utils/tracking.ts).                                  *)

PreferenceOf(tracker) == IF tracker = "anilist" THEN 0 ELSE 1

\* The furthest ahead, whatever order they come in.
FurtherAhead(a, b) ==
    a.read > b.read \/ (a.read = b.read /\ PreferenceOf(a.tracker) < PreferenceOf(b.tracker))
PrimaryRecord(records) == {r \in records : ~\E q \in records : FurtherAhead(q, r)}

\* The preferred one, however far it is: two rows of a series agree on it.
TrackIdentity(records) ==
    {<<r.tracker, r.remote>> : r \in {q \in records :
        \A p \in records : PreferenceOf(q.tracker) <= PreferenceOf(p.tracker)}}

ReadOf(records) == AtLeast({r.read : r \in records}, 0)
StatusOf(row) == {r.status : r \in PrimaryRecord(row.records)}

-----------------------------------------------------------------------------
(* One row for a series.                                                   *)

\* Rows with a link teach it to the others of their title; the last one does.
RemoteByTitle(rows, t) ==
    LET linked == {k \in DOMAIN rows : rows[k].title = t /\ rows[k].records # {}}
    IN  IF linked = {} THEN {} ELSE TrackIdentity(rows[Top(linked)].records)

SeriesKey(rows, row) ==
    LET own == TrackIdentity(row.records)
        taught == RemoteByTitle(rows, row.title)
    IN  IF own # {} THEN own ELSE IF taught # {} THEN taught ELSE {<<"title", row.title>>}

EntryScore(row) ==
    <<IF row.records = {} THEN 0 ELSE 1, Cardinality(row.bound), ReadOf(row.records), -row.id>>
\* Mutant: of two copies the one that comes later.
LaterEntry(a, b) == b
PreferredEntry(a, b) ==
    IF \E k \in 1..4 : EntryScore(b)[k] > EntryScore(a)[k]
                       /\ \A j \in 1..(k - 1) : EntryScore(b)[j] = EntryScore(a)[j]
    THEN b ELSE a

DeduplicateLibrary(rows) ==
    LET Join(series, row) ==
            LET at == {k \in DOMAIN series : series[k].key = SeriesKey(rows, row)}
            IN  IF at = {} THEN Append(series, [key |-> SeriesKey(rows, row), row |-> row])
                ELSE [series EXCEPT ![Top(at)].row = PreferredEntry(@, row)]
        all == FoldLeft(Join, <<>>, rows)
    IN  [k \in DOMAIN all |-> all[k].row]

-----------------------------------------------------------------------------
(* What is left to read.  A chapter is its number, however many rows of it *)
(* there are.                                                              *)

Numbers(chapters) == {c.number : c \in chapters}
LocalReadThrough(chapters) == AtLeast(Numbers({c \in chapters : c.isRead}), 0)
BoundState(row) == {lib.sources[s] : s \in row.bound}
Catalogue(row) == UNION {s.chapters : s \in BoundState(row)}

\* Whichever was told last is the one that knows.
ReadThroughOf(row) ==
    AtLeast(UNION {{ReadOf(s.records), LocalReadThrough(s.chapters)} : s \in BoundState(row)},
            ReadOf(row.records))

Rest(total, read) == IF total > read THEN total - read ELSE 0

UnreadFor(row) ==
    IF row.bound # {} THEN {Cardinality({n \in Numbers(Catalogue(row)) : n > ReadThroughOf(row)})}
    ELSE {Rest(r.total, r.read) : r \in {p \in PrimaryRecord(row.records) : p.total > 0}}

\* The same in numbers (utils/libraryStats.ts).
Sum(S, Of(_)) == FoldLeft(LAMBDA n, x : n + Of(x), 0, S)
CountLibrary(rows) ==
    LET titles == DeduplicateLibrary(rows)
        unbound(row) == {p \in PrimaryRecord(row.records) : p.total > 0}
        Exist(row) == IF row.bound # {} THEN Cardinality(Numbers(Catalogue(row)))
                      ELSE AtLeast({r.total : r \in unbound(row)}, 0)
        Read(row) == IF row.bound # {} THEN Cardinality({n \in Numbers(Catalogue(row)) : n <= ReadThroughOf(row)})
                     ELSE AtLeast({IF r.read < r.total THEN r.read
                                   ELSE r.total : r \in unbound(row)}, 0)
    IN  [titles |-> Len(titles),
         completed |-> Len(SelectSeq(titles, LAMBDA row : "Completed" \in StatusOf(row))),
         chaptersRead |-> Sum(titles, Read), chaptersTotal |-> Sum(titles, Exist)]

-----------------------------------------------------------------------------
(* The shelves.                                                            *)

StatusOrder == <<"Reading", "Planning", "Other">>
Natural(order) == IF order = "title" THEN "asc" ELSE "desc"

\* A preference of before: one status, or all of them, by name.
ShelfFiltersFrom(raw) ==
    IF raw = <<"All">> THEN ToSet(StatusOrder) ELSE ToSet(raw) \cap ToSet(StatusOrder)

DefaultLook ==
    [sort |-> "title", direction |-> "asc", seed |-> 0, grouping |-> "status",
     shown |-> ToSet(StatusOrder), hidden |-> {}, genres |-> {}, origins |-> {}, needle |-> "",
     touched |-> FALSE]

\* Any hash of the two: it may give two titles one rank.
ShuffleRank(seed, id) == (seed * id) % 3
TitleRank(row) == IF row.title = "m" THEN 0 ELSE 1

SortValue(row) ==
    CASE look.sort = "added" -> row.added
      [] look.sort = "unread" -> AtLeast(UnreadFor(row), 0)
      [] look.sort = "lastRead" -> AtLeast({c.at : c \in Catalogue(row)}, 0)
      [] OTHER -> TitleRank(row)

SortLibrary(rows) ==
    LET sign == IF look.direction = "asc" \/ look.sort = "random" THEN 1 ELSE -1
        rank(k) == IF look.sort = "random" THEN ShuffleRank(look.seed, rows[k].id)
                   ELSE sign * SortValue(rows[k])
        before(i, j) == \/ rank(i) < rank(j)
                        \/ rank(i) = rank(j) /\ TitleRank(rows[i]) < TitleRank(rows[j])
                        \/ rank(i) = rank(j) /\ TitleRank(rows[i]) = TitleRank(rows[j]) /\ i < j
        places == SetToSortSeq(DOMAIN rows, before)
    IN  [k \in DOMAIN rows |-> rows[places[k]]]

Manga == SortLibrary(SelectSeq(DeduplicateLibrary(lib.rows),
                               LAMBDA row : "Completed" \notin StatusOf(row)))

\* The catalogue it is bound to, or its own where that has chapters.
CardSource(row) == IF row.bound # {} THEN row.bound ELSE IF row.listed THEN {row.id} ELSE {}

Label(row) == IF StatusOf(row) \cap {"Reading", "Planning"} = {} THEN {"Other"}
              ELSE StatusOf(row)
OnShelf(shelf, row) ==
    IF look.grouping = "status" THEN shelf \in Label(row)
    ELSE IF shelf = "default" THEN row.categories = {} ELSE shelf \in row.categories
Shelves == IF look.grouping = "status" THEN StatusOrder ELSE <<"c1", "c2", "default">>
ShelfVisible(shelf) ==
    IF look.grouping = "status" THEN shelf \in look.shown ELSE shelf \notin look.hidden

\* Every genre that is chosen, and any one of the sources.
MatchesFilter(row) ==
    /\ look.genres \subseteq row.genres
    /\ look.origins = {} \/ CardSource(row) \cap look.origins # {}
    /\ look.needle = "" \/ look.needle \in row.answersTo

VisibleShelves ==
    LET kept == SelectSeq(Shelves, LAMBDA shelf : ShelfVisible(shelf))
        items(shelf) == SelectSeq(Manga, LAMBDA row : OnShelf(shelf, row) /\ MatchesFilter(row))
    IN  SelectSeq([k \in DOMAIN kept |-> [key |-> kept[k], items |-> items(kept[k])]],
                  LAMBDA s : s.items # <<>>)

Arrange(new) ==
    /\ looking = "shelves" /\ look' = new
    /\ UNCHANGED <<looking, lib, reads, stamps, fetched, hides, alike>>
\* Bound: next to the order, one thing of the arrangement is changed.
Touch(new) == ~look.touched /\ Arrange([new EXCEPT !.touched = TRUE])
Toggled(S, x) == IF x \in S THEN S \ {x} ELSE S \cup {x}

\* The order in force is turned round, or drawn again.
ChooseSort(order) ==
    IF order = "random"
    THEN Arrange([look EXCEPT !.sort = order, !.direction = "asc",
                              !.seed = IF look.sort = order THEN 1 - @ ELSE @])
    ELSE Arrange([look EXCEPT !.sort = order,
                    !.direction = IF look.sort # order THEN Natural(order)
                                  ELSE IF @ = "asc" THEN "desc" ELSE "asc"])
ChooseGrouping == Touch([look EXCEPT !.grouping = "category"])
ToggleShelf(key) ==
    IF look.grouping = "category" THEN key \in ToSet(Shelves) /\ Arrange([look EXCEPT !.hidden = Toggled(@, key)])
    ELSE key \in ToSet(StatusOrder) /\ Touch([look EXCEPT !.shown = Toggled(@, key)])
ToggleGenre(genre) == Touch([look EXCEPT !.genres = Toggled(@, genre)])
ToggleSource(s) == Touch([look EXCEPT !.origins = Toggled(@, s)])
Search(needle) == Touch([look EXCEPT !.needle = needle])
\* A look that was kept in one of the shapes there have been.
ReviveShelves(raw) == Touch([look EXCEPT !.shown = ShelfFiltersFrom(raw)])
ClearFilter == Arrange([look EXCEPT !.needle = "", !.genres = {}, !.origins = {}])

-----------------------------------------------------------------------------
(* What was read last.  The entries of the library are looked up by what   *)
(* they read from, by their link and by their title; the entry's own id of *)
(* a link goes without its tracker.                                        *)

Entry(row) ==
    [entryId |-> row.id, row |-> row, remote |-> {<<"",
                                                    r.remote>> : r \in PrimaryRecord(row.records)},
     boundManga |-> IF row.bound = {} THEN row.id
                    ELSE Top(row.bound), read |-> ReadThroughOf(row)]
Entries == [k \in DOMAIN lib.rows |-> Entry(lib.rows[k])]
\* Of several the first that has been read the furthest.
Furthest(ks) ==
    {Entries[k] : k \in {i \in ks : \A j \in ks : Entries[j].read < Entries[i].read
                                       \/ (Entries[j].read = Entries[i].read /\ i <= j)}}
LibraryByBound(m) ==
    LET ks == {k \in DOMAIN lib.rows : m \in lib.rows[k].bound} IN IF ks = {} THEN {} ELSE {Entries[Top(ks)]}
LibraryByRemote(key) == Furthest({k \in DOMAIN lib.rows : TrackIdentity(lib.rows[k].records) = key})
LibraryByTitle(t) == Furthest({k \in DOMAIN lib.rows : lib.rows[k].title = t})

Sources == DOMAIN lib.sources
\* The link a title is known by: its own, the library's, or a copy's.
RemoteFor(m) ==
    LET own == TrackIdentity(lib.sources[m].records)
        shelved == UNION {e.remote : e \in LibraryByTitle(lib.sources[m].title)}
        copies == {s \in DOMAIN fetched.at : fetched.at[s] > 0 /\ lib.sources[s].title = lib.sources[m].title
                                               /\ lib.sources[s].records # {}}
    IN  IF own # {} THEN own ELSE IF shelved # {} THEN shelved
        ELSE IF copies = {} THEN {} ELSE TrackIdentity(lib.sources[Top(copies)].records)
KeyOf(remote, title) == IF remote # {} THEN remote ELSE {<<"title", title>>}
RecentKey(m) == KeyOf(RemoteFor(m), lib.sources[m].title)

EntryAmong(byBound, byRemote, byTitle) ==
    IF byBound # {} THEN byBound ELSE IF byRemote # {} THEN byRemote ELSE byTitle
LinkedEntry(remote) == IF remote = {} THEN {} ELSE LibraryByRemote(remote)
EntryFor(m) ==
    EntryAmong(LibraryByBound(m), LinkedEntry(RemoteFor(m)), LibraryByTitle(lib.sources[m].title))

\* Newest first; a series is the first read of it and every row behind it.
SeriesOf(key) == {m \in Sources : fetched.at[m] > 0 /\ RecentKey(m) = key}
NewestOf(rows) == CHOOSE m \in rows : \A s \in rows : fetched.at[s] <= fetched.at[m]
Newest(key) == NewestOf(SeriesOf(key))
HiddenAt(key) == AtLeast({fetched.stamps[m] : m \in SeriesOf(key)}, 0)
Keys == {RecentKey(m) : m \in {s \in Sources : fetched.at[s] > 0}}
ReadSince(hiddenAt, newest) == hiddenAt = 0 \/ hiddenAt < fetched.at[newest]
InSight(key) ==
    /\ key \in hides.restored \/ ReadSince(HiddenAt(key), Newest(key))
    /\ key \notin DOMAIN hides.hidden
Recent ==
    LET order == SetToSortSeq({k \in Keys : InSight(k)},
                              LAMBDA a, b : fetched.at[Newest(a)] > fetched.at[Newest(b)])
    IN  SubSeq(order, 1, IF Len(order) < RecentLimit THEN Len(order) ELSE RecentLimit)

\* The next chapter is the first that is neither read nor read past.
RecentThrough(m) ==
    AtLeast({e.read : e \in EntryFor(m)} \cup {LocalReadThrough(lib.sources[m].chapters)},
            ReadOf(lib.sources[m].records))
Unfinished(chapters, through) == {c \in chapters : ~c.isRead /\ ~(through > 0 /\ c.number <= through)}
FirstIn(unfinished) ==
    {c \in unfinished : \A d \in unfinished : c.number < d.number \/ (c.number = d.number /\ c.order <= d.order)}
NextChapter(m, through) == FirstIn(Unfinished(lib.sources[m].chapters, through))

\* Resumed on what the series is read from, if that has chapters; in place
\* only where it was left.
OpenedFrom(m, reading) ==
    IF reading \in Sources /\ lib.sources[reading].chapters # {} THEN reading ELSE m
CardOver(m, entry, opened, covers, through) ==
    LET chapters == lib.sources[opened].chapters
        inPlace == opened = m /\ ~fetched.chapter[m].isRead
    IN  [opened |-> opened, inPlace |-> inPlace, entry |-> entry,
         resume |-> IF inPlace THEN {fetched.chapter[m]} ELSE NextChapter(opened, through),
         from |-> {e.entryId : e \in {x \in entry : x.entryId # opened /\ x.boundManga = opened}},
         unread |-> IF chapters = {}
                    THEN {Rest(r.total, through) :
                            r \in {q \in UNION {PrimaryRecord(e.row.records) : e \in covers} : q.total > 0}}
                    ELSE {Cardinality({n \in Numbers(chapters) : n > through})},
         through |-> AtLeast({e.read : e \in entry}, through),
         latest |-> AtLeast(UNION {Numbers(Catalogue(e.row)) : e \in covers} \cup Numbers(chapters), 0)]
CardOpening(m, entry, opened) ==
    CardOver(m, entry, opened, EntryFor(opened), RecentThrough(opened))
CardOf(m, entry) ==
    CardOpening(m, entry, OpenedFrom(m, IF entry = {} THEN m ELSE Top({e.boundManga : e \in entry})))
Card(m) == CardOf(m, EntryFor(m))
CaughtUp(card) == card.resume = {} /\ card.latest > 0 /\ card.through >= card.latest

Writes(op, ids, stamp) == {[op |-> op, manga |-> m, stamp |-> stamp] : m \in ids}
LeavingOut(f, keys) == [k \in DOMAIN f \ keys |-> f[k]]
Refetched == [at |-> [m \in Sources |-> reads[m].at],
              chapter |-> [m \in Sources |-> reads[m].chapter],
              stamps |-> stamps]

\* A chapter is read, here or on another device.
ReadChapter(m, c) ==
    /\ looking = "recent" /\ AtLeast({reads[s].at : s \in Sources}, 0) < MaxReads
    /\ reads' = [reads EXCEPT ![m] = [at |-> AtLeast({reads[s].at : s \in Sources}, 0) + 1,
                                      chapter |-> c]]
    /\ UNCHANGED <<looking, lib, look, stamps, fetched, hides, alike>>

\* Mutant: only the row that was read last is stamped, with the hour it has
\* before this one.
HideEarlier(key) == Writes("hide", SeriesOf(key), fetched.at[Newest(key)] - 1)
\* Every row behind the card, so that none takes its place.
HideWrites(key) == Writes("hide", SeriesOf(key), fetched.at[Newest(key)])

\* One gesture's writes are answered before the next is made; an undo that
\* overtakes its hide is left to the README.
HideSeries(key) ==
    /\ looking = "recent" /\ key \in ToSet(Recent) /\ hides.writes = {}
    /\ hides' = [hides EXCEPT !.hidden = [k \in DOMAIN @ \cup {key} |-> IF k = key THEN SeriesOf(key) ELSE @[k]],
                              !.restored = @ \ {key}, !.writes = HideWrites(key),
                              !.wish = [k \in DOMAIN @ \cup {key} |-> IF k = key THEN fetched.at[Newest(key)] ELSE @[k]]]
    /\ UNCHANGED <<looking, lib, look, reads, stamps, fetched, alike>>

UndoHiding ==
    /\ looking = "recent" /\ DOMAIN hides.hidden # {} /\ hides.writes = {}
    /\ hides' = [hides EXCEPT !.hidden = <<>>, !.restored = DOMAIN hides.hidden,
                              !.writes = Writes("show",
                                                UNION {hides.hidden[k] : k \in DOMAIN hides.hidden}, 0),
                              !.wish = LeavingOut(@, DOMAIN hides.hidden)]
    /\ UNCHANGED <<looking, lib, look, reads, stamps, fetched, alike>>

\* The writes arrive in any order; after the last the page asks again.
WriteArrives(w) ==
    /\ w \in hides.writes
    /\ stamps' = [stamps EXCEPT ![w.manga] = w.stamp]
    /\ hides' = [hides EXCEPT !.writes = @ \ {w}]
    /\ fetched' = IF hides.writes = {w} THEN [Refetched EXCEPT !.stamps = stamps'] ELSE fetched
    /\ UNCHANGED <<looking, lib, look, reads, alike>>

\* The page is left and come back to.
Revisit ==
    /\ looking = "recent" /\ hides.writes = {}
    /\ fetched' = Refetched
    /\ hides' = [hides EXCEPT !.hidden = <<>>, !.restored = {}]
    /\ UNCHANGED <<looking, lib, look, reads, stamps, alike>>

-----------------------------------------------------------------------------
(* How alike two titles are: letters to change, pairs in common.           *)

Least(S) == CHOOSE n \in S : \A m \in S : n <= m
\* One row of the table for each letter of the left, kept in one array.
EditRow(row, left, k, right) ==
    LET cell[j \in 0..Len(right)] ==
            IF j = 0 THEN k
            ELSE Least({row[j] + 1, cell[j - 1] + 1,
                        row[j - 1] + IF left[k] = right[j] THEN 0 ELSE 1})
    IN  cell
EditDistance(left, right) ==
    LET table[k \in 0..Len(left)] ==
            IF k = 0 THEN [j \in 0..Len(right) |-> j] ELSE EditRow(table[k - 1], left, k, right)
    IN  table[Len(left)][Len(right)]

Bigrams(s) == IF Len(s) < 2 THEN (IF s = <<>> THEN <<>>
                                  ELSE <<s>>) ELSE [k \in 1..(Len(s) - 1) |-> <<s[k], s[k + 1]>>]
\* A pair of the right is taken once.
Overlap(left, right) ==
    FoldLeft(LAMBDA acc, p : IF \E k \in DOMAIN acc.rest : acc.rest[k] = p
                             THEN [n |-> acc.n + 1,
                                   rest |-> RemoveAt(acc.rest,
                                                     Least({k \in DOMAIN acc.rest : acc.rest[k] = p}))]
                             ELSE acc,
             [n |-> 0, rest |-> Bigrams(right)], Bigrams(left)).n

\* At most a handful, none far behind the best, in hundredths.
RelevantTitleMatches(scores, limit) ==
    LET ranked == SetToSortSeq(DOMAIN scores,
                               LAMBDA i, j : scores[i] > scores[j] \/ (scores[i] = scores[j] /\ i < j))
        good == SelectSeq(ranked, LAMBDA k : scores[k] >= 56 /\ scores[k] >= scores[ranked[1]] - 16)
    IN  SubSeq(good, 1, IF Len(good) < limit THEN Len(good) ELSE limit)

-----------------------------------------------------------------------------
Words == UNION {[1..n -> {"a", "b"}] : n \in 0..MaxAlike}
NoReads(sources) == [m \in DOMAIN sources |-> [at |-> 0,
                                               chapter |-> [number |-> 0, order |-> 0,
                                                            isRead |-> FALSE, at |-> 0]]]
NoHides == [hidden |-> <<>>, restored |-> {}, writes |-> {}, wish |-> <<>>]

ShelvesInit ==
    /\ looking = "nothing" /\ look = DefaultLook /\ hides = NoHides /\ alike = <<<<>>, <<>>>>
    /\ lib = [rows |-> <<>>, sources |-> <<>>] /\ reads = <<>> /\ stamps = <<>>
    /\ fetched = [at |-> <<>>, chapter |-> <<>>, stamps |-> <<>>]

\* The queries bring the library.
LibraryComes(l) ==
    /\ looking = "nothing"
    /\ lib' = l /\ looking' \in (IF l.history THEN {"recent"} ELSE {"shelves"})
    /\ reads' = NoReads(l.sources) /\ stamps' = [m \in DOMAIN l.sources |-> 0]
    /\ fetched' = [at |-> stamps', stamps |-> stamps',
                   chapter |-> [m \in DOMAIN l.sources |-> reads'[m].chapter]]
    /\ UNCHANGED <<look, hides, alike>>

Compare ==
    /\ looking = "nothing" /\ looking' = "titles"
    /\ alike' \in Words \X Words
    /\ UNCHANGED <<lib, look, reads, stamps, fetched, hides>>

ShelvesNext ==
    \/ Compare \/ \E l \in Shelved : LibraryComes(l)
    \/ \E order \in {"title", "added", "unread", "lastRead", "random"} : ChooseSort(order)
    \/ ChooseGrouping \/ ClearFilter
    \/ \E key \in {"Reading", "Other", "c1", "default"} : ToggleShelf(key)
    \/ ToggleGenre("action") \/ ToggleSource(11)
    \/ \E needle \in {"m", "nobody"} : Search(needle)
    \/ \E raw \in {<<"All">>, <<"Reading">>, <<"Gone", "Other">>} : ReviveShelves(raw)
    \/ UndoHiding \/ Revisit
    \/ looking = "recent" /\ \E m \in Sources : \E c \in lib.sources[m].chapters : ReadChapter(m, c)
    \/ looking = "recent" /\ \E key \in Keys : HideSeries(key)
    \/ \E w \in hides.writes : WriteArrives(w)

ShelvesSpec == ShelvesInit /\ [][ShelvesNext]_shelfVars

-----------------------------------------------------------------------------
\* The variables hold what the code can put there.
ShelvesTypeOK ==
    /\ looking \in {"nothing", "shelves", "recent", "titles"}
    /\ look.direction \in {"asc", "desc"} /\ look.grouping \in {"status", "category"}
    /\ hides.restored \cap DOMAIN hides.hidden = {}

\* The counts of the statistics are those of the shelves: as many titles, as
\* many chapters left as the covers say together (libraryStats.ts:4-7).
StatsAgree ==
    looking = "shelves" =>
        LET totals == CountLibrary(lib.rows)
        IN  /\ totals.titles - totals.completed = Len(Manga)
            /\ totals.chaptersTotal - totals.chaptersRead
                 = Sum(DeduplicateLibrary(lib.rows), LAMBDA row : AtLeast(UnreadFor(row), 0))

\* Whatever order the rows come in, the same ones are shown; each series that
\* is not finished is on a shelf, on one only where a shelf is a status, and a
\* shelf keeps the order of the whole (LibraryPage.tsx:445-448, 1645-1646, 1668-1669).
EverySeriesShelved ==
    looking = "shelves" =>
        LET shown == ToSet(Manga)
            shelves == ToSet(VisibleShelves)
            whole == look.genres = {} /\ look.origins = {} /\ look.needle = ""
                       /\ look.hidden = {} /\ look.shown = ToSet(StatusOrder)
            distinct == Cardinality({r.title : r \in {x \in ToSet(lib.rows) : x.records # {}}})
                          = Cardinality({x \in ToSet(lib.rows) : x.records # {}})
        IN  /\ \A row \in shown : Cardinality({s \in shelves : row \in ToSet(s.items)})
                 \in (IF ~whole THEN 0..2 ELSE IF look.grouping = "status" THEN {1} ELSE {1, 2})
            /\ \A s \in shelves : \A i, j \in DOMAIN s.items : i < j =>
                  /\ s.items[i] # s.items[j]
                  /\ look.sort = "unread" /\ look.direction = "desc" =>
                        AtLeast(UnreadFor(s.items[i]), 0) >= AtLeast(UnreadFor(s.items[j]), 0)
            /\ distinct => ToSet(DeduplicateLibrary(lib.rows)) = ToSet(DeduplicateLibrary(Reverse(lib.rows)))

\* A card resumes a chapter of the catalogue it opens, the one that was left
\* there or one that is not read; its count is that of the cover; Back leads
\* to an entry that reads from the same place; and a full bar leaves nothing
\* (LibraryPage.tsx:554-561, 819-850).
CardsResumeRight ==
    looking = "recent" => \A card \in {Card(Newest(key)) : key \in ToSet(Recent)} :
        LET own == {e \in card.entry : e.row \in ToSet(DeduplicateLibrary(lib.rows)) /\ card.opened \in e.row.bound}
        IN  /\ \A c \in card.resume :
                  /\ c \in lib.sources[card.opened].chapters \/ card.inPlace
                  /\ card.inPlace \/ (~c.isRead /\ c.number > ReadOf(lib.sources[card.opened].records))
                  /\ card.inPlace \/ \A e \in EntryFor(card.opened) : c.number > ReadOf(e.row.records)
                  /\ card.inPlace \/ \A n \in Numbers(lib.sources[card.opened].chapters) :
                        n > RecentThrough(card.opened) => c.number <= n
            /\ \A e \in own : EntryFor(card.opened) = {e} => card.unread = UnreadFor(e.row)
            /\ CaughtUp(card) => \A n \in Numbers(lib.sources[card.opened].chapters) : n <= card.through
            /\ \A id \in card.from : \E k \in DOMAIN lib.rows : lib.rows[k].id = id /\ card.opened \in lib.rows[k].bound

\* What was put out of sight stays there over visits, until it is read again,
\* and what was brought back is there (LibraryPage.tsx:128-131, 743-744).
HidingHolds ==
    looking = "recent" /\ hides.writes = {} /\ hides.hidden = <<>> /\ fetched = Refetched =>
        \A key \in Keys :
            IF key \in DOMAIN hides.wish THEN InSight(key) <=> fetched.at[Newest(key)] > hides.wish[key]
            ELSE InSight(key)

\* The table of distances is the distance, the same both ways, and pairs in
\* common are common to both (titleMatch.ts:24-53).
TitlesCompared ==
    looking = "titles" =>
        LET a == alike[1]
            b == alike[2]
            Pairs(s, p) == Cardinality({k \in DOMAIN Bigrams(s) : Bigrams(s)[k] = p})
            all == ToSet(Bigrams(a)) \cup ToSet(Bigrams(b))
        IN  /\ EditDistance(a, b) = EditDistance(b, a) /\ (EditDistance(a, b) = 0 <=> a = b)
            /\ \A w \in Words : EditDistance(a, w) <= EditDistance(a, b) + EditDistance(b, w)
            /\ Overlap(a, b) = Sum(SetToSeq(all), LAMBDA p : Least({Pairs(a, p), Pairs(b, p)}))
            /\ LET scores == <<10 * Len(a) + 45, 10 * Len(b) + 45, 56>>
                   found == RelevantTitleMatches(scores, 2)
               IN  /\ scores[found[1]] = Top(ToSet(scores)) /\ Len(found) <= 2
                   /\ \A k \in ToSet(found) : scores[k] >= 56 /\ scores[k] + 16 >= scores[found[1]]

\* All that is asked of the library's page.
ShelvesAreTrue ==
    StatsAgree /\ EverySeriesShelved /\ CardsResumeRight /\ HidingHolds /\ TitlesCompared
=============================================================================
