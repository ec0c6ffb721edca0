---------------------------- MODULE MCWebReading ----------------------------
(***************************************************************************)
(* The chapter lists of the server, the page that reads a chapter with its *)
(* gestures and keys, the shelves of the library page and the list and     *)
(* dialogs of the title page, in one run.  The first state says which of   *)
(* the five moves; the others stay as they start, or are not looked at.    *)
(* The reachable states are those of each, one after the other.            *)
(***************************************************************************)
EXTENDS ChapterList, WebReader, WebGestures, WebShelves, WebChapters, TLC

CONSTANTS A, B, Off

VARIABLE focus

Parts == {"chapters", "reader", "gestures", "shelves", "list"}

\* Two chapters, which may change places, and one or both vanish.
MCUrls == {A, B}
MCListings ==
    {l \in UNION {[1..n -> MCUrls] : n \in 0..2} :
        \A i, j \in 1..Len(l) : l[i] = l[j] => i = j}
AnyName == Permutations(MCUrls)

\* A chapter of two pages, the second wide, and one of three.
MCPageCounts == <<2, 3>>
MCWide == {<<2, 1>>}

\* The keys that three actions start with.
MCDefaults ==
    [a \in Actions |-> CASE a = "zoomIn" -> {"plus"} [] a = "zoomReset" -> {"0"} [] OTHER -> {"s"}]

\* Two rows of the library, of one title or two, with one tracker, two, or
\* none, whose lists differ in what is read; and what they are read from: one
\* catalogue of four chapters, and a second of the same title or another.
OnList(remote, read, total, status) ==
    [tracker |-> "anilist", remote |-> remote, read |-> read, total |-> total, status |-> status]
MalEntry(read, status) == [OnList("3", read, 3, status) EXCEPT !.tracker = "mal"]
Shelf(id, title, records, bindings, categories) ==
    [id |-> id, title |-> title, records |-> records, bound |-> bindings, categories |-> categories,
     genres |-> IF id = 1 THEN {"action"} ELSE {}, answersTo |-> {title}, added |-> 3 - id, listed |-> FALSE]
Chapter(n, order, isRead, fetchedAt) ==
    [number |-> n, order |-> order, isRead |-> isRead, at |-> fetchedAt]
Catalogue11 == {Chapter(1, 1, TRUE, 1), Chapter(2, 2, FALSE, 0), Chapter(2, 3, FALSE, 0), Chapter(3, 4, FALSE, 0)}
Catalogue12 == {Chapter(1, 1, TRUE, 2), Chapter(2, 2, FALSE, 0)}
From(title, records, chapters) == [title |-> title, records |-> records, chapters |-> chapters]
LinkSets ==
    {{}, {OnList("7", 1, 3, "Reading")}, {MalEntry(2, "Completed")},
     {OnList("7", 1, 0, "Planning"), MalEntry(2, "Reading")}}
MCShelved ==
    {[rows |-> <<r1, r2>>, history |-> FALSE, sources |-> 11 :> From("m", {}, Catalogue11)] :
        r1 \in {Shelf(1, "m", l, b, {"c1"}) : l \in LinkSets, b \in {{}, {11}}},
        r2 \in {Shelf(2, "m", l, {11}, {}) :
                    l \in {{}, {OnList("7", 2, 3, "Reading")}, {MalEntry(1, "Reading")}}}
               \cup {Shelf(2, t, {MalEntry(1, "Reading")}, {}, {}) : t \in {"m", "n"}}}
    \cup
    {[rows |-> <<r1, r2>>, history |-> TRUE,
      sources |-> 11 :> From("m", {}, Catalogue11) @@ 12 :> other] :
        r1 \in {Shelf(1, "m", l1, b, {}) : l1 \in {{}, {OnList("7", 1, 3, "Reading")}}, b \in {{}, {11}}},
        r2 \in {Shelf(2, "n", {}, b, {}) : b \in {{}, {12}}},
        other \in {From("m", {}, Catalogue12), From("n", {}, Catalogue12),
                   From("m", {OnList("7", 1, 3, "Reading")}, Catalogue12)}}

\* Two titles' scanlations; a view that names a group one of them lacks; and
\* libraries with none, and with two copies of one series.
MCScanlations == <<<<"a", "b">>, <<"b">>>>
MCStored == {None, [scanlator |-> "b", filter |-> "unread", order |-> "desc"]}
InLibrary(id, key, from, like) == [id |-> id, key |-> key, readsFrom |-> from, resembles |-> like]
MCRows ==
    {<<>>, <<InLibrary(1, "k", 1, {1}), InLibrary(7, "k", 9, {2}), InLibrary(8, "l", 8, {})>>,
     <<InLibrary(7, "k", 9, {1}), InLibrary(8, "k", 8, {1})>>}

-----------------------------------------------------------------------------
\* A part that is not looked at.
ReaderOff ==
    /\ at = Off /\ going = Off /\ atEnd = Off /\ pending = Off /\ result = Off
    /\ page = Off /\ mode = Off /\ pairing = Off /\ offset = Off /\ room = Off
    /\ wide = Off /\ images = Off /\ anchor = Off /\ stripPage = Off /\ report = Off
    /\ opened = Off

ReadingInit ==
    /\ focus \in Parts
    /\ ListInit
    /\ IF focus = "reader" THEN ReaderInit ELSE ReaderOff
    /\ GestureInit /\ ShelvesInit /\ ChaptersInit

ReadingNext ==
    /\ UNCHANGED focus
    /\ IF focus = "chapters" THEN TRUE ELSE UNCHANGED listVars
    /\ IF focus = "reader" THEN TRUE ELSE UNCHANGED readerVars
    /\ IF focus = "gestures" THEN TRUE ELSE UNCHANGED gestureVars
    /\ IF focus = "shelves" THEN TRUE ELSE UNCHANGED shelfVars
    /\ IF focus = "list" THEN TRUE ELSE UNCHANGED chapterVars
    /\ CASE focus = "chapters" -> ListNext
         [] focus = "reader" -> ReaderNext
         [] focus = "gestures" -> GestureNext
         [] focus = "shelves" -> ShelvesNext
         [] focus = "list" -> ChaptersNext

readingVars ==
    <<focus, listVars, readerVars, gestureVars, shelfVars, chapterVars>>

ReadingSpec == ReadingInit /\ [][ReadingNext]_readingVars

-----------------------------------------------------------------------------
\* The variables of every part hold what its code can put there.
ReadingTypesOK ==
    /\ focus = "reader" => WebReaderTypeOK
    /\ focus = "gestures" => WebGesturesTypeOK
    /\ focus = "shelves" => ShelvesTypeOK
    /\ focus = "list" => ChaptersTypeOK

\* What is on screen is what it stands for: a press means one thing; and a
\* title's list shows what is on disk, whose view it is, and asks before it
\* adds (ReaderPage.tsx:1261-1560, MangaDetailPage.tsx:249-508 and :1534-1563,
\* downloads.ts:126-160).
ShownRight ==
    /\ focus = "gestures" => OneThingAtATime
    /\ focus = "list" => ChaptersAreTrue

\* Turning on skips nothing, turning back nothing where pages are paired and one
\* page at most where they are not, backing out of a chapter comes to the last
\* page of the one before, and only what was on screen is reported as read
\* (ReaderPage.tsx:787-1033, :1173-1189, :1690-1765, :1966-1997).
ReadsOn == [][focus = "reader" => TurnsReadOn /\ ReportsWereSeen]_readingVars
=============================================================================
