------------------------------- MODULE Reader ------------------------------
(***************************************************************************)
(* Where a page's bytes come from (reader/pages.ts, reader/api.ts): the    *)
(* stored page list of a chapter, its download, the page cache, the source *)
(* and, in front of all of them, the reader's own browser.  Page requests  *)
(* wait for the source while others run, while the chapter list is         *)
(* refreshed or restored (ChapterList) and downloads come and go.          *)
(***************************************************************************)
EXTENDS ChapterList

CONSTANTS
    PageCount,     \* the pages of each edition a source may publish
    MostPages,     \* the most pages of an edition
    NeedsResolve,  \* chapters whose pages name an image on a second request
    Reissued,      \* bound: chapters the source may publish anew
    Offline,       \* bound: chapters that are downloaded
    Calls,         \* bound: requests at one time
    Held,          \* bound: the page urls the browser is followed for
    NoImage

Editions == 1..Len(PageCount)
Pages == 1..MostPages

Image == [chapter : Urls, edition : Editions, page : Pages]
MaybeImage == Image \cup {NoImage}

ASSUME ReaderAssumption ==
    /\ MostPages \in Nat /\ PageCount \in Seq(0..MostPages) /\ PageCount # <<>>
    /\ NeedsResolve \subseteq Urls /\ Reissued \subseteq Urls /\ Offline \subseteq Urls
    /\ Held \subseteq (Nat \ {0}) \X Pages
    /\ NoImage \notin Image

VARIABLES
    edition,   \* what the source has of each chapter now
    pages,     \* table page: the stored list of each chapter, empty if none
    disk,      \* the finished download of each chapter, empty if none
    thinned,   \* the chapters whose download a removal has begun to take away
    cache,     \* the cached image of each page of each chapter
    browser,   \* the image the browser keeps for each page url
    call       \* the requests in progress, or their answers

readerVars == <<edition, pages, disk, thinned, cache, browser, call>>
vars == <<listVars, readerVars>>

\* A stored page: the url the source listed and the image behind it, once
\* known.  A list made from files on disk has neither.
PageRow == [url : MaybeImage, image : MaybeImage]

\* A request for a page (index > 0), or for the list alone (index 0), of the
\* chapter that was at "order" when it came in.
Call == [at : {"listing", "resolving", "fetching", "answered"},
         chapter : Urls \cup {Absent}, order : Nat, index : 0..MostPages,
         source : MaybeImage, image : MaybeImage,
         thin : BOOLEAN]   \* answered out of such a download

NoCall == [at |-> "answered", chapter |-> Absent, order |-> 0, index |-> 0,
           source |-> NoImage, image |-> NoImage, thin |-> FALSE]

Asked(u, i) ==
    [at |-> "listing", chapter |-> u, order |-> chapter[u].order, index |-> i,
     source |-> NoImage, image |-> NoImage, thin |-> FALSE]

ReaderInit ==
    /\ ListInit
    /\ edition = [u \in Urls |-> 1]
    /\ pages = [u \in Urls |-> <<>>]
    /\ disk = [u \in Urls |-> <<>>]
    /\ thinned = {}
    /\ cache = [u \in Urls |-> [i \in Pages |-> NoImage]]
    /\ browser = [h \in Held |-> NoImage]
    /\ call = [c \in Calls |-> NoCall]

Published(u, i) == [chapter |-> u, edition |-> edition[u], page |-> i]

\* getPageList: what the source has at this moment, renumbered.
SourceRows(u) ==
    [i \in 1..PageCount[edition[u]] |->
        [url |-> Published(u, i),
         image |-> IF u \in NeedsResolve THEN NoImage ELSE Published(u, i)]]

LocalRows(u) == [i \in 1..Len(disk[u]) |-> [url |-> NoImage, image |-> NoImage]]

\* Mutant: the new list is inserted behind the old one.
AppendPages(old, rows) == old \o rows

\* Mutant: the old rows stay, and the new list fills up what they leave.
FillPages(old, rows) ==
    [i \in 1..Larger(Len(old), Len(rows)) |-> IF i <= Len(old) THEN old[i] ELSE rows[i]]

\* writePages: the old list goes, the new one comes, in one transaction.
WritePages(old, rows) == rows

\* downloadedChapter and its read: by position, in whichever finished form.
FromDisk(u, i) == IF i <= Len(disk[u]) THEN disk[u][i] ELSE NoImage

\* What is left of a request: nothing, or the image it was answered with.
Answered(r, image, thin) ==
    IF image = NoImage THEN NoCall
    ELSE [NoCall EXCEPT !.chapter = r.chapter, !.index = r.index,
                        !.image = image, !.thin = thin]

\* The rest of readPage, once there is a list: what it answers with, or what it
\* has to ask the source for.
Served(r, rows) ==
    LET u == r.chapter
        i == r.index
        kept == IF FromDisk(u, i) # NoImage THEN FromDisk(u, i) ELSE cache[u][i]
        row == rows[i]
    IN  CASE i \notin 1..Len(rows) -> NoCall
          [] i \in 1..Len(rows) /\ kept # NoImage ->
                Answered(r, kept, FromDisk(u, i) # NoImage /\ u \in thinned)
          [] i \in 1..Len(rows) /\ kept = NoImage /\ row.image # NoImage ->
                [r EXCEPT !.at = "fetching", !.source = row.image]
          [] i \in 1..Len(rows) /\ kept = NoImage /\ row.image = NoImage ->
                IF row.url = NoImage THEN NoCall
                ELSE [r EXCEPT !.at = "resolving", !.source = row.url]

\* Request r goes on as "next"; the browser keeps an image that answers it,
\* under the url it asked for, for a day.
Reply(c, r, next) ==
    /\ call' = [call EXCEPT ![c] = next]
    /\ browser' = [h \in Held |->
                     IF h = <<r.order, r.index>> /\ next.image # NoImage THEN next.image
                     ELSE browser[h]]

\* ensureChapterPages up to its wait, and all of it when there is no wait.
Request(c, u, i) ==
    /\ call[c].at = "answered"
    /\ u \in Present(chapter)
    /\ LET r == Asked(u, i)
       IN  \/ /\ pages[u] # <<>>
              /\ Reply(c, r, Served(r, pages[u]))
              /\ UNCHANGED pages
           \/ /\ pages[u] = <<>> /\ disk[u] # <<>>
              /\ Reply(c, r, Served(r, LocalRows(u)))
              /\ pages' = [pages EXCEPT ![u] = WritePages(@, LocalRows(u))]
           \/ /\ pages[u] = <<>> /\ disk[u] = <<>>
              /\ Reply(c, r, r)
              /\ UNCHANGED pages
    /\ UNCHANGED <<listVars, edition, disk, thinned, cache>>

\* GET /api/v1/manga/m/chapter/order/page/i, when the browser has to ask.
ReadPage(c, u, i) ==
    /\ u \in Present(chapter)
    /\ \A h \in Held : h = <<chapter[u].order, i>> => browser[h] = NoImage
    /\ Request(c, u, i)

\* The mutation fetchChapterPages.
FetchChapterPages(c, u) == Request(c, u, 0)

\* The source answers with its page list: it is stored whatever was meanwhile.
ListArrives(c) ==
    LET r == call[c]
        rows == SourceRows(r.chapter)
    IN  /\ r.at = "listing"
        /\ Reply(c, r, Served(r, rows))
        /\ pages' = [pages EXCEPT ![r.chapter] = WritePages(@, rows)]
        /\ UNCHANGED <<listVars, edition, disk, thinned, cache>>

\* resolveImageUrl: the image is written to the row that has this place now.
Resolved(c) ==
    LET r == call[c]
        rows == pages[r.chapter]
    IN  /\ r.at = "resolving"
        /\ pages' = [pages EXCEPT ![r.chapter] =
                       [i \in 1..Len(rows) |->
                          IF i = r.index THEN [rows[i] EXCEPT !.image = r.source]
                          ELSE rows[i]]]
        /\ Reply(c, r, [r EXCEPT !.at = "fetching"])
        /\ UNCHANGED <<listVars, edition, disk, thinned, cache>>

\* Mutant: the chapter is looked up again, by its order, after the wait.
FetchedByOrder(c, kept) ==
    LET r == call[c]
        there == {u \in Present(chapter) : chapter[u].order = r.order}
    IN  /\ r.at = "fetching"
        /\ cache' = IF kept THEN [u \in Urls |->
                                    IF u \in there
                                    THEN [cache[u] EXCEPT ![r.index] = r.source]
                                    ELSE cache[u]]
                    ELSE cache
        /\ Reply(c, r, Answered(r, r.source, FALSE))
        /\ UNCHANGED <<listVars, edition, pages, disk, thinned>>

\* fetchImage and writeAtomic: kept under the chapter's id; keeping it may fail.
Fetched(c, kept) ==
    LET r == call[c]
    IN  /\ r.at = "fetching"
        /\ cache' = IF kept THEN [cache EXCEPT ![r.chapter][r.index] = r.source] ELSE cache
        /\ Reply(c, r, Answered(r, r.source, FALSE))
        /\ UNCHANGED <<listVars, edition, pages, disk, thinned>>

\* upstreamFailed: a 502, which no browser keeps.
Fails(c) ==
    /\ call[c].at # "answered"
    /\ Reply(c, call[c], NoCall)
    /\ UNCHANGED <<listVars, edition, pages, disk, thinned, cache>>

\* A download of the present edition is published; one is deleted (Downloads).
Downloaded(u) ==
    /\ u \in Offline \cap Present(chapter) /\ disk[u] = <<>> /\ PageCount[edition[u]] > 0
    /\ disk' = [disk EXCEPT ![u] = [i \in 1..PageCount[edition[u]] |-> Published(u, i)]]
    /\ UNCHANGED <<listVars, edition, pages, thinned, cache, browser, call>>

\* An archive goes at once, and so does what is left of a folder.
DeleteDownloaded(u) ==
    /\ disk[u] # <<>>
    /\ disk' = [disk EXCEPT ![u] = <<>>]
    /\ thinned' = thinned \ {u}
    /\ UNCHANGED <<listVars, edition, pages, cache, browser, call>>

\* A folder goes file by file, in no certain order, and stays as it is by then
\* when the server stops.
Without(files, k) ==
    [i \in 1..(Len(files) - 1) |-> IF i < k THEN files[i] ELSE files[i + 1]]

RemoveFile(u, k) ==
    /\ Len(disk[u]) > 1 /\ k \in 1..Len(disk[u])
    /\ disk' = [disk EXCEPT ![u] = Without(@, k)]
    /\ thinned' = thinned \cup {u}
    /\ UNCHANGED <<listVars, edition, pages, cache, browser, call>>

\* The source publishes a chapter anew.
Republish(u) ==
    /\ u \in Reissued /\ edition[u] < Len(PageCount)
    /\ edition' = [edition EXCEPT ![u] = @ + 1]
    /\ UNCHANGED <<listVars, pages, disk, thinned, cache, browser, call>>

\* max-age has passed, or the browser made room.
Forgotten(h) ==
    /\ browser[h] # NoImage
    /\ browser' = [browser EXCEPT ![h] = NoImage]
    /\ UNCHANGED <<listVars, edition, pages, disk, thinned, cache, call>>

\* Of ChapterList's operations a request can tell only those that move a
\* chapter to another order, as a refresh does.
Refresh ==
    /\ \E l \in Listings : FetchChapters(l)
    /\ UNCHANGED readerVars

Next ==
    \/ \E c \in Calls, u \in Urls, i \in Pages : ReadPage(c, u, i)
    \/ \E c \in Calls, u \in Urls : FetchChapterPages(c, u)
    \/ \E c \in Calls : ListArrives(c) \/ Resolved(c) \/ Fails(c)
    \/ \E c \in Calls, kept \in BOOLEAN : Fetched(c, kept)
    \/ \E u \in Urls : Downloaded(u) \/ DeleteDownloaded(u) \/ Republish(u)
    \/ \E u \in Urls, k \in Pages : RemoveFile(u, k)
    \/ \E h \in Held : Forgotten(h)
    \/ Refresh

Spec == ReaderInit /\ [][Next]_vars

\* Lists, files, answers and requests are of their kinds, and no list is
\* longer than the longest the source published (pages.ts:483-497).
ReaderTypeOK ==
    /\ chapter \in Table /\ backup \in Table
    /\ edition \in [Urls -> Editions]
    /\ pages \in [Urls -> Seq(PageRow)]
    /\ \A u \in Urls : Len(pages[u]) <= MostPages
    /\ disk \in [Urls -> Seq(Image)] /\ thinned \subseteq Urls
    /\ cache \in [Urls -> [Pages -> MaybeImage]]
    /\ browser \in [Held -> MaybeImage]
    /\ call \in [Calls -> Call]

\* A page request is answered with that page of the chapter that was at its
\* order when it came in, however the lists were refreshed or replaced
\* while it waited, and wherever the bytes were found (pages.ts:606-646).
\* Files are picked by their place: out of a download that is being taken away
\* it may be a later page of that chapter, and never an earlier one.
ServedIsThePage ==
    \A c \in Calls :
        call[c].image # NoImage =>
            /\ call[c].image.chapter = call[c].chapter
            /\ call[c].image.page >= call[c].index
            /\ ~call[c].thin => call[c].image.page = call[c].index

\* A stored list is the whole of one edition, or was made from files on disk:
\* two requests that both found none do not leave a mixture (pages.ts:483-497).
ListIsWhole ==
    \A u \in Urls :
        \/ \A i \in 1..Len(pages[u]) : pages[u][i].url = NoImage
        \/ \E e \in Editions :
              /\ Len(pages[u]) = PageCount[e]
              /\ \A i \in 1..Len(pages[u]) :
                    pages[u][i].url = [chapter |-> u, edition |-> e, page |-> i]

\* "Page images and covers never change behind their URL" (api.ts:32): what
\* the browser keeps for a page url is an image of the chapter at that url.
PageUrlIsFixed ==
    \A h \in Held :
        browser[h] # NoImage =>
            \E u \in Present(chapter) : chapter[u].order = h[1] /\ browser[h].chapter = u
=============================================================================
