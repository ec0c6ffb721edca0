----------------------------- MODULE SourceSites -----------------------------
(***************************************************************************)
(* How the sources read their sites (sources/themes, sources/sites): the   *)
(* listings a reader pages through, the chapter lists walked request by    *)
(* request while the site goes on publishing, the page lists, the filters  *)
(* of a search and the key of MangaHub.  A title or a chapter is a number  *)
(* and a site keeps them newest first; what a card or a row says of itself *)
(* is left out but for those that must not be listed.                      *)
(***************************************************************************)
EXTENDS Naturals, Sequences, SequencesExt

CONSTANTS
    PageSize,      \* PAGE_SIZE, perPage, FEED_PAGE: rows of one answer
    MaxOffset,     \* where MangaDex stops a listing
    MaxFeedPages,  \* requests ComicK spends on one chapter list
    MaxPublished,  \* bound: titles or chapters a site ever has
    Asks           \* overlapping questions to MangaHub

ASSUME SourceSitesAssumption ==
    /\ PageSize \in Nat \ {0} /\ MaxOffset \in Nat /\ MaxFeedPages \in Nat \ {0}
    /\ MaxOffset % PageSize = 0 /\ MaxPublished \in Nat

VARIABLES
    site,     \* what this site is like, fixed
    shelf,    \* what it has now, newest first
    visit,    \* the call under way, or answered
    mhub,      \* the mhub_access cookie: "none", "stale" or "fresh"
    asks      \* the questions that need it

siteVars == <<site, shelf, visit, mhub, asks>>

Engines == {"madara", "mangathemesia", "keyoapp", "iken", "mangahub", "mangacatalog",
            "mangadex", "comick", "weebcentral", "asura"}
Forms == {"page", "manga-ajax", "ajax"}
NoVisit == [kind |-> "none"]
FirstOnes(n) == Reverse([k \in 1..n |-> k])
FewerOf(m, n) == IF m <= n THEN m ELSE n

\* The rows of s that can be listed, in their order.
Readable(s) ==
    FoldLeft(LAMBDA kept, x : IF x \in site.odd THEN kept ELSE Append(kept, x), <<>>, s)

\* The rows of s after the first `from`, a page of them.
SliceOf(s, from) == SubSeq(s, from + 1, FewerOf(from + PageSize, Len(s)))
Offset(page) == (page - 1) * PageSize

-----------------------------------------------------------------------------
(* Selectors of an override and of the theme: the set of the markups one   *)
(* matches (themes/selectors.ts).                                          *)

\* Mutant: an override that cannot be compiled takes the theme's down with it.
WidenAnyway(override, fallback) ==
    IF override = "broken" THEN {} ELSE {override, fallback}

Parses(candidate) == candidate # "broken"
Widen(override, fallback) ==
    IF override = "" \/ ~Parses(override) THEN {fallback} ELSE {override, fallback}
Selector(override, fallback) ==
    IF override = "" \/ ~Parses(override) THEN {fallback} ELSE {override}

\* The first of the chain that is in the card, whatever stands before it there.
FirstIn(card, chain) == chain[Min({i \in DOMAIN chain : Parses(chain[i]) /\ chain[i] \in card})]

\* A card is listed under the link with the words, not under the picture's.
Linked == FirstIn({"h3 a", "a"}, <<"broken", "h3 a", "a">>) = "h3 a"
Cards == IF Linked /\ site.markup \in Widen(site.override, "theme") THEN shelf ELSE <<>>

-----------------------------------------------------------------------------
(* Listings: what one page shows and whether another is said to follow.    *)

Answer(items, more) == [items |-> ToSet(items), more |-> more]

\* The archive's loader, which some installs answer alone, counts from zero.
MadaraList(from) == Answer(Readable(SliceOf(Cards, from)), Len(Cards) > from + PageSize)
ListingViaLoadMore(page) == LET sent == page - 1 IN MadaraList(sent * PageSize)
MadaraListing(page) ==
    IF site.client THEN ListingViaLoadMore(page) ELSE MadaraList(Offset(page))

\* Mutant: a search is paged on the number the archive reads.
BrowsedAlike(searching) == site.param

\* The archive reads its own page number and a search WordPress's.  A number
\* sent under the name it does not read gets page one.
BrowseParam(searching) == IF searching THEN "paged" ELSE site.param
ReadParam(searching) == IF searching THEN "paged" ELSE site.param

ThemesiaList(page) ==
    LET given == IF BrowseParam(site.searching) = ReadParam(site.searching) THEN page ELSE 1
    IN  Answer(Readable(SliceOf(Cards, Offset(given))), Len(Cards) > given * PageSize)

\* Sites with all they have on one page: the whole of it is filtered here and
\* a second page is empty.
OnePage(page, items) == IF page > 1 THEN Answer(<<>>, FALSE) ELSE Answer(items, FALSE)
ClientSearch(page) == OnePage(page, Readable(Cards))
KeyoappList(page) == OnePage(page, Readable(Cards))
CatalogList(page) == OnePage(page, shelf)

\* The featured row, or the whole catalogue where an install has none.
KeyoappPopular(featured) == IF Readable(featured) # <<>> THEN Readable(featured) ELSE Readable(Cards)

\* Iken counts the novels it does not show.
IkenQuery(page) ==
    Answer(Readable(SliceOf(shelf, Offset(page))), Len(shelf) > page * PageSize)

\* No total: a full page is the only evidence of another.
MangaHubList(page) ==
    LET rows == SliceOf(shelf, Offset(page)) IN Answer(rows, Len(rows) = PageSize)
ComicKList(page) ==
    LET rows == SliceOf(shelf, Offset(page)) IN Answer(rows, Len(rows) >= PageSize)

\* The same, counted after the cards that could not be read are gone.
WeebCentralList(page) ==
    LET rows == Readable(SliceOf(shelf, Offset(page))) IN Answer(rows, Len(rows) >= PageSize)

MangaDexList(page) ==
    IF Offset(page) >= MaxOffset THEN Answer(<<>>, FALSE)
    ELSE Answer(SliceOf(shelf, Offset(page)),
                Offset(page) + PageSize < FewerOf(Len(shelf), MaxOffset))

\* The total before the flag, which the last page lacks.
AsuraList(page) ==
    LET rows == SliceOf(shelf, Offset(page))
    IN  Answer(rows, IF site.total THEN Offset(page) + Len(rows) < Len(shelf) ELSE rows # <<>>)

ListingPage(page) ==
    CASE site.engine = "madara" -> MadaraListing(page)
      [] site.engine = "mangathemesia" ->
            IF site.client THEN ClientSearch(page) ELSE ThemesiaList(page)
      [] site.engine = "keyoapp" -> KeyoappList(page)
      [] site.engine = "mangacatalog" -> CatalogList(page)
      [] site.engine = "iken" -> IkenQuery(page)
      [] site.engine = "mangahub" -> MangaHubList(page)
      [] site.engine = "comick" -> ComicKList(page)
      [] site.engine = "weebcentral" -> WeebCentralList(page)
      [] site.engine = "mangadex" -> MangaDexList(page)
      [] site.engine = "asura" -> AsuraList(page)

OpenListing ==
    /\ visit = NoVisit
    /\ visit' = [kind |-> "listing", page |-> 1, got |-> {}, more |-> TRUE,
                 from |-> ToSet(shelf), news |-> 0, clean |-> TRUE]
    /\ UNCHANGED <<site, shelf, mhub, asks>>

ListPage ==
    /\ visit.kind = "listing" /\ visit.more
    /\ LET answer == ListingPage(visit.page)
       IN  visit' = [visit EXCEPT !.page = @ + 1, !.got = @ \cup answer.items,
                                  !.more = answer.more]
    /\ UNCHANGED <<site, shelf, mhub, asks>>

OpenPopular ==
    /\ visit = NoVisit /\ site.engine = "keyoapp"
    /\ \E featured \in {<<>>, SliceOf(shelf, 0)} :
          visit' = [kind |-> "popular", got |-> ToSet(KeyoappPopular(featured))]
    /\ UNCHANGED <<site, shelf, mhub, asks>>

-----------------------------------------------------------------------------
(* The site goes on while it is read; bound: a page of news in one walk,   *)
(* one thing taken away.                                                   *)

Publish ==
    /\ visit.kind \in {"listing", "feed"} /\ visit.news < PageSize
    /\ shelf' = <<IF shelf = <<>> THEN 1 ELSE shelf[1] + 1>> \o shelf
    /\ visit' = [visit EXCEPT !.news = @ + 1]
    /\ UNCHANGED <<site, mhub, asks>>

Withdraw ==
    /\ visit.kind \in {"listing", "feed"}
    /\ visit.clean
    /\ \E k \in DOMAIN shelf : shelf' = RemoveAt(shelf, k)
    /\ visit' = [visit EXCEPT !.clean = FALSE]
    /\ UNCHANGED <<site, mhub, asks>>

-----------------------------------------------------------------------------
(* Chapter lists.                                                          *)

\* The first of each url.
DedupeChapters(s) ==
    LET first == SelectSeq([k \in DOMAIN s |-> k], LAMBDA k : \A j \in 1..(k - 1) : s[j] # s[k])
    IN  [k \in DOMAIN first |-> s[first[k]]]

OpenFeed ==
    /\ visit = NoVisit
    /\ visit' = [kind |-> "feed", page |-> 1, got |-> <<>>, status |-> "reading",
                 from |-> ToSet(shelf), news |-> 0, clean |-> TRUE, whole |-> TRUE]
    /\ UNCHANGED <<site, shelf, mhub, asks>>

\* What a finished walk answers: the list, or why there is none.
FeedSettled(got, outside) ==
    IF got # <<>> THEN "list" ELSE IF outside THEN "licensed" ELSE "none"

Fed(got, ended, outside) ==
    visit' = [visit EXCEPT !.page = @ + 1, !.got = got,
                           !.status = IF ended THEN FeedSettled(got, outside) ELSE "reading"]

\* Mutant: the first answer is taken for the whole feed.
FeedOnce(part) == TRUE
FeedEnds(part) == Offset(visit.page) + PageSize >= Len(shelf) \/ part = <<>>

MangaDexFeed ==
    LET part == SliceOf(shelf, Offset(visit.page))
        got == visit.got \o Readable(part)
    IN  Fed(got, FeedEnds(part), Len(got) < Offset(visit.page) + Len(part))

ComicKFeed ==
    LET part == SliceOf(shelf, Offset(visit.page))
        got == visit.got \o part
    IN  Fed(got, \/ part = <<>>
                 \/ site.total /\ Len(got) >= Len(shelf)
                 \/ Len(part) < PageSize
                 \/ visit.page = MaxFeedPages, FALSE)

\* Iken keeps its chapters oldest first.  What the first answer embeds is a
\* slice, which a second request replaces, if it is answered, with more.
IkenSettled(chapters, whole) ==
    LET got == Reverse(Readable(chapters))
    IN  visit' = [visit EXCEPT !.got = got, !.status = FeedSettled(got, FALSE), !.whole = whole]

IkenFeed ==
    LET embedded == IF visit.page = 1 THEN SliceOf(Reverse(shelf), 0) ELSE visit.got
        total == IF site.total THEN Len(shelf) ELSE 0
    IN  \/ /\ visit.page = 1 /\ total > Len(embedded)
           /\ visit' = [visit EXCEPT !.page = 2, !.got = embedded]
        \/ /\ visit.page = 1 /\ total <= Len(embedded)
           /\ IkenSettled(embedded, Len(embedded) = Len(shelf))
        \/ visit.page = 2 /\ IkenSettled(embedded, FALSE)
        \/ /\ visit.page = 2 /\ Len(shelf) > Len(embedded)
           /\ IkenSettled(Reverse(shelf), TRUE)

\* The interface of MangaHub lists the oldest first.
MangaHubFeed == LET oldestFirst == Reverse(shelf) IN Fed(Reverse(oldestFirst), TRUE, FALSE)

\* One document or one answer; rows without a name, not out yet or to be paid
\* for are not listed.
ThemesiaFeed == Fed(DedupeChapters(Readable(shelf)), TRUE, FALSE)
KeyoappFeed == Fed(DedupeChapters(Readable(shelf)), TRUE, FALSE)
CatalogFeed == Fed(DedupeChapters(Readable(shelf)), TRUE, FALSE)
WeebCentralFeed == Fed(DedupeChapters(Readable(shelf)), TRUE, FALSE)
AsuraFeed == Fed(shelf, TRUE, FALSE)

\* The declared form of a Madara site comes first and the rest stay behind it,
\* except where the declaration is that there is no other.
AttemptOrder(mode) ==
    CASE mode = "page" -> <<"page">>
      [] mode = "manga-ajax" -> <<"manga-ajax", "page", "ajax">>
      [] mode = "ajax" -> <<"ajax", "page", "manga-ajax">>
      [] mode = "auto" -> <<"page", "manga-ajax", "ajax">>

\* parseChapters, of what one form answers: a form that fails is one without.
MadaraRows(form) == IF form \in site.offers THEN DedupeChapters(Readable(shelf)) ELSE <<>>

MadaraFeed ==
    LET order == AttemptOrder(site.mode)
        rows == MadaraRows(order[visit.page])
    IN  Fed(rows, rows # <<>> \/ visit.page = Len(order), FALSE)

FeedStep ==
    /\ visit.kind = "feed" /\ visit.status = "reading"
    /\ CASE site.engine = "mangadex" -> MangaDexFeed
         [] site.engine = "comick" -> ComicKFeed
         [] site.engine = "iken" -> IkenFeed
         [] site.engine = "mangahub" -> MangaHubFeed
         [] site.engine = "mangathemesia" -> ThemesiaFeed
         [] site.engine = "keyoapp" -> KeyoappFeed
         [] site.engine = "mangacatalog" -> CatalogFeed
         [] site.engine = "weebcentral" -> WeebCentralFeed
         [] site.engine = "asura" -> AsuraFeed
         [] site.engine = "madara" -> MadaraFeed
    /\ UNCHANGED <<site, shelf, mhub, asks>>

-----------------------------------------------------------------------------
(* Page lists.  An image is its page's number; 0 has no address, 8 is a    *)
(* placeholder and 9 belongs to the theme.  A list of none is an error.    *)

\* A page of HTML holds placeholders and the theme's own pictures, an answer
\* of an interface neither.
Marks ==
    CASE site.engine = "mangadex" -> {<<>>, <<1, 2>>}
      [] site.engine \in {"iken", "comick"} -> {<<>>, <<0>>, <<1, 0, 2>>, <<2, 0, 1>>}
      [] OTHER -> {<<>>, <<0, 8>>, <<9, 1, 8, 2>>, <<1, 0, 2>>}
PageDocuments == [locked : BOOLEAN, script : {<<>>, <<1, 2>>}, host : BOOLEAN, marks : Marks]

\* What is taken from the markup: not what has no address or loads later.
Marked(doc) == SelectSeq(doc.marks, LAMBDA m : m \notin {0, 8})

\* Mutant: a script that yields nothing still answers for the document.
ProtectedOnly(doc) == doc.script
\* The protector's blob, decoded: none where it is absent or cannot be.
MadaraPages(doc) == IF doc.script # <<>> THEN doc.script ELSE Marked(doc)

\* ts_reader's images, or the markup's without the theme's own.
ThemesiaPages(doc) ==
    IF doc.script # <<>> THEN doc.script ELSE SelectSeq(Marked(doc), LAMBDA m : m # 9)

\* The ids need the host they hang from.
KeyoappPages(doc) ==
    IF doc.script = <<>> THEN Marked(doc) ELSE IF doc.host THEN doc.script ELSE <<>>

\* The originals, or the smaller copies.
MangaDexPages(doc) == IF doc.script # <<>> THEN doc.script ELSE doc.marks

IkenPages(doc) ==
    IF doc.locked THEN <<>>
    ELSE SelectSeq(SortSeq(doc.marks, LAMBDA m, n : m < n), LAMBDA m : m # 0)
AsuraPages(doc) == IF doc.locked THEN <<>> ELSE doc.script
MangaHubPages(doc) == doc.script
ComicKPages(doc) == SelectSeq(doc.marks, LAMBDA m : m # 0)
WeebCentralPages(doc) == Marked(doc)
CatalogPages(doc) == Marked(doc)

PagesRead(doc) ==
    CASE site.engine = "madara" -> MadaraPages(doc)
      [] site.engine = "mangathemesia" -> ThemesiaPages(doc)
      [] site.engine = "keyoapp" -> KeyoappPages(doc)
      [] site.engine = "iken" -> IkenPages(doc)
      [] site.engine = "mangahub" -> MangaHubPages(doc)
      [] site.engine = "mangacatalog" -> CatalogPages(doc)
      [] site.engine = "mangadex" -> MangaDexPages(doc)
      [] site.engine = "comick" -> ComicKPages(doc)
      [] site.engine = "weebcentral" -> WeebCentralPages(doc)
      [] site.engine = "asura" -> AsuraPages(doc)

GetPageList ==
    /\ visit = NoVisit /\ shelf = <<>>
    /\ \E doc \in PageDocuments :
          visit' = [kind |-> "pages", doc |-> doc, list |-> PagesRead(doc)]
    /\ UNCHANGED <<site, shelf, mhub, asks>>

-----------------------------------------------------------------------------
(* The filters of a search of MangaDex.                                    *)

Ratings == {"safe", "suggestive", "erotica", "pornographic"}
Changes ==
    [filter : {"sort"}, key : {"relevance", "title"}]
      \cup [filter : {"rating"}, key : Ratings, on : BOOLEAN]
      \cup [filter : {"none"}]

Change(p, c) ==
    CASE c.filter = "sort" ->
            [p EXCEPT !.order = @ \cup
                {IF c.key = "relevance" /\ ~p.query THEN "followedCount" ELSE c.key}]
      [] c.filter = "rating" ->
            [p EXCEPT !.touched = TRUE, !.ratings = IF c.on THEN @ \cup {c.key} ELSE @]
      [] OTHER -> p

ApplyFilters(query, changes) ==
    LET p == FoldLeft(Change, [query |-> query, order |-> {}, ratings |-> {}, touched |-> FALSE],
                      changes)
    IN  [p EXCEPT !.ratings = IF p.touched /\ @ # {} THEN @ ELSE {"safe", "suggestive"}]

\* A search without an order of its own gets one.
MangaDexSearch(query, changes) ==
    LET p == ApplyFilters(query, changes)
    IN  [p EXCEPT !.order = IF @ # {} THEN @
                            ELSE {IF query THEN "relevance" ELSE "followedCount"}]

Search ==
    /\ visit = NoVisit /\ shelf = <<>> /\ site.engine = "mangadex"
    /\ \E query \in BOOLEAN : \E c, d \in Changes :
          visit' = [kind |-> "search", changes |-> <<c, d>>,
                    params |-> MangaDexSearch(query, <<c, d>>)]
    /\ UNCHANGED <<site, shelf, mhub, asks>>

-----------------------------------------------------------------------------
(* The key of MangaHub: handed out by the site with a chapter page, carried *)
(* to the interface by hand, dead whenever the interface says so.           *)

NoAsk == [at |-> "idle", key |-> "unasked"]
AskMoves(a, at) == asks' = [asks EXCEPT ![a].at = at]
Unasked == \A a \in Asks : asks[a] = NoAsk

\* Mutant: a key that is refused is renewed, and one that was never had is not.
RefusedKey == mhub = "stale"
BadKey == mhub # "fresh"

Ask(a) ==
    /\ asks[a].at = "idle" /\ site.engine = "mangahub" /\ visit = NoVisit /\ shelf = <<>>
    /\ \/ BadKey /\ AskMoves(a, "renew")
       \/ mhub = "fresh" /\ AskMoves(a, "done")
       \/ ~BadKey /\ mhub # "fresh" /\ AskMoves(a, "nokey")
       \/ mhub # "none" /\ AskMoves(a, "failed")
    /\ UNCHANGED <<site, shelf, visit, mhub>>

\* The page may bring a key even where it is not found, or bring none.
RefreshKey(a) ==
    /\ asks[a].at = "renew"
    /\ \/ /\ mhub' = "fresh"
          /\ asks' = [asks EXCEPT ![a] = [at |-> "again", key |-> "brought"]]
       \/ /\ asks' = [asks EXCEPT ![a] = [at |-> "again", key |-> "missed"]]
          /\ UNCHANGED mhub
    /\ UNCHANGED <<site, shelf, visit>>

AskAgain(a) ==
    /\ asks[a].at = "again"
    /\ \/ mhub = "fresh" /\ AskMoves(a, "done")
       \/ mhub # "fresh" /\ AskMoves(a, "nokey")
       \/ mhub # "none" /\ AskMoves(a, "failed")
    /\ UNCHANGED <<site, shelf, visit, mhub>>

KeyExpires ==
    /\ mhub = "fresh" /\ ~Unasked
    /\ mhub' = "stale"
    /\ asks' = [a \in Asks |-> [asks[a] EXCEPT !.key = IF @ = "brought" THEN "died" ELSE @]]
    /\ UNCHANGED <<site, shelf, visit>>

-----------------------------------------------------------------------------
SitesInit ==
    /\ site \in [engine : Engines, odd : {{}, {2}, 1..MaxPublished}, total : BOOLEAN,
                 mode : Forms \cup {"auto"}, offers : SUBSET Forms, client : BOOLEAN,
                 override : {"", "broken", "skin"}, markup : {"theme", "skin"},
                 param : {"page", "paged"}, searching : BOOLEAN]
    /\ site.engine \notin {"asura", "iken", "comick"} => site.total
    /\ site.engine # "madara" => site.mode = "auto" /\ site.offers = Forms
    /\ site.engine \notin {"madara", "mangathemesia"} \/ site.odd # {} \/ site.override # ""
          => ~site.client
    /\ site.engine # "mangathemesia" \/ site.odd # {} \/ site.override # "" =>
          site.param = "page" /\ ~site.searching
    /\ site.engine \notin {"madara", "mangathemesia", "keyoapp"} \/ site.odd # {} =>
          site.override = "" /\ site.markup = "theme"
    /\ site.mode # "auto" => site.odd = {} /\ site.override = "" /\ site.markup = "theme"
    /\ \E n \in 0..(MaxPublished - PageSize) :
          /\ shelf = FirstOnes(n)
          /\ site.mode # "auto" \/ site.offers # Forms => n = PageSize /\ ~site.client
    /\ visit = NoVisit
    /\ mhub = "none"
    /\ asks = [a \in Asks |-> NoAsk]

SitesNext ==
    \/ /\ Unasked
       /\ \/ OpenListing \/ ListPage \/ OpenPopular \/ OpenFeed \/ FeedStep
          \/ Publish \/ Withdraw \/ GetPageList \/ Search
    \/ \E a \in Asks : Ask(a) \/ RefreshKey(a) \/ AskAgain(a)
    \/ KeyExpires

SitesSpec == SitesInit /\ [][SitesNext]_siteVars

-----------------------------------------------------------------------------
\* What is kept is of its kind, and no walk goes on past the requests a shelf
\* can ask for, whatever is put on or taken off it meanwhile.
SitesTypeOK ==
    /\ shelf \in Seq(1..MaxPublished)
    /\ mhub \in {"none", "stale", "fresh"}
    /\ asks \in [Asks -> [at : {"idle", "renew", "again", "done", "nokey", "failed"},
                        key : {"unasked", "brought", "missed", "died"}]]
    /\ visit.kind \in {"listing", "feed"} => visit.page \in 1..(MaxPublished \div PageSize + 3)

\* Whether x stands within the first `limit` places now.
Within(limit, x) == \E k \in DOMAIN shelf : shelf[k] = x /\ k <= limit

\* A listing read to its end has shown every title that was there when it
\* was opened and is still within reach: what is published meanwhile pushes
\* titles on to the next page and never past the reader.  Weeb Central alone
\* takes a page with an unreadable card for the last (weebcentral.ts:119).
ListingIsWhole ==
    (/\ visit.kind = "listing" /\ ~visit.more /\ visit.clean
     /\ site.markup = "theme" \/ site.override = "skin"
     /\ site.engine = "weebcentral" => site.odd = {})
       => \A x \in visit.from \ site.odd :
             (site.engine = "mangadex" => Within(MaxOffset, x)) => x \in visit.got

\* A Popular tab is empty only on a site that has nothing (keyoapp.ts:160-165).
PopularIsNotEmpty ==
    visit.kind = "popular" /\ site.markup = "theme" /\ visit.got = {} => Readable(shelf) = <<>>

\* A chapter list that is answered lacks none of the chapters that could be
\* read when it was asked for, its first row is the newest, and there is "no
\* list" only where the site shows none (mangadex.ts:11-13, util.ts:200-205).
FeedIsWhole ==
    visit.kind = "feed" /\ visit.status # "reading" =>
        /\ LET got == DedupeChapters(visit.got)
           IN  \A j, k \in DOMAIN got : j < k => got[j] > got[k]
        /\ (/\ visit.clean /\ visit.whole
            /\ ToSet(AttemptOrder(site.mode)) \cap site.offers # {})
              => \A x \in visit.from \ site.odd :
                    (site.engine = "comick" => Within(MaxFeedPages * PageSize, x))
                       => x \in ToSet(visit.got)
        /\ visit.status = "licensed" => site.odd # {}

\* A chapter opens with all its pages in their order and nothing that is no
\* page, from whichever part of the document has them, or it does not open.
PagesInOrder ==
    visit.kind = "pages" =>
        LET doc == visit.doc
            scripted == site.engine \notin {"iken", "comick", "weebcentral", "mangacatalog"}
            marked == site.engine \notin {"asura", "mangahub"}
            held == (IF scripted THEN ToSet(doc.script) ELSE {})
                      \cup (IF marked THEN ToSet(doc.marks) ELSE {})
        IN  /\ ToSet(visit.list) \cap {0, 8} = {}
            /\ site.engine = "mangathemesia" => 9 \notin ToSet(visit.list)
            /\ visit.list # <<>> => SelectSeq(visit.list, LAMBDA m : m \in {1, 2}) \in
                   {<<1, 2>>} \cup (IF site.engine = "comick" THEN {<<2, 1>>} ELSE {})
            /\ visit.list = <<>> /\ {1, 2} \subseteq held =>
                   \/ doc.locked /\ site.engine \in {"iken", "asura"}
                   \/ ~doc.host /\ site.engine = "keyoapp"

\* A search names one order at least, asks for relevance only with words to
\* be relevant to, and shows what is not for everyone only to who ticked it.
SearchIsLawful ==
    visit.kind = "search" =>
        LET p == visit.params IN
        /\ p.order # {} /\ p.ratings # {}
        /\ "relevance" \in p.order => p.query
        /\ \A r \in p.ratings \cap {"erotica", "pornographic"} :
              \E c \in ToSet(visit.changes) : c.filter = "rating" /\ c.key = r /\ c.on

\* A question fails for want of a key only when the key brought for it has
\* died since, or none was to be had, though questions overlap and share one
\* (mangahub.ts:16-20).
KeyIsRenewed ==
    \A a \in Asks : asks[a].at = "nokey" => asks[a].key \in {"missed", "died"}

\* All that is asked of what a site is read for.
SitesAreRead ==
    /\ ListingIsWhole /\ PopularIsNotEmpty /\ FeedIsWhole
    /\ PagesInOrder /\ SearchIsLawful
=============================================================================
