------------------------------ MODULE WebReader ------------------------------
(***************************************************************************)
(* The reader of the web client (pages/ReaderPage.tsx): hopping between    *)
(* chapters while their page lists are being fetched, pages shown one at a *)
(* time, in pairs or as a strip, images that load late or not at all, and  *)
(* the progress it reports.  React runs an event, an answer or an effect   *)
(* at a time; each is an action.                                           *)
(*                                                                         *)
(* Left and right are directions of reading: what is modelled is forward   *)
(* and back.  Pages count from 0, as in the code.                          *)
(***************************************************************************)
EXTENDS Integers, FiniteSets, Sequences

CONSTANTS
    PageCounts,   \* the pages of each chapter, in the order of reading
    WidePages,    \* <<chapter, page>>: images wider than they are tall
    Resumes,      \* lastPageRead as the server may answer it
    Modes,        \* layouts the reader may be switched to
    Pairings,     \* "off", "on", "auto"
    PrefetchAhead,
    MaxPending    \* bound: lists being fetched at once

ChapterCount == Len(PageCounts)
ChapterNos == 1..ChapterCount
Count(c) == PageCounts[c]
LastOf(c) == Count(c) - 1

ASSUME WebReaderAssumption ==
    /\ PageCounts \in Seq(Nat \ {0}) /\ ChapterCount > 0
    /\ \A w \in WidePages : w[1] \in ChapterNos /\ w[2] \in 0..LastOf(w[1])
    /\ Resumes \subseteq Nat /\ Modes \subseteq {"paged", "strip"}
    /\ Pairings \subseteq {"off", "on", "auto"} /\ MaxPending \in Nat \ {0}

VARIABLES
    at,          \* the chapter of the address
    going,       \* the hop under way (changingChapter), or 0
    atEnd,       \* enterAtEnd
    pending,     \* fetchPages under way: the chapters asked for, oldest first
    result,      \* pagesResult: the chapter it holds, or what it says instead
    page, mode, pairing, offset,
    room,        \* roomForSpread: the window can hold two pages
    wide,        \* pages known to be wide
    images,      \* what became of the images asked for in this chapter
    anchor,      \* stripAnchor: a page, Pending or Free
    stripPage,   \* reportedStripPage
    report,      \* history: the progress the last step reported, or <<>>
    opened       \* history: how this chapter was opened and what became of it

paged == <<mode, pairing, offset, room>>
readerVars == <<at, going, atEnd, pending, result, page, mode, pairing, offset,
                room, wide, images, anchor, stripPage, report, opened>>

Fetching == 0
Failed == -1
Pending == -1
Free == -2
NoPage == -1

Prepared == result = at
Pages == 0..LastOf(at)
Without(s, i) == SubSeq(s, 1, i - 1) \o SubSeq(s, i + 1, Len(s))
Lesser(a, b) == IF a < b THEN a ELSE b

-----------------------------------------------------------------------------
(* Which pages are on screen.                                              *)

PairStart(target, off) ==
    IF target < off THEN 0 ELSE target - ((target - off) % 2)

\* A walk from the front: a wide page of the next two stands alone.
AutoPairStart(target) ==
    LET start[t \in Nat] ==
            IF t = 0 THEN 0
            ELSE LET s == start[t - 1]
                     next == IF {s, s + 1} \cap wide # {} THEN s + 1 ELSE s + 2
                 IN  IF next > t THEN s ELSE next
    IN  start[target]

\* Spreads are for turning pages, and a narrow window vetoes them.
SpreadActive == pairing # "off" /\ mode = "paged" /\ room
StartOf(target) ==
    IF pairing = "auto" THEN AutoPairStart(target) ELSE PairStart(target, offset)

SpreadFirst == IF SpreadActive THEN StartOf(page) ELSE page

\* Mutant: the last page of a chapter is paired with the one that is not there.
PairableAtEnd ==
    /\ SpreadActive
    /\ pairing = "auto" => {SpreadFirst, SpreadFirst + 1} \cap wide = {}
    /\ pairing = "on" => SpreadFirst >= offset

Pairable ==
    /\ SpreadActive
    /\ SpreadFirst + 1 <= LastOf(at)
    /\ IF pairing = "auto" THEN {SpreadFirst, SpreadFirst + 1} \cap wide = {}
       ELSE SpreadFirst >= offset

SpreadLast == IF Pairable THEN SpreadFirst + 1 ELSE SpreadFirst
Spread == SpreadFirst..SpreadLast
Ahead == (page + 1)..(page + PrefetchAhead)

\* Mutant: a step back is as long as the step that would go on.
BackwardByWidth ==
    IF SpreadFirst = 0 THEN -1 ELSE SpreadFirst - Cardinality(Spread)

\* The step back begins where a spread would, whether spreads are shown or not.
ForwardPage == SpreadLast + 1
BackwardPage == IF SpreadFirst = 0 THEN -1 ELSE StartOf(SpreadFirst - 1)

-----------------------------------------------------------------------------
ReaderInit ==
    /\ at \in ChapterNos
    /\ going = 0 /\ atEnd = FALSE
    /\ pending = <<at>> /\ result = Fetching
    /\ page = 0 /\ mode \in Modes /\ pairing \in Pairings /\ offset = 0 /\ room \in BOOLEAN
    /\ wide = {} /\ images = [p \in {} |-> ""]
    /\ anchor = Pending /\ stripPage = NoPage
    /\ report = <<>>
    /\ opened = [end |-> FALSE, crossed |-> FALSE, moved |-> FALSE]

\* openChapter: nothing while a hop is under way.
OpenChapter(target, end) ==
    /\ target \in ChapterNos /\ target # at /\ going = 0
    /\ going' = target
    /\ atEnd' = end
    /\ page' = 0
    /\ report' = <<>>
    /\ UNCHANGED <<at, pending, result, paged, wide, images,
                   anchor, stripPage, opened>>

\* The address changes, and the effect of the chapter asks for its pages.
Land ==
    /\ going # 0 /\ Len(pending) < MaxPending
    /\ at' = going
    /\ going' = 0
    /\ pending' = Append(pending, going)
    /\ result' = Fetching
    /\ page' = 0
    /\ wide' = {} /\ images' = [p \in {} |-> ""]
    /\ anchor' = Pending /\ stripPage' = NoPage
    /\ opened' = [end |-> atEnd, crossed |-> pending # <<>>, moved |-> FALSE]
    /\ report' = <<>>
    /\ UNCHANGED <<atEnd, paged>>

\* What the answer does to the place, whichever chapter it is of: the page it
\* says was read last, within its pages, or its last page.
Resumed(lastRead, count) ==
    LET resumeAt == IF atEnd THEN count - 1 ELSE Lesser(lastRead, count - 1)
    IN  /\ page' = resumeAt
        /\ stripPage' = resumeAt
        /\ anchor' = IF resumeAt > 0 THEN resumeAt ELSE Free
        /\ atEnd' = FALSE

\* Answers come in any order; the last to come is what the mutation holds.
Answered(i, lastRead) ==
    /\ i \in DOMAIN pending
    /\ pending' = Without(pending, i)
    /\ result' = pending[i]
    /\ Resumed(lastRead, Count(pending[i]))
    /\ report' = <<>>
    /\ UNCHANGED <<at, going, paged, wide, images, opened>>

FetchFailed(i) ==
    /\ i \in DOMAIN pending
    /\ pending' = Without(pending, i)
    /\ result' = Failed
    /\ Resumed(0, 1)
    /\ report' = <<>>
    /\ UNCHANGED <<at, going, paged, wide, images, opened>>

PageReports(p) == <<at, p, p = LastOf(at)>>

\* goToPage: past either end it hops; in a strip it scrolls and reports.
GoToPage(target) ==
    /\ Prepared
    /\ \/ target > LastOf(at) /\ OpenChapter(at + 1, FALSE)
       \/ target < 0 /\ OpenChapter(at - 1, TRUE)
       \/ /\ target \in Pages
          /\ page' = target
          /\ IF mode = "strip"
             THEN anchor' = target /\ stripPage' = target /\ report' = PageReports(target)
             ELSE UNCHANGED <<anchor, stripPage>> /\ report' = <<>>
          /\ opened' = [opened EXCEPT !.moved = TRUE]
          /\ UNCHANGED <<at, going, atEnd, pending, result, paged, wide, images>>

TurnForward == GoToPage(ForwardPage)
TurnBack == GoToPage(BackwardPage)
JumpTo(p) == p \in Pages /\ GoToPage(p)

-----------------------------------------------------------------------------
(* Images.                                                                 *)

FailedPages == {p \in DOMAIN images : images[p] = "failed"}
Becomes(p, state) == images' = [q \in DOMAIN images \cup {p} |->
                                    IF q = p THEN state ELSE images[q]]
Notes(p) == wide' = IF <<at, p>> \in WidePages THEN wide \cup {p} ELSE wide

\* Mutant: the last of the spread, failed or not.
SeenAnyway == SpreadLast

\* The furthest page of the spread that has not failed.
Seen == LET seen == Spread \ FailedPages
        IN  IF seen = {} THEN SpreadFirst
            ELSE CHOOSE p \in seen : \A q \in seen : q <= p

\* The first page of the spread loads: it reports for the spread.
LeadLoads ==
    /\ Prepared /\ mode = "paged" /\ SpreadFirst \notin FailedPages
    /\ Becomes(SpreadFirst, "loaded")
    /\ Notes(SpreadFirst)
    /\ report' = PageReports(Seen)
    /\ UNCHANGED <<at, going, atEnd, pending, result, page, paged, anchor, stripPage,
                   opened>>

\* Any other page loads: the second of a spread, a page of the strip, or one
\* prefetched.
PageLoads(p) ==
    /\ Prepared /\ p \in Pages \ FailedPages
    /\ mode = "paged" => p # SpreadFirst /\ p \in Spread \cup Ahead
    /\ p \notin DOMAIN images
    /\ Becomes(p, "loaded")
    /\ Notes(p)
    /\ report' = <<>>
    /\ UNCHANGED <<at, going, atEnd, pending, result, page, paged, anchor, stripPage,
                   opened>>

FailPage(p) ==
    /\ Prepared /\ p \notin DOMAIN images
    /\ p \in IF mode = "paged" THEN Spread ELSE Pages
    /\ Becomes(p, "failed")
    /\ report' = <<>>
    /\ UNCHANGED <<at, going, atEnd, pending, result, page, paged, wide, anchor,
                   stripPage, opened>>

RetryPage(p) ==
    /\ Prepared /\ p \in FailedPages
    /\ images' = [q \in DOMAIN images \ {p} |-> images[q]]
    /\ report' = <<>>
    /\ UNCHANGED <<at, going, atEnd, pending, result, page, paged, wide, anchor,
                   stripPage, opened>>

-----------------------------------------------------------------------------
(* Layout and strip.                                                       *)

SetMode(next) ==
    /\ Prepared /\ next \in Modes \ {mode}
    /\ mode' = next
    /\ anchor' = IF next = "strip" THEN IF page > 0 THEN page ELSE Free ELSE anchor
    /\ report' = <<>>
    /\ UNCHANGED <<at, going, atEnd, pending, result, page, pairing, offset, room,
                   wide, images, stripPage, opened>>

SetSpread(next, off) ==
    /\ Prepared /\ next \in Pairings /\ off \in 0..1 /\ <<next, off>> # <<pairing, offset>>
    /\ pairing' = next /\ offset' = off
    /\ report' = <<>>
    /\ UNCHANGED <<at, going, atEnd, pending, result, page, mode, room, wide, images,
                   anchor, stripPage, opened>>

\* The window is made smaller or larger (the media query SPREAD_VIEWPORT).
Resize ==
    /\ room' = ~room
    /\ report' = <<>>
    /\ UNCHANGED <<at, going, atEnd, pending, result, page, mode, pairing, offset,
                   wide, images, anchor, stripPage, opened>>

\* updateStripProgress: the page at the marker.  While the resumed page is
\* held at the top nothing is reported.
StripUpdate(visible) ==
    LET p == IF anchor >= 0 THEN Lesser(anchor, LastOf(at)) ELSE visible
    IN  /\ Prepared /\ mode = "strip" /\ anchor # Pending
        /\ p \in Pages
        /\ page' = p /\ stripPage' = p
        /\ report' = IF stripPage # p /\ anchor = Free THEN PageReports(p) ELSE <<>>
        /\ UNCHANGED <<at, going, atEnd, pending, result, paged, wide, images,
                       anchor, opened>>

\* The reader scrolls, or auto-scroll does: the anchor lets go.
ReleaseAnchor ==
    /\ Prepared /\ mode = "strip" /\ anchor >= 0
    /\ anchor' = Free
    /\ opened' = [opened EXCEPT !.moved = TRUE]
    /\ report' = <<>>
    /\ UNCHANGED <<at, going, atEnd, pending, result, page, paged, wide, images,
                   stripPage>>

ReaderNext ==
    \/ \E target \in ChapterNos : OpenChapter(target, FALSE)
    \/ Land
    \/ \E i \in 1..MaxPending :
          FetchFailed(i) \/ \E lastRead \in Resumes : Answered(i, lastRead)
    \/ TurnForward \/ TurnBack \/ \E p \in Pages : JumpTo(p)
    \/ LeadLoads
    \/ \E p \in Pages : PageLoads(p) \/ FailPage(p) \/ RetryPage(p) \/ StripUpdate(p)
    \/ \E next \in Modes : SetMode(next)
    \/ \E next \in Pairings, off \in 0..1 : SetSpread(next, off)
    \/ Resize
    \/ ReleaseAnchor

ReaderPageSpec == ReaderInit /\ [][ReaderNext]_readerVars

-----------------------------------------------------------------------------
WebReaderTypeOK ==
    /\ at \in ChapterNos /\ going \in 0..ChapterCount /\ atEnd \in BOOLEAN
    /\ pending \in Seq(ChapterNos) /\ result \in {Failed, Fetching} \cup ChapterNos
    /\ mode \in Modes /\ pairing \in Pairings /\ offset \in 0..1 /\ room \in BOOLEAN
    /\ page \in Nat
    /\ Prepared => wide \subseteq Pages /\ DOMAIN images \subseteq Pages /\ Spread \subseteq Pages
    /\ anchor \in {Pending, Free} \cup Nat

\* Turning on skips no page, whatever pages turn out to be wide meanwhile: the
\* page turned to is on screen and follows what was on screen.  Turning back
\* skips none where spreads are shown; where they are not, it skips one page at
\* most (ReaderPage.tsx:1187 asks nothing of spreadActive).  Backing out of a
\* chapter comes to the last page of the one before, unless an earlier answer
\* was still to come (797); and no gesture redirects a hop under way (795).
Forward ==
    IF going' = 0 THEN SpreadFirst' <= SpreadLast + 1 /\ SpreadLast + 1 \in Spread'
                  ELSE SpreadLast = LastOf(at)
Back ==
    IF going' # 0 THEN SpreadFirst = 0
    ELSE /\ SpreadFirst' < SpreadFirst
         /\ IF SpreadActive THEN SpreadFirst - 1 \in Spread'
                            ELSE SpreadFirst' >= SpreadFirst - 2

TurnsReadOn ==
    /\ mode = "paged" /\ going = 0 /\ TurnForward => Forward
    /\ mode = "paged" /\ going = 0 /\ TurnBack => Back
    /\ going # 0 => going' = going \/ (going' = 0 /\ at' = going)
    /\ Prepared' => page' \in Spread'
    /\ (Prepared /\ going = 0 /\ opened.end /\ ~opened.crossed /\ ~opened.moved)'
          => page' = LastOf(at')

\* What is reported is on screen and has not failed, the chapter is read only
\* by its last page, and a strip held where it was resumed reports nothing
\* until the reader moves (ReaderPage.tsx:1979, 1707).
ReportsWereSeen ==
    report' # <<>> =>
     /\ Prepared /\ report'[1] = at
     /\ mode = "paged" => report'[2] \in Spread
          /\ (report'[2] # SpreadFirst => report'[2] \notin FailedPages)
     /\ report'[3] => report'[2] = LastOf(at)
     /\ mode = "strip" /\ anchor >= 0 => opened'.moved
=============================================================================
