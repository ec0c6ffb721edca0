----------------------------- MODULE WebChapters ----------------------------
(***************************************************************************)
(* A title's chapter list (ChapterList in web/src/pages/MangaDetailPage)   *)
(* and the Downloads screen (DownloadsPage, utils/downloads.ts): two views *)
(* of one queue, kept true by asking again; the list's filter, order and   *)
(* scanlation, kept with the title; the counting of pages, three chapters  *)
(* at a time; the title that may be in the library already, and the picker *)
(* of a tracker's match.  The downloader itself is that of Downloads.      *)
(*                                                                         *)
(* A query that is asked again answers the later asking only.              *)
(***************************************************************************)
EXTENDS Integers, Sequences, SequencesExt, FiniteSets

CONSTANTS
    Chapters,      \* the chapters of the title that is downloaded from
    AlreadyRead,   \* those of them that are read
    Scanlations,  \* two titles: the scanlations each list has, the busiest first
    Stored,        \* the views a title may have: at the server, or in the browser
    Countable,     \* chapters whose pages are not counted yet
    Rows,          \* the libraries that may be there when a title is added
    MaxOps,        \* bound: requests of the list that are out at once
    MaxRequests,   \* bound: requests made, and changes of view
    MaxMoves       \* bound: walks and runs made

None == [scanlator |-> "none", filter |-> "all", order |-> "none"]
IsChapterView(v) ==
    /\ DOMAIN v = {"scanlator", "filter", "order"}
    /\ v.filter \in {"all", "unread", "read", "bookmarked"} /\ v.order \in {"asc", "desc"}

ASSUME ChaptersAssumption ==
    /\ IsFiniteSet(Chapters) /\ Chapters \subseteq Nat /\ AlreadyRead \subseteq Chapters /\ Countable \in Nat
    /\ (\A v \in Stored : v = None \/ IsChapterView(v)) /\ Scanlations \in [1..2 -> Seq(STRING)]
    /\ \A rows \in Rows : rows \in Seq(ToSet(rows))
    /\ MaxOps \in Nat \ {0} /\ MaxRequests \in Nat /\ MaxMoves \in Nat

VARIABLES
    doing,    \* "downloads", "view", "counting", "adding", "matching", or "nothing" yet
    server,   \* what is on disk, queued, in error; is the downloader on; did the reader pause it
    screen,   \* which of the two views, what it knows, which entries it saw queued since
    asks,     \* the two queries: not out, out, or their answer on its way
    ops,      \* requests that change something
    trouble,  \* one of them was refused, or its answer was lost; or "none" did
    view,     \* the list's view and the titles' own, at the server and in the browser
    count,    \* counting pages
    add,      \* adding to the library
    match     \* the picker of a tracker's match

downVars == <<server, screen, asks, ops, trouble>>
chapterVars == <<doing, downVars, view, count, add, match>>

-----------------------------------------------------------------------------
(* The downloads, and the two views of them.                               *)

NotOut == [state |-> "idle", what |-> <<>>]
Out    == [state |-> "sent", what |-> <<>>]
Ask(a, queries) == [q \in DOMAIN a |-> IF q \in queries THEN Out ELSE a[q]]

WithoutAll(queue, ids) ==
    FoldLeft(LAMBDA rest, c : IF c \in ids THEN rest ELSE Append(rest, c), <<>>, queue)
Waiting == WithoutAll(server.queue, server.failed)
Ascending(S) ==
    CHOOSE f \in [1..Cardinality(S) -> S] : \A i, j \in DOMAIN f : i < j => f[i] < f[j]

\* The order of the queue is what tells it from another; not how far it is.
QueueKey(status) == status.queue
\* Something is queued, if only in error, or the downloader is on.
Polls == screen.polled.running \/ screen.polled.queue # <<>>

Answer(q) ==
    IF q = "queue" THEN [queue |-> server.queue, running |-> server.running]
    ELSE [down |-> server.down]

Tick ==
    /\ doing = "downloads" /\ Polls /\ asks.queue.state = "idle"
    /\ asks' = Ask(asks, {"queue"})
    /\ UNCHANGED <<doing, server, screen, ops, trouble, view, count, add, match>>

ServerAnswers(q) ==
    /\ asks[q].state = "sent"
    /\ asks' = [asks EXCEPT ![q] = [state |-> "back", what |-> Answer(q)]]
    /\ UNCHANGED <<doing, server, screen, ops, trouble, view, count, add, match>>

\* Mutant: asks what is on disk when the queue has drained.
RereadDrained(old, status) == IF status.queue = <<>> /\ old # <<>> THEN {"rows"} ELSE {}
\* An entry is gone the moment it is written: nothing else tells of it.
Reread(old, status) == IF QueueKey(status) # old THEN {"rows"} ELSE {}

QueueArrives ==
    /\ asks.queue.state = "back"
    /\ LET status == asks.queue.what
       IN  /\ screen' = [screen EXCEPT !.polled = status, !.seenKey = QueueKey(status),
                                       !.seen = @ \cup ToSet(status.queue)]
           /\ asks' = Ask([asks EXCEPT !.queue = NotOut], Reread(screen.seenKey, status))
    /\ UNCHANGED <<doing, server, ops, trouble, view, count, add, match>>

RowsArrive ==
    /\ asks.rows.state = "back"
    /\ screen' = [screen EXCEPT !.rows = asks.rows.what]
    /\ asks' = [asks EXCEPT !.rows = NotOut]
    /\ UNCHANGED <<doing, server, ops, trouble, view, count, add, match>>

\* The other view: it starts from what the cache has, and asks for both.
Turn ==
    /\ doing = "downloads" /\ ops = {} /\ screen.sent < MaxRequests
    /\ screen' = [screen EXCEPT !.sent = @ + 1, !.which = IF @ = "list" THEN "disk" ELSE "list",
                                !.seenKey = QueueKey(screen.polled), !.seen = ToSet(screen.polled.queue)]
    /\ asks' = Ask(asks, {"queue", "rows"})
    /\ UNCHANGED <<doing, server, ops, trouble, view, count, add, match>>

\* What each view offers to send; the screen one request at a time.
PendingDownloads == Chapters \ (screen.rows.down \cup ToSet(screen.polled.queue))
ReadDownloads == screen.rows.down \cap AlreadyRead
Op(kind, ids) == [kind |-> kind, ids |-> ids, to |-> 0]
ListOps ==
    {Op("enqueue", s) : s \in {PendingDownloads} \cup {{c} : c \in PendingDownloads}}
    \cup {Op("dequeue", {c}) : c \in ToSet(screen.polled.queue)}
    \cup {Op("delete", s) : s \in {ReadDownloads} \cup {{c} : c \in screen.rows.down}}
\* A place above or below the one the entry has on the screen.
Moves(queue) ==
    {[kind |-> "move", ids |-> {queue[k]}, to |-> n] : k \in DOMAIN queue, n \in 0..(Len(queue) - 1)}
DiskOps ==
    LET queue == screen.polled.queue
    IN  (IF screen.polled.running THEN {Op("stop", {})} ELSE {})
        \cup (IF queue = <<>> THEN {} ELSE {Op("clear", {})})
        \cup (IF queue = <<>> \/ screen.polled.running THEN {} ELSE {Op("start", {})})
        \cup {Op("dequeue", {c}) : c \in ToSet(queue)}
        \cup {o \in Moves(queue) : \E k \in DOMAIN queue : o.ids = {queue[k]} /\ o.to \in {k - 2, k}}
        \cup {Op("delete", s) : s \in {ReadDownloads, screen.rows.down}}

Send(o) ==
    /\ doing = "downloads" /\ (o.ids # {} \/ o.kind \in {"stop", "start", "clear"})
    /\ \/ screen.which = "list" /\ o \in ListOps /\ Cardinality(ops) < MaxOps
       \/ screen.which = "disk" /\ o \in DiskOps /\ ops = {}
    /\ screen.sent < MaxRequests
    /\ ops' = ops \cup {o} /\ screen' = [screen EXCEPT !.sent = @ + 1]
    /\ UNCHANGED <<doing, server, asks, trouble, view, count, add, match>>

\* Each caller that enqueues also starts, once the first is answered.
Then(o) == IF o.kind = "enqueue" THEN {Op("start", o.ids)} ELSE {}

\* What a failed or answered request has the view ask again.
Refreshes(o, ok) ==
    IF screen.which = "disk" THEN IF o.kind = "delete" THEN {"queue", "rows"} ELSE {"queue"}
    ELSE CASE o.kind = "enqueue" -> {}
           [] o.kind = "delete" -> (IF ok THEN {"rows"} ELSE {})
           [] OTHER -> {"queue"}

Moved(queue, c, to) ==
    LET rest == WithoutAll(queue, {c})
    IN  IF c \notin ToSet(queue) THEN queue ELSE InsertAt(rest, Min({to, Len(rest)}) + 1, c)
StillOn(s) == [s EXCEPT !.running = @ /\ \E c \in ToSet(s.queue) : c \notin s.failed]
Handled(o) ==
    CASE o.kind = "enqueue" ->
            [server EXCEPT !.queue = @ \o Ascending(o.ids \ (server.down \cup ToSet(@))),
                           !.paused = FALSE]
      [] o.kind = "start" -> [server EXCEPT !.running = Waiting # <<>>, !.paused = FALSE]
      [] o.kind = "stop" -> [server EXCEPT !.running = FALSE, !.paused = TRUE]
      [] o.kind = "clear" -> [server EXCEPT !.running = FALSE, !.queue = <<>>, !.failed = {}]
      [] o.kind = "dequeue" ->
            StillOn([server EXCEPT !.queue = WithoutAll(@, o.ids), !.failed = @ \ o.ids])
      [] o.kind = "move" -> [server EXCEPT !.queue = Moved(@, CHOOSE c \in o.ids : TRUE, o.to)]
      [] OTHER -> [server EXCEPT !.down = @ \ o.ids]

\* The server has done it; an entry that is queued anew is not one that was seen.
Done(o) ==
    /\ server' = Handled(o)
    /\ screen' = [screen EXCEPT !.seen = @ \ (ToSet(server'.queue) \ ToSet(server.queue))]
Succeeds(o) ==
    /\ Done(o) /\ ops' = (ops \ {o}) \cup Then(o)
    /\ asks' = Ask(asks, Refreshes(o, TRUE))
    /\ UNCHANGED <<doing, trouble, view, count, add, match>>
\* It was refused, or the answer was lost on its way.
Fails(o) ==
    /\ trouble = "none" /\ ops' = ops \ {o}
    /\ \/ trouble' = "refused" /\ UNCHANGED <<server, screen>>
       \/ trouble' = "lost" /\ Done(o)
    /\ asks' = Ask(asks, Refreshes(o, FALSE))
    /\ UNCHANGED <<doing, view, count, add, match>>

\* The downloader: the first that waits is written, or fails; it rests when
\* nothing does.  Bound: one is in error at a time.
Download(c) ==
    /\ doing = "downloads" /\ server.running /\ Waiting # <<>> /\ c = Waiting[1]
    /\ server' \in {[server EXCEPT !.down = @ \cup {c}, !.queue = WithoutAll(@, {c})],
                    [server EXCEPT !.failed = IF @ = {} THEN {c} ELSE @]}
    /\ UNCHANGED <<doing, screen, asks, ops, trouble, view, count, add, match>>
DownloaderRests ==
    /\ server.running /\ Waiting = <<>> /\ server' = [server EXCEPT !.running = FALSE]
    /\ UNCHANGED <<doing, screen, asks, ops, trouble, view, count, add, match>>

-----------------------------------------------------------------------------
(* The list's view.  It stays mounted while its title changes, and has the *)
(* answer about the one before until the next comes.                       *)

DEFAULT_CHAPTER_VIEW == [scanlator |-> "none", filter |-> "all", order |-> "asc"]
NextFilter(f) ==
    CASE f = "all" -> "unread" [] f = "unread" -> "read" [] f = "read" -> "bookmarked" [] OTHER -> "all"

\* The answer is for this title until it is adopted once.
Adopts(v) == v.answer # 0 /\ v.adoptedFor # v.manga
\* The busiest stands in where the saved one is not among them.
PickScanlator(v) ==
    LET groups == Scanlations[v.answer]
    IN  IF v.answer = 0 \/ Len(groups) < 2 THEN v
        ELSE [v EXCEPT !.picked = IF v.now.scanlator \in {"all"} \cup ToSet(groups) THEN v.now.scanlator
                                  ELSE groups[1]]

\* What the server has, or what this browser had before there was one, which
\* is written up; else the usual.
ChapterViewFromMeta(v) == v.cache[v.answer]
Adopt(v) ==
    LET meta == ChapterViewFromMeta(v)
        carriedOver == IF meta = None THEN v.legacy[v.manga] ELSE None
        own == IF meta # None THEN meta
               ELSE IF carriedOver # None THEN carriedOver ELSE DEFAULT_CHAPTER_VIEW
    IN  IF ~Adopts(v) THEN PickScanlator(v)
        ELSE PickScanlator([v EXCEPT !.adoptedFor = v.manga, !.now = own,
                                     !.from = IF v.adoptedFor = v.manga THEN @ ELSE v.answer,
                                     !.wish = IF v.adoptedFor = v.manga THEN @ ELSE own,
                                     !.writes = IF carriedOver = None THEN @
                                                ELSE @ \cup {<<v.manga, carriedOver>>}])
ActiveScanlator(v) ==
    IF v.answer # 0 /\ v.picked \in ToSet(Scanlations[v.answer]) THEN v.picked ELSE "all"

ViewOnly(new) == view' = new /\ UNCHANGED <<doing, downVars, count, add, match>>

ViewAnswered ==
    /\ doing = "view" /\ view.awaiting
    /\ ViewOnly(Adopt([view EXCEPT !.answer = view.manga, !.awaiting = FALSE,
                                   !.cache[view.manga] = view.stored[view.manga]]))
\* To the other title; the cache may have its answer.
WalkTo(m) ==
    /\ doing = "view" /\ m # view.manga /\ view.walks < MaxMoves
    /\ \E answer \in {view.answer} \cup (IF view.visited[m] THEN {m} ELSE {}) :
          ViewOnly(Adopt([view EXCEPT !.manga = m, !.answer = answer, !.awaiting = TRUE,
                                      !.walks = @ + 1,
                                      !.visited[view.manga] = ~view.awaiting \/ @]))
\* The whole view is one key: what is changed goes with what is not.  Bound:
\* one choice.
WriteChapterView(new) ==
    /\ doing = "view" /\ view.choices < 1
    /\ ViewOnly([PickScanlator([view EXCEPT !.now = new, !.choices = @ + 1]) EXCEPT
                    !.wish = new, !.writes = @ \cup {<<view.manga, new>>}])
CycleFilter == WriteChapterView([view.now EXCEPT !.filter = NextFilter(@)])
SaveOrder == WriteChapterView([view.now EXCEPT !.order = IF @ = "asc" THEN "desc" ELSE "asc"])
ChooseScanlator(s) ==
    /\ view.answer # 0 /\ s \in {"all"} \cup ToSet(Scanlations[view.answer])
    /\ Len(Scanlations[view.answer]) > 1
    /\ WriteChapterView([view.now EXCEPT !.scanlator = s])
ViewWritten(w) ==
    /\ w \in view.writes
    /\ ViewOnly([view EXCEPT !.writes = @ \ {w}, !.stored[w[1]] = w[2]])
\* The list asks again, as after each chapter that is written.
ViewRefetched == doing = "view" /\ ~view.awaiting /\ ViewOnly([view EXCEPT !.awaiting = TRUE])

-----------------------------------------------------------------------------
(* Counting the pages of what is listed, three chapters at a time.         *)

Counting == count.total > 0
\* A worker has the next as soon as it is free.
TakeNext(c) ==
    IF c.cursor = c.total THEN c
    ELSE [c EXCEPT !.cursor = @ + 1, !.out = @ \cup {c.pending[c.cursor + 1]},
                   !.asked[c.pending[c.cursor + 1]] = @ + 1]
CountOnly(new) == count' = new /\ UNCHANGED <<doing, downVars, view, add, match>>
LoadPageCounts ==
    /\ doing = "counting" /\ ~Counting /\ count.missing # {} /\ count.runs < MaxMoves
    /\ LET list == Ascending(count.missing)
           begun == [count EXCEPT !.pending = list, !.total = Len(list), !.cursor = 0,
                                  !.done = 0, !.failures = 0,
                                  !.asked = [c \in DOMAIN @ |-> 0], !.runs = @ + 1]
       IN  CountOnly(TakeNext(TakeNext(TakeNext(begun))))
\* After the last one the list shows its counts, and asks again.
Settled(c) == IF c.out = {} /\ c.cursor = c.total THEN [c EXCEPT !.total = 0] ELSE c
PagesCounted(c) ==
    /\ c \in count.out
    /\ CountOnly(Settled(TakeNext([count EXCEPT !.out = @ \ {c}, !.missing = @ \ {c},
                                                !.done = @ + 1])))
PagesNotCounted(c) ==
    /\ c \in count.out
    /\ CountOnly(Settled(TakeNext([count EXCEPT !.out = @ \ {c}, !.failures = @ + 1,
                                                !.done = @ + 1])))

-----------------------------------------------------------------------------
(* A title on its way into the library.                                    *)

\* Rows of one series are one: the copy that is read elsewhere stands for it.
ReadsElsewhere(row) == row.readsFrom # row.id
JoinSeries(series, row) ==
    LET at == {k \in DOMAIN series : series[k].key = row.key}
        k == CHOOSE i \in at : TRUE
    IN  IF at = {} THEN Append(series, row)
        ELSE IF ReadsElsewhere(row) /\ ~ReadsElsewhere(series[k]) THEN [series EXCEPT ![k] = row]
        ELSE series
LibrarySeries(rows) == FoldLeft(JoinSeries, <<>>, rows)
\* The series that look like the title, with what they are read from.
Others(rows, title) == SelectSeq(rows, LAMBDA row : row.id # title)
Duplicates(title, rows) ==
    {[entry |-> r.id, readsFrom |-> r.readsFrom] :
        r \in {x \in ToSet(LibrarySeries(Others(rows, title))) : title \in x.resembles}}

AddOnly(new) == add' = new /\ UNCHANGED <<doing, downVars, view, count, match>>
LeftAt(t) == t \notin add.inLibrary
AddToLibrary ==
    /\ doing = "adding" /\ LeftAt(add.at) /\ add.checking = {} /\ add.dialog = {}
    /\ AddOnly([add EXCEPT !.checking = {add.at}])
\* A library that does not load is no reason to refuse.
DuplicatesChecked(loaded) ==
    /\ add.checking # {}
    /\ LET title == CHOOSE t \in add.checking : TRUE
           found == IF loaded THEN Duplicates(title, add.rows) ELSE {}
       IN  AddOnly(IF found = {} THEN [add EXCEPT !.checking = {}, !.inLibrary = @ \cup {title},
                                                  !.unasked = @ \cup (IF loaded THEN {title} ELSE {})]
                   ELSE [add EXCEPT !.checking = {}, !.dialog = found, !.about = title])
AddAnyway ==
    /\ add.dialog # {}
    /\ AddOnly([add EXCEPT !.dialog = {}, !.inLibrary = @ \cup {add.at}])
CancelAdd == add.dialog # {} /\ AddOnly([add EXCEPT !.dialog = {}])
OpenInstead(t) ==
    /\ doing = "adding" /\ t # add.at /\ add.walks < MaxMoves
    /\ AddOnly([add EXCEPT !.at = t, !.dialog = {}, !.walks = @ + 1])
RemoveFromLibrary ==
    /\ doing = "adding" /\ ~LeftAt(add.at)
    /\ AddOnly([add EXCEPT !.inLibrary = @ \ {add.at}, !.unasked = @ \ {add.at}])

-----------------------------------------------------------------------------
(* The picker of a tracker's match.  A match is the title it was found for.*)

MatchOnly(new) == match' = new /\ UNCHANGED <<doing, downVars, view, count, add>>
RunSearch(m) == [m EXCEPT !.out = @ \cup {m.title}]
EnableTracking ==
    /\ doing = "matching" /\ match.bound[match.title] = 0
    /\ MatchOnly(IF match.results = {} THEN RunSearch([match EXCEPT !.open = TRUE])
                 ELSE [match EXCEPT !.open = TRUE])
SearchAnswered(t) ==
    /\ t \in match.out
    /\ MatchOnly([match EXCEPT !.out = @ \ {t}, !.results = {t}, !.late = @ \/ t # match.title])
SearchFailed(t) == t \in match.out /\ MatchOnly([match EXCEPT !.out = @ \ {t}, !.results = {}])
ChooseMatch ==
    /\ match.open /\ match.results # {}
    /\ MatchOnly([match EXCEPT !.bound[match.title] = CHOOSE t \in match.results : TRUE,
                               !.open = FALSE])
DisableTracking ==
    /\ doing = "matching" /\ match.bound[match.title] # 0
    /\ MatchOnly([match EXCEPT !.bound[match.title] = 0])
MatchAnother ==
    /\ doing = "matching" /\ match.walks < MaxMoves
    /\ MatchOnly([match EXCEPT !.title = 3 - @, !.open = FALSE, !.results = {},
                               !.walks = @ + 1])

-----------------------------------------------------------------------------
ChaptersInit ==
    /\ doing = "nothing" /\ ops = {} /\ trouble = "none"
    /\ server = [down |-> {}, queue |-> <<>>, failed |-> {}, running |-> FALSE,
                 paused |-> FALSE]
    /\ screen = [which |-> "list", rows |-> [down |-> {}],
                 polled |-> [queue |-> <<>>, running |-> FALSE],
                 seenKey |-> <<>>, seen |-> {}, sent |-> 0]
    /\ asks = [q \in {"queue", "rows"} |-> NotOut]
    /\ view = [manga |-> 1, answer |-> 0, awaiting |-> TRUE, now |-> DEFAULT_CHAPTER_VIEW,
               picked |-> "all", adoptedFor |-> 0,
               from |-> 0, wish |-> DEFAULT_CHAPTER_VIEW, writes |-> {}, stored |-> [m \in 1..2 |-> None],
               cache |-> [m \in 1..2 |-> None], legacy |-> [m \in 1..2 |-> None], visited |-> [m \in 1..2 |-> FALSE],
               walks |-> 0, choices |-> 0]
    /\ count = [missing |-> 1..Countable, pending |-> <<>>, cursor |-> 0, total |-> 0,
                done |-> 0, failures |-> 0,
                out |-> {}, asked |-> [c \in 1..Countable |-> 0], runs |-> 0]
    /\ add = [at |-> 1, rows |-> <<>>, inLibrary |-> {}, unasked |-> {}, checking |-> {},
              dialog |-> {}, about |-> 0, walks |-> 0]
    /\ match = [title |-> 1, open |-> FALSE, results |-> {}, out |-> {},
                bound |-> [t \in 1..2 |-> 0], late |-> FALSE, walks |-> 0]

Open ==
    /\ doing = "nothing" /\ doing' \in {"downloads", "view", "counting", "adding", "matching"}
    /\ IF doing' = "view"
       THEN \E s \in [1..2 -> Stored], v \in Stored :
               view' = [view EXCEPT !.stored = s, !.legacy = [m \in 1..2 |-> v]]
       ELSE view' = view
    /\ IF doing' = "adding" THEN \E rows \in Rows : add' = [add EXCEPT !.rows = rows] ELSE add' = add
    /\ UNCHANGED <<downVars, count, match>>

ChaptersNext ==
    \/ Open
    \/ Tick \/ \E q \in {"queue", "rows"} : ServerAnswers(q)
    \/ QueueArrives \/ RowsArrive \/ Turn
    \/ \E o \in ListOps \cup DiskOps : Send(o)
    \/ \E o \in ops : Succeeds(o) \/ Fails(o)
    \/ \E c \in Chapters : Download(c)
    \/ DownloaderRests
    \/ ViewAnswered \/ ViewRefetched \/ CycleFilter \/ SaveOrder \/ \E m \in 1..2 : WalkTo(m)
    \/ \E s \in {"all", "a", "b"} : ChooseScanlator(s)
    \/ \E w \in view.writes : ViewWritten(w)
    \/ LoadPageCounts \/ \E c \in 1..Countable : PagesCounted(c) \/ PagesNotCounted(c)
    \/ AddToLibrary \/ AddAnyway \/ CancelAdd \/ RemoveFromLibrary
    \/ \E loaded \in BOOLEAN : DuplicatesChecked(loaded)
    \/ \E t \in 1..2 : OpenInstead(t) \/ SearchAnswered(t) \/ SearchFailed(t)
    \/ EnableTracking \/ ChooseMatch \/ DisableTracking \/ MatchAnother

ChaptersSpec == ChaptersInit /\ [][ChaptersNext]_chapterVars

-----------------------------------------------------------------------------
\* The variables hold what the code can put there.
ChaptersTypeOK ==
    /\ doing \in {"nothing", "downloads", "view", "counting", "adding", "matching"}
    /\ server.failed \subseteq ToSet(server.queue) /\ screen.which \in {"list", "disk"}
    /\ view.now.filter \in {"all", "unread", "read", "bookmarked"}
    /\ view.now.order \in {"asc", "desc"}
    /\ count.cursor <= count.total \/ count.total = 0

\* A chapter that was seen queued and has left the queue is shown as it is on
\* disk, as soon as what was asked is answered, with others still queued
\* (downloads.ts:144-149, MangaDetailPage.tsx:498-501).
DiskIsShown ==
    doing = "downloads" /\ ops = {} /\ trouble # "lost" /\ screen.polled.queue = server.queue
      /\ asks.queue.state = "idle" /\ asks.rows.state = "idle" =>
        \A c \in screen.seen \ ToSet(server.queue) : c \in screen.rows.down <=> c \in server.down

\* What was asked to be downloaded is being, unless it was paused or a request
\* has failed (downloads.ts:132-135, MangaDetailPage.tsx:437-438).
QueuedIsStarted ==
    Waiting # <<>> /\ ~server.paused /\ trouble = "none" /\ (\A o \in ops : o.kind \notin {"enqueue", "start"})
        => server.running

\* A view adopted from the title's own answer stays as it was chosen, whatever
\* answers come later; the group that was saved is the one that is listed, and
\* one with chapters in it where there is none (MangaDetailPage.tsx:306-319, 330-332).
ViewIsItsOwn ==
    /\ view.adoptedFor = view.manga /\ view.from = view.manga => view.now = view.wish
    /\ view.adoptedFor = view.manga /\ view.answer # 0 /\ Len(Scanlations[view.answer]) > 1
         => LET saved == view.now.scanlator
            IN  IF saved \in {"all"} \cup ToSet(Scanlations[view.answer])
                THEN ActiveScanlator(view) = saved
                ELSE ActiveScanlator(view) = Scanlations[view.answer][1]

\* Three at a time at most; each chapter once, and each is counted or told of
\* (MangaDetailPage.tsx:402-435).
CountedOnce ==
    /\ Cardinality(count.out) <= 3 /\ \A c \in 1..Countable : count.asked[c] <= 1
    /\ count.done + Cardinality(count.out) = count.cursor
    /\ ~Counting /\ count.runs > 0 =>
          /\ count.done = Len(count.pending)
          /\ Cardinality(ToSet(count.pending) \cap count.missing) = count.failures

\* Rows of one series ask once, by the copy that is read elsewhere if there is
\* one; and no title goes in unasked that looks like a series that is there
\* (MangaDetailPage.tsx:249-252, 1543-1557).
AskedFirst ==
    doing = "adding" =>
        LET series == LibrarySeries(add.rows)
            rows == ToSet(add.rows)
        IN  /\ \A r \in rows : Cardinality({k \in DOMAIN series : series[k].key = r.key}) = 1
            /\ \A s \in ToSet(series) : ReadsElsewhere(s) \/ ~\E r \in rows : r.key = s.key /\ ReadsElsewhere(r)
            /\ \A t \in add.unasked : ~\E s \in ToSet(LibrarySeries(Others(add.rows, t))) : t \in s.resembles

\* A title is bound to a match that was found for it, where no answer came
\* late (MangaDetailPage.tsx:842-859).
BoundToItsOwn == match.late \/ \A t \in 1..2 : match.bound[t] \in {0, t}

\* All that is asked of the list and the screen.
ChaptersAreTrue ==
    DiskIsShown /\ QueuedIsStarted /\ ViewIsItsOwn /\ CountedOnce /\ AskedFirst /\ BoundToItsOwn
=============================================================================
