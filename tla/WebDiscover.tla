----------------------------- MODULE WebDiscover ---------------------------
(***************************************************************************)
(* Discover on one source (src/web/src/pages/SearchPage.tsx) and the       *)
(* requests it queues (utils/availability.ts): a question puts a page of   *)
(* titles on the grid, each title nobody knows the chapters of is asked    *)
(* about in the source's lane, and leaves the grid when it has none; a     *)
(* grid left short pulls in the next page, a bounded number of times.  A   *)
(* saved search's shelf queues in its own lane.                            *)
(***************************************************************************)
EXTENDS Integers, Sequences, FiniteSets, SequencesExt

CONSTANTS Works,        \* titles the sources list
          FullGrid,     \* FULL_GRID: titles that make a full grid
          TopUps,       \* MAX_TOP_UP_PAGES
          MaxAsked,     \* bound: questions put to the page
          MaxTasks,     \* bound: requests queued in the lanes
          MaxPages      \* bound: pages a listing has

ASSUME DiscoverAssumption == /\ {FullGrid, TopUps, MaxTasks} \subseteq Nat
                             /\ {MaxAsked, MaxPages} \subseteq Nat \ {0}
                             /\ IsFiniteSet(Works) /\ Works # {}

VARIABLES token,    \* verifying.current, which every question to the page raises
          requests, \* loads of a page that have not been answered
          loading, gridPage, more, toppedUp,
          gridListed,   \* mangas, as the pages listed them
          hidden,   \* titles taken off the grid
          checking, \* titles being checked, as the page counts them
          verdict,  \* what the server knows of a title's chapters
          tasks,    \* every request put in a lane, in order
          lane,     \* the task each lane holds, 0 when it has drained
          feed,     \* what the saved search's shelf shows, kept when it closes
          live      \* the opening of the shelf its requests belong to, or 0

gridVars == <<token, requests, loading, gridPage, more, toppedUp, gridListed, hidden, checking>>
laneVars == <<tasks, lane>>
feedVars == <<feed, live>>
discoverVars == <<gridVars, verdict, laneVars, feedVars>>

LaneKeys == {"grid", "shelf"}

\* A request goes behind whatever its lane holds and becomes what it holds.
Queue(kind, key, works, asked) ==
    LET order == SetToSeq(works)
    IN [i \in 1..Len(order) |->
          [kind |-> kind, lane |-> key, work |-> order[i], asked |-> asked, phase |-> "waiting",
           after |-> IF i = 1 THEN lane[key] ELSE Len(tasks) + i - 1]]

Enqueue(kind, key, works, asked) ==
    /\ Len(tasks) + Cardinality(works) <= MaxTasks
    /\ tasks' = tasks \o Queue(kind, key, works, asked)
    /\ lane' = IF works = {} THEN lane
               ELSE [lane EXCEPT ![key] = Len(tasks) + Cardinality(works)]

\* What the grid draws.
Visible == {w \in Works : w \in ToSet(gridListed) /\ w \notin hidden}

DiscoverInit ==
    /\ token = 1
    /\ requests = {[asked |-> token, page |-> 1, replace |-> TRUE]}
    /\ loading = TRUE /\ gridPage = 1 /\ more = FALSE /\ toppedUp = 0
    /\ gridListed = <<>> /\ hidden = {} /\ checking = 0
    /\ verdict \in [Works -> {"unknown", "has", "empty"}]
    /\ tasks = <<>> /\ lane = [k \in LaneKeys |-> 0]
    /\ feed = {} /\ live = 0

\* Another source, mode, query or set of filters: the grid is cleared and its
\* first page asked for.  A load still out is not called back.
Ask ==
    /\ token < MaxAsked
    /\ token' = token + 1
    /\ requests' = requests \cup {[asked |-> token', page |-> 1, replace |-> TRUE]}
    /\ loading' = TRUE
    /\ gridListed' = <<>> /\ hidden' = {} /\ checking' = 0
    /\ more' = FALSE /\ toppedUp' = 0
    /\ UNCHANGED <<gridPage, verdict, laneVars, feedVars>>

\* Mutant: only the titles of a page that replaces the grid are asked about.
UnknownOfFirst(works, replace) == {w \in works : replace /\ verdict[w] = "unknown"}

\* The titles of an answer somebody has to be asked about.
Unknown(works, replace) == {w \in works : verdict[w] = "unknown"}

\* A page is listed, and what it lists is verified under the token of now.
PageListed(r, works, next) ==
    /\ r \in requests /\ requests' = requests \ {r}
    /\ loading' = FALSE /\ more' = next /\ gridPage' = r.page
    /\ gridListed' = IF r.replace THEN SetToSeq(works) ELSE gridListed \o SetToSeq(works)
    /\ hidden' = hidden \cup {w \in works : verdict[w] = "empty"}
    /\ checking' = checking + Cardinality(Unknown(works, r.replace))
    /\ Enqueue("check", "grid", Unknown(works, r.replace), token)
    /\ UNCHANGED <<token, toppedUp, verdict, feedVars>>

PageFailed(r) ==
    /\ r \in requests /\ requests' = requests \ {r}
    /\ loading' = FALSE
    /\ UNCHANGED <<token, gridPage, more, toppedUp, gridListed, hidden, checking,
                   verdict, laneVars, feedVars>>

NextPage ==
    /\ ~loading /\ more /\ gridPage < MaxPages
    /\ requests' = requests \cup {[asked |-> token, page |-> gridPage + 1, replace |-> FALSE]}
    /\ loading' = TRUE
    /\ UNCHANGED <<token, gridPage, more, gridListed, hidden, checking, verdict, laneVars,
                   feedVars>>

\* The reader asks for more, or the grid was left short of a full one.
LoadMore == NextPage /\ UNCHANGED toppedUp
TopUp    == /\ checking = 0 /\ toppedUp < TopUps /\ Len(gridListed) - Cardinality(hidden) < FullGrid
            /\ NextPage /\ toppedUp' = toppedUp + 1

-----------------------------------------------------------------------------
(* The lanes                                                               *)

Settled == {0} \cup {id \in 1..Len(tasks) : tasks[id].phase \in {"done", "drained"}}

\* A task begins once the one it went behind has settled, however it did.
Behind(id) == tasks[id].after \in Settled

Abandoned(t) == CASE t.kind = "check" -> t.asked # token
                  [] t.kind = "shelfCheck" -> t.asked # live
                  [] OTHER -> FALSE

\* The check is whether anybody still wants the answer, made in the queue.
Begin(id) ==
    /\ id \in 1..Len(tasks) /\ tasks[id].phase = "waiting" /\ Behind(id)
    /\ tasks' = [tasks EXCEPT ![id].phase = IF Abandoned(tasks[id]) THEN "done" ELSE "asking"]
    /\ UNCHANGED <<gridVars, verdict, lane, feedVars>>

\* Mutant: an answer is counted whatever question it was asked under.
CountedAnyway(t, found) ==
    /\ hidden' = IF found THEN hidden ELSE hidden \cup {t.work}
    /\ checking' = checking - 1

\* An answer to the question of before takes no card and is not counted.
Counted(t, found) ==
    /\ hidden' = IF t.asked # token \/ found THEN hidden ELSE hidden \cup {t.work}
    /\ checking' = IF t.asked = token THEN checking - 1 ELSE checking

\* Chapters are recorded by the answer itself, and stay; anything else, an
\* error included, is recorded as a title that has none.
Recorded(w, found) ==
    [verdict EXCEPT ![w] = IF found \/ verdict[w] = "has" THEN "has" ELSE "empty"]

Checked(id, found) ==
    /\ id \in 1..Len(tasks) /\ tasks[id].phase = "asking" /\ tasks[id].kind = "check"
    /\ tasks' = [tasks EXCEPT ![id].phase = "done"]
    /\ verdict' = Recorded(tasks[id].work, found)
    /\ Counted(tasks[id], found)
    /\ UNCHANGED <<token, requests, loading, gridPage, more, toppedUp, gridListed, lane,
                   feedVars>>

\* A task that is over and that no lane holds, of which nothing is left.
Over == [kind |-> "check", lane |-> "grid", work |-> CHOOSE w \in Works : TRUE, asked |-> 0,
         phase |-> "drained", after |-> 0]

\* Mutant: the lane is forgotten by every task that settles.
ForgottenAlways(id) == [lane EXCEPT ![tasks[id].lane] = 0]

\* A lane forgets a task nothing was queued behind.
Forgotten(id) == IF lane[tasks[id].lane] = id THEN [lane EXCEPT ![tasks[id].lane] = 0] ELSE lane

Drain(id) ==
    /\ id \in 1..Len(tasks) /\ tasks[id].phase = "done"
    /\ tasks' = [tasks EXCEPT ![id] = Over]
    /\ lane' = Forgotten(id)
    /\ UNCHANGED <<gridVars, verdict, feedVars>>

\* The trust in an empty answer runs out.
VerdictExpires(w) ==
    /\ verdict[w] = "empty"
    /\ verdict' = [verdict EXCEPT ![w] = "unknown"]
    /\ UNCHANGED <<gridVars, laneVars, feedVars>>

-----------------------------------------------------------------------------
(* The shelf of a saved search                                             *)

OpenShelf ==
    /\ live = 0 /\ feed = {}
    /\ live' = Len(tasks) + 1
    /\ Enqueue("shelfSearch", "shelf", {CHOOSE w \in Works : TRUE}, live')
    /\ UNCHANGED <<gridVars, verdict, feed>>

CloseShelf == live # 0 /\ live' = 0 /\ UNCHANGED <<gridVars, verdict, laneVars, feed>>

\* What the saved search finds is shown without what is known to be empty,
\* and the unknown of it asked about behind the search.
ShelfAnswered(id, works) ==
    /\ id \in 1..Len(tasks) /\ tasks[id].phase = "asking" /\ tasks[id].kind = "shelfSearch"
    /\ LET found == IF tasks[id].asked = live THEN {w \in works : verdict[w] # "empty"} ELSE {}
           asks  == {w \in found : verdict[w] = "unknown"}
       IN /\ feed' = IF tasks[id].asked = live THEN found ELSE feed
          /\ Len(tasks) + Cardinality(asks) <= MaxTasks
          /\ tasks' = [tasks EXCEPT ![id].phase = "done"] \o Queue("shelfCheck", "shelf", asks,
                                                                   live)
          /\ lane' = IF asks = {} THEN lane
                     ELSE [lane EXCEPT !["shelf"] = Len(tasks) + Cardinality(asks)]
    /\ UNCHANGED <<gridVars, verdict, live>>

ShelfChecked(id, found) ==
    /\ id \in 1..Len(tasks) /\ tasks[id].phase = "asking" /\ tasks[id].kind = "shelfCheck"
    /\ tasks' = [tasks EXCEPT ![id].phase = "done"]
    /\ verdict' = Recorded(tasks[id].work, found)
    /\ feed' = IF found \/ tasks[id].asked # live THEN feed ELSE feed \ {tasks[id].work}
    /\ UNCHANGED <<gridVars, lane, live>>

DiscoverNext ==
    \/ Ask
    \/ \E r \in requests : PageFailed(r)
    \/ \E r \in requests, works \in SUBSET Works, next \in BOOLEAN : PageListed(r, works, next)
    \/ LoadMore \/ TopUp
    \/ \E id \in 1..Len(tasks) :
          \/ Begin(id) \/ Drain(id)
          \/ \E found \in BOOLEAN : Checked(id, found) \/ ShelfChecked(id, found)
          \/ \E works \in SUBSET Works : ShelfAnswered(id, works)
    \/ \E w \in Works : VerdictExpires(w)
    \/ OpenShelf \/ CloseShelf

DiscoverSpec == DiscoverInit /\ [][DiscoverNext]_discoverVars

-----------------------------------------------------------------------------

\* The page and the lanes hold what their declarations say.
DiscoverTypeOK ==
    /\ token \in 1..MaxAsked
    /\ loading \in BOOLEAN /\ more \in BOOLEAN /\ live \in 0..MaxTasks
    /\ gridPage \in 1..MaxPages /\ toppedUp \in 0..TopUps
    /\ ToSet(gridListed) \subseteq Works /\ hidden \subseteq Works /\ feed \subseteq Works
    /\ checking \in Int /\ Len(tasks) <= MaxTasks

\* Every title drawn is known to have chapters, or is being asked about
\* under the token of now, and the page counts exactly those: the count is
\* what lets a short grid pull in the next page (SearchPage.tsx:515-543,
\* :594-599).  The titles themselves may be the answer to the question
\* before, whose load was not called back.
GridIsChecked ==
    LET asked == {id \in 1..Len(tasks) : /\ tasks[id].kind = "check" /\ tasks[id].asked = token
                                         /\ tasks[id].phase \in {"waiting", "asking"}}
    IN /\ \A w \in Visible : verdict[w] = "has" \/ \E id \in asked : tasks[id].work = w
       /\ checking = Cardinality(asked)

\* A lane has one request out at a time (availability.ts:74-92).
LanesAreSerial ==
    \A i, j \in 1..Len(tasks) :
        tasks[i].phase = "asking" /\ tasks[j].phase = "asking" /\ tasks[i].lane = tasks[j].lane
          => i = j
=============================================================================
