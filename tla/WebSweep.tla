------------------------------- MODULE WebSweep ----------------------------
(***************************************************************************)
(* Asking every catalogue at once (src/web/src/utils/sourceSearch.ts), as  *)
(* Discover drives it (pages/SearchPage.tsx): the recommended catalogues   *)
(* first, the rest appended when those have answered, a run number that    *)
(* turns away the answers of a run that has been replaced, and one saved   *)
(* answer that is put back instead of asking again, though it may be the   *)
(* top's alone.  A catalogue stands for the chunk it is asked in.          *)
(***************************************************************************)
EXTENDS Naturals, FiniteSets

CONSTANTS Top, Rest,  \* catalogues asked first, and the others
          Searches,   \* queries
          NoSearch,   \* no query
          MaxRuns     \* bound: runs of the search

ASSUME SweepAssumption == /\ Top \cap Rest = {} /\ Top # {}
                          /\ NoSearch \notin Searches /\ MaxRuns \in Nat

Catalogues == Top \cup Rest

VARIABLES search,   \* the query submitted
          everyone, \* every catalogue is to be asked
          sweptFor, \* the query the page has swept for
          runId,    \* searchRun.current
          runs,     \* calls of runSearch that have not come back
          outcomes, \* how often each catalogue's answer to each query is drawn
          hits,     \* some answer drawn has found something
          finding,
          saved,    \* the one saved answer
          returned  \* history: a query was gone back to while it was being run

sweepVars == <<search, everyone, sweptFor, runId, runs, outcomes, hits, finding, saved, returned>>

NoOutcomes == [q \in Searches |-> [c \in Catalogues |-> 0]]
Unsaved    == [search |-> NoSearch, scope |-> "none", outcomes |-> NoOutcomes, hits |-> FALSE]

\* A call of runSearch: who it still waits for, whether anyone has answered
\* and whether anyone has failed.
Run(id, q, batch, scope) ==
    [id |-> id, search |-> q, left |-> batch, scope |-> scope, good |-> FALSE, bad |-> FALSE]

SweepInit ==
    /\ search = NoSearch /\ everyone \in BOOLEAN /\ sweptFor = NoSearch
    /\ runId = 0 /\ runs = {} /\ outcomes = NoOutcomes /\ hits = FALSE
    /\ finding = FALSE /\ saved = Unsaved /\ returned = FALSE

\* A saved answer to this query.  The catalogues kept beside it are those of
\* the whole batch, of the top's answer too, and its scope is not asked.
IsSaved(q) == saved.search = q

Starting(q, batch, append, scope) ==
    /\ runId' = runId + 1
    /\ runs' = runs \cup {Run(runId', q, batch, scope)}
    /\ finding' = TRUE
    /\ outcomes' = IF append THEN outcomes ELSE NoOutcomes
    /\ hits' = IF append THEN hits ELSE FALSE

\* The effect that sweeps, once per query: it follows every change of what
\* the page shows.
Swept(q, all) ==
    IF ~all \/ q = NoSearch \/ sweptFor = q
    THEN UNCHANGED <<sweptFor, runId, runs, outcomes, hits, finding, returned>>
    ELSE /\ sweptFor' = q
         /\ returned' = (returned \/ \E r \in runs : r.search = q)
         /\ IF IsSaved(q)
            THEN /\ runId' = runId + 1 /\ UNCHANGED runs
                 /\ outcomes' = saved.outcomes /\ hits' = saved.hits /\ finding' = FALSE
            ELSE Starting(q, Top, FALSE, IF Rest = {} THEN "all" ELSE "top")

Submit(q) ==
    /\ runId < MaxRuns /\ q # search
    /\ search' = q
    /\ Swept(q, everyone)
    /\ UNCHANGED <<everyone, saved>>

ToggleEveryone ==
    /\ runId < MaxRuns
    /\ everyone' = ~everyone
    /\ Swept(search, everyone')
    /\ UNCHANGED <<search, saved>>

\* Mutant: a catalogue's answer is drawn whichever run asked for it.
DrawnAnyway(r, c, good) ==
    /\ outcomes' = [outcomes EXCEPT ![r.search][c] = @ + 1]
    /\ hits' = (hits \/ good)

\* What a run replaced since hears is not drawn.
Drawn(r, c, good) ==
    IF r.id # runId THEN UNCHANGED <<outcomes, hits>>
    ELSE /\ outcomes' = [outcomes EXCEPT ![r.search][c] = @ + 1]
         /\ hits' = (hits \/ good)

CatalogueAnswered(r, c, good) ==
    /\ r \in runs /\ c \in r.left
    /\ runs' = (runs \ {r}) \cup {[r EXCEPT !.left = @ \ {c}, !.good = @ \/ good, !.bad = @ \/ ~good]}
    /\ Drawn(r, c, good)
    /\ UNCHANGED <<search, everyone, sweptFor, runId, finding, saved, returned>>

\* A run whose last answer is in.  If it is still the one that counts it is
\* saved, unless nothing but errors came back; and if the page still shows
\* its query the rest of the catalogues are asked, as the tail of the top.
Finished(r) ==
    /\ r \in runs /\ r.left = {}
    /\ saved' = IF r.id = runId /\ (hits \/ r.good \/ ~r.bad)
                THEN [search |-> r.search, scope |-> r.scope, outcomes |-> outcomes, hits |-> hits]
                ELSE saved
    /\ IF r.scope = "top" /\ sweptFor = r.search /\ Rest # {}
       THEN /\ runId' = runId + 1
            /\ runs' = (runs \ {r}) \cup {Run(runId', r.search, Rest, "all")}
            /\ finding' = TRUE
       ELSE /\ runs' = runs \ {r}
            /\ finding' = (finding /\ r.id # runId)
            /\ UNCHANGED runId
    /\ UNCHANGED <<search, everyone, sweptFor, outcomes, hits, returned>>

SweepNext ==
    \/ \E q \in Searches \cup {NoSearch} : Submit(q)
    \/ ToggleEveryone
    \/ \E r \in runs : Finished(r) \/ \E c \in r.left, good \in BOOLEAN : CatalogueAnswered(r, c, good)

SweepSpec == SweepInit /\ [][SweepNext]_sweepVars

-----------------------------------------------------------------------------

\* The sweep's state holds what its declarations say.
SweepTypeOK ==
    /\ {search, sweptFor} \subseteq Searches \cup {NoSearch}
    /\ everyone \in BOOLEAN /\ finding \in BOOLEAN /\ hits \in BOOLEAN
    /\ outcomes \in [Searches -> [Catalogues -> Nat]]
    /\ \A r \in runs : r.id \in 1..runId /\ r.left \subseteq Catalogues

\* What is drawn answers the query on screen, whatever was asked before it;
\* the page is still looking only while the run that counts is out; and an
\* answer saved with the scope of every catalogue has each of them once,
\* unless its query was gone back to while it was being run
\* (sourceSearch.ts:193, :207, :253; SearchPage.tsx:487-496).  One saved with
\* the scope of the top is put back for the whole all the same (:484).
SweepIsSound ==
    /\ everyone /\ search # NoSearch =>
          \A q \in Searches \ {search}, c \in Catalogues : outcomes[q][c] = 0
    /\ finding => \E r \in runs : r.id = runId
    /\ saved.scope = "all" /\ ~returned =>
          \A c \in Catalogues : saved.outcomes[saved.search][c] = 1
=============================================================================
