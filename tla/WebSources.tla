------------------------------ MODULE WebSources -----------------------------
(***************************************************************************)
(* Two panels that ask the server what it has: the Sources page, where an  *)
(* account switches the catalogue's sources on and off (SourcesPage.tsx,   *)
(* graphql/resolvers/extension.ts), and the panel of Discover with a       *)
(* source's own filters, from the source's list to the changes the source  *)
(* is handed (sourceFilters.ts, SearchPage.tsx, registry.ts).              *)
(*                                                                         *)
(* This server never has an update for a source, so the page's updating of *)
(* them is not offered.  When the page asks its query again, what it asked *)
(* before is dropped; the query cache (api/client.ts) asks it once more,   *)
(* beside the others, when an answer names what the query shows.  Popular  *)
(* and latest are one: neither carries a search or its filters.  One visit *)
(* to either panel is modelled.                                            *)
(***************************************************************************)
EXTENDS Naturals, FiniteSets, SequencesExt

CONSTANTS
    Extensions,     \* the catalogue
    FilterLists,    \* each source's list of filters, in two builds of the server
    MaxPresses      \* bound: requests made on the page, sources and lists changed

\* The panel opens on the first source there is.
ASSUME SourcesAssumption == MaxPresses \in Nat /\ 1 \in DOMAIN FilterLists

VARIABLES
    panel,      \* "extensions" or "filters"
    switchedOn, \* the extensions the server has installed for the account
    tab,        \* the Sources page: what it heard, its dialog and what is busy
    sends,      \* its requests that are out
    queries,    \* its askings of the list that are out, or on their way back
    unheard,    \* a request was carried out, and its answer lost
    chosen,     \* Discover: the source, what is asked of it, the panel's draft
    builds,     \* the list each source has now, and had when it was asked for
    asked,      \* the requests that what was pressed last sent to a source
    presses     \* how much was pressed

extensionVars == <<switchedOn, tab, sends, queries, unheard>>
filterVars == <<chosen, builds, asked>>
sourcesVars == <<panel, extensionVars, filterVars, presses>>

Pressed == presses < MaxPresses /\ presses' = presses + 1

-----------------------------------------------------------------------------
(* The Sources page.                                                       *)

Request(kind, e) == [kind |-> kind, extension |-> e, number |-> presses, served |-> FALSE]

\* What a row, here or in the catalogue's dialog, offers while it is not busy.
Offered(e) ==
    IF tab.browsing THEN IF e \in tab.rows THEN {} ELSE {"install"}
    ELSE IF e \in tab.rows THEN {"uninstall"} ELSE {}

\* One row at a time is marked busy: the one that was pressed last.
Act(e, action) ==
    /\ panel = "extensions" /\ tab.heard /\ tab.busyId # e /\ action \in Offered(e)
    /\ Pressed
    /\ sends' = sends \cup {Request(action, e)}
    /\ tab' = [tab EXCEPT !.busyId = e]
    /\ UNCHANGED <<panel, switchedOn, queries, unheard, filterVars>>

\* The catalogue is read again; with none to show, one is connected first.
RefreshCatalogue ==
    /\ panel = "extensions" /\ ~tab.catalogueBusy
    /\ tab.heard \/ tab.browsing
    /\ Pressed
    /\ sends' = sends \cup {Request(IF tab.heard THEN "fetch" ELSE "connect", "none")}
    /\ tab' = [tab EXCEPT !.catalogueBusy = TRUE]
    /\ UNCHANGED <<panel, switchedOn, queries, unheard, filterVars>>

Browse ==
    /\ panel = "extensions"
    /\ tab' = [tab EXCEPT !.browsing = ~@]
    /\ UNCHANGED <<panel, switchedOn, sends, queries, unheard, filterVars, presses>>

\* updateExtension
Served(r) ==
    /\ r \in sends /\ ~r.served
    /\ switchedOn' = CASE r.kind = "install" -> switchedOn \cup {r.extension}
                       [] r.kind = "uninstall" -> switchedOn \ {r.extension}
                       [] OTHER -> switchedOn
    /\ sends' = (sends \ {r}) \cup {[r EXCEPT !.served = TRUE]}
    /\ UNCHANGED <<panel, tab, queries, unheard, filterVars, presses>>

RowsAfter(r) ==
    IF r.kind \in {"install", "uninstall"} THEN [tab EXCEPT !.busyId = "none"]
    ELSE [tab EXCEPT !.catalogueBusy = FALSE]

\* Mutant: the row is believed to be what was asked for.
AnsweredUnasked(r) ==
    /\ r \in sends /\ r.served /\ r.kind # "connect"
    /\ sends' = sends \ {r}
    /\ tab' = [RowsAfter(r) EXCEPT
                 !.rows = IF r.kind = "install" THEN @ \cup {r.extension} ELSE @ \ {r.extension}]
    /\ UNCHANGED <<panel, switchedOn, queries, unheard, filterVars, presses>>

Asking(state, rows) == [state |-> state, rows |-> rows, number |-> presses]

\* Every answer has the page ask again; what it asked meanwhile is dropped.
Answered(r) ==
    /\ r \in sends /\ r.served /\ r.kind # "connect"
    /\ sends' = sends \ {r}
    /\ tab' = RowsAfter(r)
    /\ queries' = {Asking("sent", {})}
    /\ unheard' = FALSE
    /\ UNCHANGED <<panel, switchedOn, filterVars, presses>>

\* The answer names a store, and the query shows the stores.
Connected(r) ==
    /\ r \in sends /\ r.served /\ r.kind = "connect"
    /\ sends' = (sends \ {r}) \cup {[r EXCEPT !.kind = "fetch", !.served = FALSE]}
    /\ queries' = queries \cup {Asking("sent", {})}
    /\ UNCHANGED <<panel, switchedOn, tab, unheard, filterVars, presses>>

\* Refused, or its answer lost: the page says so, and asks nothing.
Refused(r) ==
    /\ r \in sends
    /\ sends' = sends \ {r}
    /\ tab' = RowsAfter(r)
    /\ unheard' = (unheard \/ r.served)
    /\ UNCHANGED <<panel, switchedOn, queries, filterVars, presses>>

QueryServed(q) ==
    /\ q \in queries /\ q.state = "sent"
    /\ queries' = (queries \ {q}) \cup {[q EXCEPT !.state = "back", !.rows = switchedOn]}
    /\ UNCHANGED <<panel, switchedOn, tab, sends, unheard, filterVars, presses>>

\* With an error there is nothing to draw.
QuerySettles(q) ==
    /\ q \in queries
    /\ \/ q.state = "back" /\ tab' = [tab EXCEPT !.heard = TRUE, !.rows = q.rows]
       \/ tab' = [tab EXCEPT !.heard = FALSE, !.rows = {}]
    /\ queries' = queries \ {q}
    /\ UNCHANGED <<panel, switchedOn, sends, unheard, filterVars, presses>>

-----------------------------------------------------------------------------
(* A source's filters.  A path is a filter's place in the list the source  *)
(* has, and in the group at that place: what is not drawn counts too.      *)

\* A panel is offered for anything but words and lines: a group counts.
HasSettableFilters(list) == \E k \in DOMAIN list : list[k].kind \notin {"header", "separator"}

Settable(kind) == kind \notin {"header", "separator", "group"}
FilterAt(list, path) ==
    IF Len(path) = 1 THEN list[path[1]] ELSE list[path[1]].filters[path[2]]
Places(list) ==
    {<<k>> : k \in DOMAIN list}
    \cup UNION {{<<k, n>> : n \in DOMAIN list[k].filters} : k \in DOMAIN list}
SettablePaths(list) == {path \in Places(list) : Settable(FilterAt(list, path).kind)}

FiltersFor(s) == FilterLists[s][builds.now[s]]
\* The page's own copy of it, kept since it was first answered.
SourceFilters ==
    IF builds.cached[chosen.source] = 0 THEN <<>>
    ELSE FilterLists[chosen.source][builds.cached[chosen.source]]

\* A sort that starts with no choice starts with none to go back to.
NoDefault == "none"
CurrentFilterValue(values, path, filter) ==
    IF path \in DOMAIN values THEN values[path].value ELSE filter.default

TriStateCycle == [IGNORE |-> "INCLUDE", INCLUDE |-> "EXCLUDE", EXCLUDE |-> "IGNORE"]
\* Of the two halves of a sort a press moves one.
SortHalves == {{"0up", "1up"}, {"0up", "0down"}, {"1up", "1down"}, {"0down", "1down"}}
Presses(filter, current) ==
    CASE filter.kind = "tristate" -> {TriStateCycle[current]}
      [] filter.kind = "sort" ->
            LET shown == IF current = NoDefault THEN "0up" ELSE current
            IN  {v \in UNION SortHalves : {shown, v} \in SortHalves}
      [] OTHER -> filter.values \ {current}

\* What is put back where it started is taken out of the list.
WithFilterValue(values, path, filter, value) ==
    LET others == DOMAIN values \ {path}
    IN  IF value = filter.default THEN [p \in others |-> values[p]]
        ELSE [p \in others \cup {path} |->
                IF p = path THEN [kind |-> filter.kind, value |-> value] ELSE values[p]]

\* A change names its filter's place; in a group, the place inside it too.
FilterChanges(values) ==
    {[position |-> path[1], inner |-> Tail(path), field |-> values[path].kind,
      state |-> values[path].value] : path \in DOMAIN values}

\* Mutant: a change is kept wherever there is a filter.
KeptAnywhere(specs, c) == <<c.position>> \o c.inner \in SettablePaths(specs)

\* A change stands where the filter at its place has the field it carries.
Kept(specs, c) ==
    /\ <<c.position>> \o c.inner \in SettablePaths(specs)
    /\ FilterAt(specs, <<c.position>> \o c.inner).kind = c.field
SanitizeFilterChanges(specs, changes) == {c \in changes : Kept(specs, c)}

NoValues == [path \in {} |-> 0]

\* What the grid asks for a choice: nothing when it is not its to ask (a search
\* of every source), nor a search with neither words nor filters.
Load(c) ==
    LET changes == IF c.searching THEN FilterChanges(c.values) ELSE {}
    IN  IF c.searching /\ (c.everywhere \/ (~c.worded /\ changes = {})) THEN <<>>
        ELSE <<[source |-> c.source, drawn |-> builds.cached[c.source],
                read |-> builds.now[c.source],
                kept |-> SanitizeFilterChanges(FiltersFor(c.source), changes)]>>

SameQuestion(c) ==
    c = [chosen EXCEPT !.draft = c.draft, !.open = c.open, !.values = c.values]
    /\ c.values = chosen.values

\* A choice that is another question is asked; the same words, or the same
\* filters put back, may be new ones to the page.
Choose(c) ==
    /\ panel = "filters"
    /\ chosen' = c
    /\ asked' = Load(c) \/ (SameQuestion(c) /\ UNCHANGED asked)
    /\ UNCHANGED <<panel, extensionVars, builds>>

\* What was set belongs to the list it was set in, unless it is the same source.
SelectSource(s) ==
    /\ Pressed
    /\ LET browsed == [chosen EXCEPT !.source = s, !.searching = FALSE, !.worded = FALSE]
       IN  Choose(IF s = chosen.source THEN browsed
                  ELSE [browsed EXCEPT !.values = NoValues, !.draft = NoValues, !.open = FALSE])

\* Mutant: the filters of the source before are asked last, of the new one.
OpenSavedStale(s) ==
    LET searched == [chosen EXCEPT !.source = s, !.searching = TRUE, !.worded = TRUE]
    IN  /\ panel = "filters" /\ s # chosen.source /\ Pressed
        /\ chosen' = [searched EXCEPT !.values = NoValues, !.draft = NoValues, !.open = FALSE]
        /\ asked' = Load(searched)
        /\ UNCHANGED <<panel, extensionVars, builds>>

\* A saved search moves to its source: the effect that throws the filters away
\* runs beside the one that asks, so the grid asks with them, then without.
OpenSaved(s) ==
    LET searched == [chosen EXCEPT !.source = s, !.searching = TRUE, !.worded = TRUE]
        cleared == [searched EXCEPT !.values = NoValues, !.draft = NoValues, !.open = FALSE]
    IN  /\ panel = "filters" /\ s # chosen.source /\ Pressed
        /\ chosen' = cleared
        /\ asked' = Load(searched) \o Load(cleared)
        /\ UNCHANGED <<panel, extensionVars, builds>>

BrowseSource ==
    Choose([chosen EXCEPT !.searching = FALSE, !.worded = FALSE]) /\ UNCHANGED presses

SubmitSearch(worded) ==
    Choose([chosen EXCEPT !.searching = TRUE, !.worded = worded]) /\ UNCHANGED presses

SearchEverywhere ==
    Choose([chosen EXCEPT !.everywhere = ~@]) /\ UNCHANGED presses

FiltersAnswered ==
    /\ panel = "filters" /\ builds.cached[chosen.source] = 0
    /\ builds' = [builds EXCEPT !.cached[chosen.source] = builds.now[chosen.source]]
    /\ UNCHANGED <<panel, extensionVars, chosen, asked, presses>>

ToggleFilters ==
    /\ panel = "filters" /\ HasSettableFilters(SourceFilters)
    /\ chosen' = IF chosen.open THEN [chosen EXCEPT !.open = FALSE]
                 ELSE [chosen EXCEPT !.draft = chosen.values, !.open = TRUE]
    /\ UNCHANGED <<panel, extensionVars, builds, asked, presses>>

SetFilterAt(path) ==
    LET filter == FilterAt(SourceFilters, path)
    IN  /\ chosen.open
        /\ \E value \in Presses(filter, CurrentFilterValue(chosen.draft, path, filter)) :
              chosen' = [chosen EXCEPT !.draft = WithFilterValue(@, path, filter, value)]
        /\ UNCHANGED <<panel, extensionVars, builds, asked, presses>>

ClearFilters ==
    /\ chosen.open /\ DOMAIN chosen.draft # {}
    /\ chosen' = [chosen EXCEPT !.draft = NoValues]
    /\ UNCHANGED <<panel, extensionVars, builds, asked, presses>>

\* Applying runs the search, with the words that stand in the box.
ApplyFilters(worded) ==
    /\ chosen.open
    /\ Choose([chosen EXCEPT !.values = chosen.draft, !.open = FALSE,
                             !.searching = TRUE, !.worded = worded])
    /\ UNCHANGED presses

\* The server starts in another build, in which a source's list is another.
NewBuild(s) ==
    /\ panel = "filters" /\ builds.now[s] = 1 /\ Pressed
    /\ builds' = [builds EXCEPT !.now[s] = 2]
    /\ UNCHANGED <<panel, extensionVars, chosen, asked>>

-----------------------------------------------------------------------------
SourcesInit ==
    /\ panel \in {"extensions", "filters"}
    /\ switchedOn \in IF panel = "extensions" THEN SUBSET Extensions ELSE {{}}
    /\ tab = [heard |-> FALSE, rows |-> {}, browsing |-> FALSE, busyId |-> "none",
              catalogueBusy |-> FALSE]
    /\ sends = {} /\ unheard = FALSE /\ presses = 0
    /\ queries = IF panel = "extensions" THEN {Asking("sent", {})} ELSE {}
    /\ builds = [now |-> [s \in DOMAIN FilterLists |-> 1],
                 cached |-> [s \in DOMAIN FilterLists |-> 0]]
    /\ chosen = [source |-> 1, searching |-> FALSE, worded |-> FALSE, everywhere |-> FALSE,
                 values |-> NoValues, draft |-> NoValues, open |-> FALSE]
    /\ asked = Load(chosen)

SourcesNext ==
    \/ \E e \in Extensions, action \in {"install", "uninstall"} : Act(e, action)
    \/ RefreshCatalogue \/ Browse
    \/ \E r \in sends : Served(r) \/ Answered(r) \/ Connected(r) \/ Refused(r)
    \/ \E q \in queries : QueryServed(q) \/ QuerySettles(q)
    \/ \E s \in DOMAIN FilterLists : SelectSource(s) \/ OpenSaved(s) \/ NewBuild(s)
    \/ BrowseSource \/ SearchEverywhere \/ FiltersAnswered
    \/ ToggleFilters \/ ClearFilters
    \/ \E worded \in BOOLEAN : SubmitSearch(worded) \/ ApplyFilters(worded)
    \/ \E path \in SettablePaths(SourceFilters) : SetFilterAt(path)

SourcesSpec == SourcesInit /\ [][SourcesNext]_sourcesVars

-----------------------------------------------------------------------------
\* The variables hold what the two panels can put there.
SourcesTypeOK ==
    /\ switchedOn \subseteq Extensions /\ tab.rows \subseteq Extensions
    /\ tab.busyId \in Extensions \cup {"none"}
    /\ \A q \in queries : q.state \in {"sent", "back"} /\ q.rows \subseteq Extensions
    /\ {DOMAIN chosen.values, DOMAIN chosen.draft}
          \subseteq SUBSET SettablePaths(SourceFilters)
    /\ presses \in 0..MaxPresses

\* Once nothing is out the Sources page shows the sources the account has,
\* though rows were pressed again before they were answered and the answers
\* to the page's query came between; only an answer that was lost, which the
\* page reports, leaves it behind (SourcesPage.tsx:211-218).
SourcesAreListed ==
    sends = {} /\ queries = {} /\ tab.heard /\ ~unheard => tab.rows = switchedOn

\* The source is handed what the panel shows and nothing else: "a panel that
\* renumbered around the headers it chose not to draw would silently apply a
\* different filter" (sourceFilters.ts:85-86), by the request that goes out
\* last for what is on screen.  Where the page's copy of the list is older than
\* the source's, no filter is handed what it cannot read: such a change is
\* dropped (registry.ts:482-485).
FiltersArrive ==
    asked # <<>> =>
        LET request == Last(asked)
            specs == FilterLists[request.source][request.read]
            Handed(path) ==
                {c.state : c \in {k \in request.kept : <<k.position>> \o k.inner = path}}
            Shown(path) ==
                IF chosen.searching THEN CurrentFilterValue(chosen.values, path, FilterAt(specs, path))
                ELSE FilterAt(specs, path).default
        IN  /\ request.source = chosen.source
            /\ \A c \in request.kept :
                  c.field = FilterAt(specs, <<c.position>> \o c.inner).kind
            /\ request.drawn = request.read =>
                  \A path \in SettablePaths(specs) :
                      Handed(path) = IF Shown(path) = FilterAt(specs, path).default THEN {}
                                     ELSE {Shown(path)}
=============================================================================
