----------------------------- MODULE MCWebPages -----------------------------
(***************************************************************************)
(* The pages of the web client that find, keep and move titles, the one    *)
(* that restores a backup, and the preferences, in one run: the first      *)
(* state says which of them moves, and the others' state is not looked at. *)
(* The reachable states are those of each, one after the other.            *)
(***************************************************************************)
EXTENDS WebSettings, WebOverrides, WebDiscover, WebSweep, WebLibrary, WebDetail,
        WebRestore, WebSources, TLC

CONSTANTS A, B, Off

VARIABLE focus

Parts == {"settings", "overrides", "discover", "sweep", "library", "detail",
          "restore", "sources"}

\* A and B are the catalogues of WebLibrary, which may list different
\* chapters, the titles of WebOverrides and WebDetail, and the files of
\* WebRestore.
MCNames == {A, B}
AnyName == Permutations(MCNames)
MCLists == {{0, 1}, {0, 2}}

\* A catalogue may list nothing.
MCChapterLists == {{}, {0, 2}}

\* Two sources' filters, and the list each has in another build: one whose
\* filters change places, one in which the first is gone.
MCFilter(kind, default, values) ==
    [kind |-> kind, default |-> default, values |-> values, filters |-> <<>>]
MCGroup(filters) == [MCFilter("group", "none", {}) EXCEPT !.filters = filters]
MCHeading == MCFilter("header", "none", {})
MCGenre == MCFilter("select", "any", {"any", "action"})
MCTick == MCFilter("checkbox", "off", {"on", "off"})
MCTag == MCFilter("tristate", "IGNORE", {})
MCAuthor == MCFilter("text", "", {"", "x"})
MCOrder == MCFilter("sort", "none", {})
MCFilterLists ==
    << << <<MCHeading, MCGenre, MCGroup(<<MCTag>>)>>,
          <<MCGroup(<<MCTag>>), MCTick, MCAuthor>> >>,
       << <<MCOrder, MCGenre>>, <<MCHeading, MCOrder>> >> >>

-----------------------------------------------------------------------------
\* A page that is not open.
SettingsOff ==
    /\ stored = Off /\ prefs = Off /\ mirror = Off /\ legacy = Off
    /\ changedHere = Off /\ timer = Off /\ querying = Off /\ pushes = Off
    /\ painted = Off /\ mine = Off /\ told = Off /\ changes = Off
    /\ loads = Off

OverridesOff ==
    /\ row = Off /\ cached = Off /\ showing = Off /\ store = Off
    /\ zooming = Off /\ sending = Off /\ picks = Off

DiscoverOff ==
    /\ token = Off /\ requests = Off /\ loading = Off /\ gridPage = Off
    /\ more = Off /\ toppedUp = Off /\ gridListed = Off /\ hidden = Off
    /\ checking = Off /\ verdict = Off /\ tasks = Off /\ lane = Off
    /\ feed = Off /\ live = Off

SweepOff ==
    /\ search = Off /\ everyone = Off /\ sweptFor = Off /\ runId = Off
    /\ runs = Off /\ outcomes = Off /\ hits = Off /\ finding = Off
    /\ saved = Off /\ returned = Off

LibraryPageOff ==
    /\ bound = Off /\ listed = Off /\ read = Off /\ record = Off
    /\ library = Off /\ filed = Off /\ completed = Off /\ edits = Off
    /\ jobs = Off /\ seen = Off /\ selected = Off /\ matches = Off
    /\ batch = Off /\ sync = Off /\ sweep = Off

DetailOff ==
    /\ bindings = Off /\ chaptersOf = Off /\ readOf = Off /\ progressOf = Off
    /\ notes = Off /\ emptied = Off /\ remembered = Off /\ id = Off
    /\ marker = Off /\ detail = Off /\ awaiting = Off /\ boundId = Off
    /\ boundRecord = Off /\ refreshed = Off /\ picking = Off /\ ownEmpty = Off
    /\ newest = Off /\ readThrough = Off /\ pendingCarry = Off
    /\ carried = Off /\ searched = Off /\ switchedFor = Off /\ note = Off
    /\ noteAdoptedFor = Off /\ calls = Off /\ moves = Off

RestoreOff ==
    /\ pendingFile = Off /\ pendingAuto = Off /\ validation = Off
    /\ status = Off /\ watching = Off /\ busy = Off /\ job = Off
    /\ jobState = Off

SourcesOff ==
    /\ panel = Off /\ switchedOn = Off /\ tab = Off /\ sends = Off /\ queries = Off
    /\ unheard = Off /\ chosen = Off /\ builds = Off /\ asked = Off /\ presses = Off

PagesInit ==
    /\ focus \in Parts
    /\ IF focus = "settings" THEN SettingsInit ELSE SettingsOff
    /\ IF focus = "overrides" THEN OverridesInit ELSE OverridesOff
    /\ IF focus = "discover" THEN DiscoverInit ELSE DiscoverOff
    /\ IF focus = "sweep" THEN SweepInit ELSE SweepOff
    /\ IF focus = "library" THEN LibraryInit ELSE LibraryPageOff
    /\ IF focus = "detail" THEN DetailInit ELSE DetailOff
    /\ IF focus = "restore" THEN RestoreInit ELSE RestoreOff
    /\ IF focus = "sources" THEN SourcesInit ELSE SourcesOff

PagesNext ==
    /\ UNCHANGED focus
    /\ IF focus = "settings" THEN TRUE ELSE UNCHANGED settingsVars
    /\ IF focus = "overrides" THEN TRUE ELSE UNCHANGED overridesVars
    /\ IF focus = "discover" THEN TRUE ELSE UNCHANGED discoverVars
    /\ IF focus = "sweep" THEN TRUE ELSE UNCHANGED sweepVars
    /\ IF focus = "library" THEN TRUE ELSE UNCHANGED libraryVars
    /\ IF focus = "detail" THEN TRUE ELSE UNCHANGED detailVars
    /\ IF focus = "restore" THEN TRUE ELSE UNCHANGED restoreVars
    /\ IF focus = "sources" THEN TRUE ELSE UNCHANGED sourcesVars
    /\ CASE focus = "settings" -> SettingsNext
         [] focus = "overrides" -> OverridesNext
         [] focus = "discover" -> DiscoverNext
         [] focus = "sweep" -> SweepNext
         [] focus = "library" -> LibraryNext
         [] focus = "detail" -> DetailNext
         [] focus = "restore" -> RestoreNext
         [] focus = "sources" -> SourcesNext

pagesVars ==
    <<focus, settingsVars, overridesVars, discoverVars, sweepVars,
      libraryVars, detailVars, restoreVars, sourcesVars>>

PagesSpec == PagesInit /\ [][PagesNext]_pagesVars

-----------------------------------------------------------------------------
\* The variables of every page hold what its code can put there.
PagesTypesOK ==
    /\ focus = "settings" => SettingsTypeOK
    /\ focus = "overrides" => OverridesTypeOK
    /\ focus = "discover" => DiscoverTypeOK
    /\ focus = "sweep" => SweepTypeOK
    /\ focus = "library" => LibraryPageTypeOK
    /\ focus = "detail" => DetailPageTypeOK
    /\ focus = "restore" => RestoreTypeOK
    /\ focus = "sources" => SourcesTypeOK

\* Every title Discover draws is known to have chapters or is being asked
\* about, one request at a time in a lane; a sweep of every catalogue draws
\* answers to its own query alone and saves each once; and a source is handed
\* the filters the panel shows (SearchPage.tsx, availability.ts,
\* sourceSearch.ts, sourceFilters.ts).  The grid of one source may list the
\* answer to the question before, and a source may have a request in the lane
\* of another: neither is promised here.
SearchIsSound ==
    /\ focus = "discover" => GridIsChecked /\ LanesAreSerial
    /\ focus = "sweep" => SweepIsSound
    /\ focus = "sources" => FiltersArrive

\* What a page keeps, shows and sends is its own: what was chosen here, for
\* the account (settings.ts) and for one title (mangaSettings.ts), whatever
\* answers come between; the note of the title walked to
\* (MangaDetailPage.tsx); the end only of a restore that has ended
\* (SettingsPage.tsx); and the sources the account has (SourcesPage.tsx).
PagesKeepTheirOwn ==
    /\ focus = "settings" => ChoicesHere
    /\ focus = "overrides" => TitlesKeepTheirOwn
    /\ focus = "detail" => NoteIsTheirs
    /\ focus = "restore" => PanelIsTrue
    /\ focus = "sources" => SourcesAreListed

\* No page loses the reader's place in a title: a refresh takes back only what
\* lay above the tracker's number before it was asked for, a move to another
\* source marks what the old one had been read through and no more, and its
\* undo takes back those alone (LibraryPage.tsx, MangaDetailPage.tsx).
PlaceIsKept ==
    [][/\ focus = "library" => LibraryKeepsPlace
       /\ focus = "detail" => DetailKeepsPlace]_pagesVars
=============================================================================
