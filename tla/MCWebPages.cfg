\* The preferences and the pages that find, keep and move titles, one at a time.
SPECIFICATION PagesSpec
CONSTANTS
    A = A
    B = B
    Off = Off
    \* WebSettings
    Settings = {layout, fit}
    Raws = {known, foreign}
    Known = {known}
    Unset = Unset
    MaxChanges = 3
    MaxLoads = 2
    MaxPushes = 1
    \* WebOverrides
    Shelf = {A, B}
    NoTitle = NoTitle
    Names = {layout}
    Picks = {x, y}
    Unpicked = Unpicked
    Levels = {Fit, In}
    Fit = Fit
    MaxPicks = 2
    \* WebDiscover
    Works = {w1}
    FullGrid = 2
    TopUps = 1
    MaxAsked = 2
    MaxTasks = 3
    MaxPages = 2
    \* WebSweep
    Top = {top}
    Rest = {rest}
    Searches = {qa, qb}
    NoSearch = NoSearch
    MaxRuns = 5
    \* WebLibrary
    Entries = {E}
    Sources <- MCNames
    LastChapter = 2
    Lists <- MCLists
    Numbers = {1}
    MaxEdits = 1
    MaxJobs = 2
    \* WebDetail
    Titles = {A, B}
    Copies = {C}
    Unbound = Unbound
    ChapterLists <- MCChapterLists
    Reported = {2}
    MaxMoves = 2
    \* WebRestore
    Files = {A, B}
    Nightly = {n1, n2}
    NoBackup = NoBackup
    \* WebSources
    Extensions = {"e1", "e2"}
    FilterLists <- MCFilterLists
    MaxPresses = 3
SYMMETRY AnyName
INVARIANTS
    PagesTypesOK
    SearchIsSound
    PagesKeepTheirOwn
PROPERTIES
    PlaceIsKept
CHECK_DEADLOCK FALSE
