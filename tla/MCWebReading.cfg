\* Chapter lists, the reading page, its gestures, the shelves and the title's
\* list, one at a time.
SPECIFICATION ReadingSpec
CONSTANTS
    A = A
    B = B
    Off = Off
    \* ChapterList
    Absent = Absent
    Urls <- MCUrls
    Listings <- MCListings
    LastPage = 1
    MaxClock = 2
    \* WebReader
    PageCounts <- MCPageCounts
    WidePages <- MCWide
    Resumes = {1}
    Modes = {"paged", "strip"}
    Pairings = {"off", "on", "auto"}
    MaxPending = 2
    PrefetchAhead = 4
    \* WebGestures
    Actions = {"zoomIn", "zoomReset", "toggleOptions"}
    Chords = {"plus", "0", "s", "Escape"}
    Escape = "Escape"
    Defaults <- MCDefaults
    \* WebShelves
    Shelved <- MCShelved
    RecentLimit = 2
    MaxReads = 2
    MaxAlike = 3
    \* WebChapters
    Chapters = {1, 2}
    AlreadyRead = {1}
    Scanlations <- MCScanlations
    Stored <- MCStored
    Countable = 4
    Rows <- MCRows
    MaxOps = 1
    MaxRequests = 3
    MaxMoves = 2
SYMMETRY AnyName
INVARIANTS
    ChaptersKept
    ReadingTypesOK
    ShownRight
    ShelvesAreTrue
PROPERTIES
    RefreshSeparates
    ReadingSurvives
    ReadsOn
CHECK_DEADLOCK FALSE
