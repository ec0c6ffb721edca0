\* Every part of the server that does not touch another, one at a time.
SPECIFICATION ServerSpec
CONSTANTS
    \* SourceHttp: one host asked by a POST and by a reader of images
    Calls <- TwoOfOne
    Hosts <- OneHost
    HostOf <- HostByTens
    Posts <- First
    MinInterval <- NoMinimum
    Calm = 1
    Slow = 4
    MaxAttempts = 3
    MaxInFlight = 1
    BackoffBase = 4
    BackoffMax = 5
    BreakerFailures = 5
    BreakerCooldown = 6
    SolverAvailable = TRUE
    SolveCooldown = 7
    RetryAfters <- AfterThree
    LongAgo = 5
    \* Downloads: one chapter of two pages, with a deletion and a restart
    Users <- OneAccount
    Chapters <- ChaptersOfOne
    Owner <- OwnerByTens
    Locations <- ChaptersOfOne
    LocationOf <- OwnLocation
    Batches <- JustOne
    DeleteBatches <- DeleteOne
    Targets <- NoTargets
    NumPages = 2
    MaxActive = 1
    MaxTries = 1
    MaxRowId = 3
    AsCbz = {FALSE, TRUE}
    DeletesMayFail = TRUE
    MaxRestarts = 1
    NoPage = NoPage
    Gone = Gone
    NoFiles = NoFiles
    \* Library
    X = X
    Y = Y
    A = A
    B = B
    Titles <- MCTitles
    Names <- MCNames
    Typed <- MCTyped
    Documents <- MCDocuments
    Batch = 1
    MaxId = 2
    Absent = Absent
    \* MangaDetails
    Texts = {text}
    Silent = Silent
    DetailCalls = {call1, call2}
    MaxNow = 3
    NoRow = NoRow
    \* Sessions
    Logins = {login1, login2}
    MaxSession = 2
    MaxPassword = 2
    IdleMs = 1
    Lifetime = 2
    MaxFailures = 2
    Window = 2
    Lockout = 2
    MaxStreak = 1
    Horizon = 7
    None = None
    \* Registry and SourceIcons
    Packages = {p1, p2, p3}
    Seeded = {p1, p2}
    Sites = {s1, s2, s3, s4}
    WarmConcurrency = 2
    \* BackupSchedule
    DayLength = 3
    Intervals = {0, 2, 3}
    Slots = {2, 3}
    Ttls = {1}
    MaxArchives = 1
    Days = 3
    \* SelfUpdate
    Payload <- MCPayload
    Required <- MCRequired
    Releases <- MCReleases
    \* Database
    Builds = {1, 2, 3}
    Writes = 2
    MaxDepth = 2
    \* SourceSites
    PageSize = 2
    MaxOffset = 4
    MaxFeedPages = 2
    MaxPublished = 7
    Asks = {q1, q2}
    \* TrackerServices
    Tabs = {tab1, tab2}
    Holders = {"ann", "bob"}
    MaxStarts = 2
    TokenLife = 1
    LastInstant = 1
    Tries = 3
    FallbackPause = 5
    LongestPause = 60
    Pauses = {0, 30, 90}
    Halves = {0, 5}
    \* Archives
    MaxComment = 2
    MaxBytes = 3
    \* Listings
    Catalogues = {"s1", "s2"}
    Runners = 2
    Grids <- MCGrids
INVARIANTS
    ServerTypesOK
    FinishedFormsAreWhole
    AccountIsSound
    BackgroundIsSound
    KillsAreMended
    ExchangesAreFaithful
PROPERTIES
    ResumeFetchesOnlyMissing
    PromisesAreKept
    NothingIsCutShort
CHECK_DEADLOCK FALSE
