\* One account, two chapters: queue, attempts, pauses, retries, a deletion, one restart.
SPECIFICATION Spec
CONSTANTS
    Users <- OneAccount
    Chapters <- ChaptersOfOne
    Owner <- OwnerByTens
    Locations <- ChaptersOfOne
    LocationOf <- OwnLocation
    Batches <- BothOrOne
    DeleteBatches <- DeleteOne
    Targets <- AroundTheEnds
    NumPages = 1
    MaxActive = 1
    MaxTries = 2
    MaxRowId = 3
    AsCbz = {FALSE}
    DeletesMayFail = TRUE
    MaxRestarts = 1
    NoPage = NoPage
    Gone = Gone
    NoFiles = NoFiles
INVARIANTS
    TypeOK
    DownloadingIsReal
    TriesCountAttempts
PROPERTIES
    NoWritesAfterStop
    RowsLeaveForAReason
