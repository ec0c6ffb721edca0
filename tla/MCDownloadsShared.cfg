\* Two chapters of an account that derive the same location.
SPECIFICATION Spec
CONSTANTS
    Users <- OneAccount
    Chapters <- ChaptersOfOne
    Owner <- OwnerByTens
    Locations <- OneAccount
    LocationOf <- SharedLocation
    Batches <- BothOrOne
    DeleteBatches <- NoBatches
    Targets <- NoTargets
    NumPages = 2
    MaxActive = 1
    MaxTries = 2
    MaxRowId = 3
    AsCbz = {FALSE, TRUE}
    DeletesMayFail = FALSE
    MaxRestarts = 0
    NoPage = NoPage
    Gone = Gone
    NoFiles = NoFiles
INVARIANT
    DownloadedIsTheChapter
