\* A deletion that overlaps the end of the download of the same chapter.
SPECIFICATION Spec
CONSTANTS
    Users <- OneAccount
    Chapters <- ChaptersOfOne
    Owner <- OwnerByTens
    Locations <- ChaptersOfOne
    LocationOf <- OwnLocation
    Batches <- JustOne
    DeleteBatches <- DeleteOne
    Targets <- NoTargets
    NumPages = 1
    MaxActive = 1
    MaxTries = 2
    MaxRowId = 2
    AsCbz = {FALSE, TRUE}
    DeletesMayFail = FALSE
    MaxRestarts = 0
    NoPage = NoPage
    Gone = Gone
    NoFiles = NoFiles
INVARIANT
    SettledFlagMeansFiles
