\* Two accounts contending for one slot, no restart.
SPECIFICATION FairSpec
CONSTANTS
    Users <- TwoAccounts
    Chapters <- ChapterOfEach
    Owner <- OwnerByTens
    Locations <- ChapterOfEach
    LocationOf <- OwnLocation
    Batches <- OneEach
    DeleteBatches <- NoBatches
    Targets <- NoTargets
    NumPages = 1
    MaxActive = 1
    MaxTries = 2
    MaxRowId = 3
    AsCbz = {FALSE, TRUE}
    DeletesMayFail = FALSE
    MaxRestarts = 0
    NoPage = NoPage
    Gone = Gone
    NoFiles = NoFiles
INVARIANTS
    ActiveBounded
    QueueIsPerAccount
PROPERTIES
    EveryAccountServed
    DownloaderTurnsOff
    KeepsContract
