CONSTANTS
    Shell = Shell
    Copy = Copy
    Title = Title
    Reader1 = Reader1
    Reader2 = Reader2
    Call1 = Call1
    Call2 = Call2
    None = None
    Trackers <- MCTrackers
    Importer = 2
    Lenient <- MCLenient
    Manga <- MCManga
    Titles <- MCTitles
    ShellOf <- MCShellOf
    Accounts <- OneAccount
    MaxChapter = 3
    Reads <- MCReads
    Pairs <- MCPairs
    Calls <- MCCalls
SYMMETRY AnyCall
SPECIFICATION Spec
INVARIANTS TypeOK LocalWasRemote
PROPERTIES LocalNeverDown
