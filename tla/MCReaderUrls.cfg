CONSTANTS
    A = A
    B = B
    Call1 = Call1
    Call2 = Call2
    Absent = Absent
    NoImage = NoImage
    Urls <- MCUrls
    Listings <- MCListings
    LastPage = 0
    MaxClock = 0
    PageCount <- MCPageCount
    MostPages = 2
    NeedsResolve <- MCResolved
    Reissued <- MCResolved
    Offline <- MCResolved
    Calls <- OneCall
    Held <- FirstPage
SPECIFICATION Spec
INVARIANT PageUrlIsFixed
