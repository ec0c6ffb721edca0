\* Two hosts, one permit and one browser between them.
SPECIFICATION HttpFairSpec
CONSTANTS
    Calls <- TwoAndOne
    Hosts <- TwoHosts
    HostOf <- HostByTens
    Posts <- First
    MinInterval <- NoMinimum
    Calm = 0
    Slow = 0
    MaxAttempts = 2
    MaxInFlight = 1
    BackoffBase = 0
    BackoffMax = 0
    BreakerFailures = 2
    BreakerCooldown = 1
    SolverAvailable = TRUE
    SolveCooldown = 1
    RetryAfters <- NoRetryAfters
    LongAgo = 0
INVARIANTS
    PermitsAccounted
    SerialPerHost
PROPERTIES
    SolvesAreRare
    EveryCallSettles
