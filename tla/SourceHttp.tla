----------------------------- MODULE SourceHttp -----------------------------
(***************************************************************************)
(* The one HTTP client every source talks through (sources/http.ts): a     *)
(* promise chain per host, a semaphore over all hosts, a circuit breaker,  *)
(* retries with backoff or Retry-After, and challenges handed to the one   *)
(* browser of sources/flaresolverr.ts.                                     *)
(*                                                                         *)
(* A call is a place that asks for one thing at a time, again and again.   *)
(* Time is relative: what the code keeps as a timestamp is kept as its age *)
(* (saturated where no comparison tells it apart) or as what remains, so   *)
(* no bound on time is needed.  A timer may fire late, never early.        *)
(***************************************************************************)
EXTENDS Integers, FiniteSets, Sequences

CONSTANTS
    Calls, Hosts,
    HostOf,          \* the hostname of each call's url
    Posts,           \* calls whose method is not GET
    MinInterval,     \* options.minIntervalMs of each call
    Calm, Slow,      \* CALM_INTERVAL_MS, MIN_INTERVAL_MS
    MaxAttempts,     \* MAX_ATTEMPTS
    MaxInFlight,     \* MAX_IN_FLIGHT
    BackoffBase, BackoffMax,
    BreakerFailures, BreakerCooldown,
    SolverAvailable, \* a FlareSolverr is configured
    SolveCooldown,   \* HOST_COOLDOWN_MS of flaresolverr.ts
    RetryAfters,     \* values of Retry-After a site may send
    LongAgo          \* age at which a start no longer matters

ASSUME SourceHttpAssumption ==
    /\ HostOf \in [Calls -> Hosts]
    /\ Posts \subseteq Calls
    /\ MinInterval \in [Calls -> Nat]
    /\ {Calm, Slow, BackoffBase, BackoffMax, SolveCooldown, LongAgo} \subseteq Nat
    /\ {MaxAttempts, MaxInFlight, BreakerFailures, BreakerCooldown} \subseteq Nat \ {0}
    /\ RetryAfters \subseteq Nat
    /\ SolverAvailable \in BOOLEAN
    /\ \A c \in Calls : \A i \in {Calm, Slow, MinInterval[c]} : (i * 13) \div 10 <= LongAgo

VARIABLES
    call,        \* where each call stands
    tails,       \* the promise chain of each host, unsettled calls only
    sinceStart,  \* age of lastStart, by host
    permits,     \* Semaphore.available
    waiting,     \* Semaphore.waiting
    failures,    \* Breaker.failures, by host
    cooling,     \* what remains of Breaker.openUntil, by host
    challenged,  \* hosts that have challenged us
    jar,         \* hosts whose clearance cookie, and its User-Agent, we hold
    solveChain,  \* calls queued for the browser, the first being served
    sinceSolve   \* age of lastSolveAt, by host

chains == <<tails, sinceStart>>
breaker == <<failures, cooling>>
solver == <<solveChain, sinceSolve>>
httpVars == <<call, chains, permits, waiting, breaker, challenged, jar, solver>>

PC == {"idle", "queued", "spacing", "permit", "fetching", "backoff",
       "toSolve", "solving"}

\* clearance is solvedForPost, apart from the time the solve is under way
Call == [pc : PC, attempt : 0..MaxAttempts, interval : Nat, timer : Nat,
         clearance : {"none", "earning", "earned"}]

Idle == [pc |-> "idle", attempt |-> 0, interval |-> 0, timer |-> 0, clearance |-> "none"]

Larger(a, b) == IF a >= b THEN a ELSE b
Smaller(a, b) == IF a <= b THEN a ELSE b

\* jitter: 30% around ms
Jittered(ms) == (ms * 7) \div 10 .. (ms * 13) \div 10

HttpInit ==
    /\ call = [c \in Calls |-> Idle]
    /\ tails = [h \in Hosts |-> <<>>]
    /\ sinceStart = [h \in Hosts |-> LongAgo]
    /\ permits = MaxInFlight
    /\ waiting = <<>>
    /\ failures = [h \in Hosts |-> 0]
    /\ cooling = [h \in Hosts |-> 0]
    /\ challenged = {}
    /\ jar = {}
    /\ solveChain = <<>>
    /\ sinceSolve = [h \in Hosts |-> SolveCooldown]

-----------------------------------------------------------------------------
(* The pieces of a step: the semaphore, the breaker, the chain.            *)

\* acquire(), then fetch: c becomes "next", apart from its pc
Send(c, next) ==
    IF permits > 0
    THEN /\ permits' = permits - 1
         /\ call' = [call EXCEPT ![c] = [next EXCEPT !.pc = "fetching"]]
         /\ UNCHANGED waiting
    ELSE /\ waiting' = Append(waiting, c)
         /\ call' = [call EXCEPT ![c] = [next EXCEPT !.pc = "permit"]]
         /\ UNCHANGED permits

\* Mutant: the permit is given back and nobody in line is woken.
ReleaseUnheard(c, next) ==
    /\ permits' = permits + 1
    /\ call' = [call EXCEPT ![c] = next]
    /\ UNCHANGED waiting

\* Mutant: the permit handed to the first in line is counted as free too.
ReleaseTwice(c, next) ==
    IF waiting = <<>>
    THEN /\ permits' = permits + 1
         /\ call' = [call EXCEPT ![c] = next]
         /\ UNCHANGED waiting
    ELSE /\ waiting' = Tail(waiting)
         /\ call' = [call EXCEPT ![c] = next, ![Head(waiting)].pc = "fetching"]
         /\ permits' = permits + 1

\* release(): the permit goes to the first in line; c becomes "next"
Release(c, next) ==
    IF waiting = <<>>
    THEN /\ permits' = permits + 1
         /\ call' = [call EXCEPT ![c] = next]
         /\ UNCHANGED waiting
    ELSE /\ waiting' = Tail(waiting)
         /\ call' = [call EXCEPT ![c] = next, ![Head(waiting)].pc = "fetching"]
         /\ UNCHANGED permits

\* The promise of c, first of its host's chain, settles.
Unchain(c) == tails' = [tails EXCEPT ![HostOf[c]] = Tail(@)]

Succeeded(h) ==
    /\ failures' = [failures EXCEPT ![h] = 0]
    /\ cooling' = [cooling EXCEPT ![h] = 0]

OpenFor(h) ==
    /\ failures' = [failures EXCEPT ![h] = 0]
    /\ cooling' = [cooling EXCEPT ![h] = BreakerCooldown]

\* Mutant: one failure more than the limit.
FailedSoftlyLate(h) ==
    IF failures[h] + 1 > BreakerFailures
    THEN OpenFor(h)
    ELSE /\ failures' = [failures EXCEPT ![h] = @ + 1]
         /\ UNCHANGED cooling

FailedSoftly(h) ==
    IF failures[h] + 1 >= BreakerFailures
    THEN OpenFor(h)
    ELSE /\ failures' = [failures EXCEPT ![h] = @ + 1]
         /\ UNCHANGED cooling

Backoff(attempt) == Smaller(BackoffBase * 2^(attempt - 1), BackoffMax)

Floor(h) == IF h \in challenged THEN Slow ELSE Calm

-----------------------------------------------------------------------------
(* request() and HostQueues.run                                            *)

Request(c) ==
    LET h == HostOf[c]
    IN  /\ call[c] = Idle
        /\ call' = [call EXCEPT ![c] = [Idle EXCEPT !.pc = "queued",
                        !.interval = Larger(Floor(h), MinInterval[c])]]
        /\ tails' = [tails EXCEPT ![h] = Append(@, c)]
        /\ UNCHANGED <<sinceStart, permits, waiting, breaker, challenged, jar, solver>>

\* Mutant: the host's chain is not waited for.
BeginAtOnce(c) ==
    LET h == HostOf[c]
    IN  /\ call[c].pc = "queued"
        /\ \E j \in Jittered(call[c].interval) :
            call' = [call EXCEPT ![c] = [@ EXCEPT !.pc = "spacing",
                                                  !.timer = Larger(j - sinceStart[h], 0)]]
        /\ UNCHANGED <<chains, permits, waiting, breaker, challenged, jar, solver>>

\* Mutant: no pause after the request before.
BeginUnspaced(c) ==
    /\ call[c].pc = "queued"
    /\ Head(tails[HostOf[c]]) = c
    /\ call' = [call EXCEPT ![c].pc = "spacing"]
    /\ UNCHANGED <<chains, permits, waiting, breaker, challenged, jar, solver>>

\* The previous promise of the chain has settled.
Begin(c) ==
    LET h == HostOf[c]
    IN  /\ call[c].pc = "queued"
        /\ Head(tails[h]) = c
        /\ \E j \in Jittered(call[c].interval) :
            call' = [call EXCEPT ![c] = [@ EXCEPT !.pc = "spacing",
                                                  !.timer = Larger(j - sinceStart[h], 0)]]
        /\ UNCHANGED <<chains, permits, waiting, breaker, challenged, jar, solver>>

\* Mutant: the breaker is not asked.
StartUnchecked(c) ==
    /\ call[c].pc = "spacing"
    /\ call[c].timer = 0
    /\ sinceStart' = [sinceStart EXCEPT ![HostOf[c]] = 0]
    /\ Send(c, [call[c] EXCEPT !.attempt = 1])
    /\ UNCHANGED <<tails, breaker, challenged, jar, solver>>

Start(c) ==
    LET h == HostOf[c]
    IN  /\ call[c].pc = "spacing"
        /\ call[c].timer = 0
        /\ sinceStart' = [sinceStart EXCEPT ![h] = 0]
        /\ \/ /\ cooling[h] = 0
              /\ Send(c, [call[c] EXCEPT !.attempt = 1])
              /\ UNCHANGED tails
           \/ /\ cooling[h] > 0
              /\ Unchain(c)
              /\ call' = [call EXCEPT ![c] = Idle]
              /\ UNCHANGED <<permits, waiting>>
        /\ UNCHANGED <<breaker, challenged, jar, solver>>

\* The sleep between two attempts is over.
Retry(c) ==
    /\ call[c].pc = "backoff"
    /\ call[c].timer = 0
    /\ Send(c, [call[c] EXCEPT !.attempt = @ + 1])
    /\ UNCHANGED <<chains, breaker, challenged, jar, solver>>

-----------------------------------------------------------------------------
(* What comes back from once()                                             *)

\* An answer, or the failure of the last attempt: the promise settles.
Settles(c) ==
    /\ Release(c, Idle)
    /\ Unchain(c)

SleepsThenRetries(c, ms) ==
    /\ Release(c, [call[c] EXCEPT !.pc = "backoff", !.timer = ms])
    /\ UNCHANGED tails

\* 2xx, or an error that is an answer.
Answered(c) ==
    /\ Succeeded(HostOf[c])
    /\ Settles(c)
    /\ UNCHANGED <<challenged, solver>>

Unreachable(c) ==
    /\ OpenFor(HostOf[c])
    /\ Settles(c)
    /\ UNCHANGED <<challenged, solver>>

RetriesOrGivesUp(c, delays) ==
    \/ call[c].attempt = MaxAttempts /\ Settles(c)
    \/ call[c].attempt < MaxAttempts /\ \E ms \in delays : SleepsThenRetries(c, ms)

\* A reset mid-response, or a retriable status that says nothing more.
FailsSoftly(c) ==
    /\ FailedSoftly(HostOf[c])
    /\ RetriesOrGivesUp(c, Jittered(Backoff(call[c].attempt)))
    /\ UNCHANGED <<challenged, solver>>

\* A retriable status with Retry-After.
ToldToWait(c, after) ==
    /\ FailedSoftly(HostOf[c])
    /\ RetriesOrGivesUp(c, {after})
    /\ UNCHANGED <<challenged, solver>>

\* A challenge: solveOnce, which refuses during the host's cooldown.  A request
\* that is not a GET, challenged for the first time, is to be sent again.
Challenged(c) ==
    LET h == HostOf[c]
        resend == c \in Posts /\ call[c].clearance = "none"
    IN  /\ challenged' = challenged \cup {h}
        /\ IF SolverAvailable /\ sinceSolve[h] >= SolveCooldown
           THEN /\ solveChain' = Append(solveChain, c)
                /\ Release(c, [call[c] EXCEPT !.pc = "toSolve",
                                !.clearance = IF resend THEN "earning" ELSE @])
                /\ UNCHANGED tails
           ELSE Settles(c) /\ UNCHANGED solveChain
        /\ UNCHANGED <<breaker, sinceSolve>>

Response(c) ==
    /\ call[c].pc = "fetching"
    /\ \/ Answered(c)
       \/ Unreachable(c)
       \/ FailsSoftly(c)
       \/ \E after \in RetryAfters : ToldToWait(c, after)
       \/ Challenged(c)
    /\ UNCHANGED <<sinceStart, jar>>

-----------------------------------------------------------------------------
(* The browser: one solve at a time.                                       *)

\* Mutant: the browser is not waited for.
SolveBeginAtOnce(c) ==
    /\ call[c].pc = "toSolve"
    /\ call' = [call EXCEPT ![c].pc = "solving"]
    /\ sinceSolve' = [sinceSolve EXCEPT ![HostOf[c]] = 0]
    /\ UNCHANGED <<chains, permits, waiting, breaker, challenged, jar, solveChain>>

SolveBegin(c) ==
    /\ call[c].pc = "toSolve"
    /\ Head(solveChain) = c
    /\ call' = [call EXCEPT ![c].pc = "solving"]
    /\ sinceSolve' = [sinceSolve EXCEPT ![HostOf[c]] = 0]
    /\ UNCHANGED <<chains, permits, waiting, breaker, challenged, jar, solveChain>>

SolveEnds(c) ==
    /\ call[c].pc = "solving"
    /\ solveChain' = Tail(solveChain)
    /\ UNCHANGED <<sinceStart, breaker, challenged, sinceSolve>>

\* "continue" goes on to the next attempt, if there is one.
Resend(c) ==
    /\ SolveEnds(c)
    /\ call[c].clearance = "earning"
    /\ call[c].attempt < MaxAttempts
    /\ jar' = jar \cup {HostOf[c]}
    /\ Send(c, [call[c] EXCEPT !.attempt = @ + 1, !.clearance = "earned"])
    /\ UNCHANGED tails

\* Solved for a GET, solved with no attempt left, or not solved.
SolveSettles(c, solved) ==
    /\ SolveEnds(c)
    /\ solved => call[c].clearance # "earning" \/ call[c].attempt = MaxAttempts
    /\ jar' = IF solved THEN jar \cup {HostOf[c]} ELSE jar
    /\ call' = [call EXCEPT ![c] = Idle]
    /\ Unchain(c)
    /\ UNCHANGED <<permits, waiting>>

Solve(c) ==
    \/ SolveBegin(c)
    \/ Resend(c)
    \/ \E solved \in BOOLEAN : SolveSettles(c, solved)

-----------------------------------------------------------------------------
\* The reader asks to forget cookies and challenges.
Reset ==
    /\ challenged' = {}
    /\ jar' = {}
    /\ UNCHANGED <<call, chains, permits, waiting, breaker, solver>>

Ages(f, cap) == [h \in Hosts |-> Smaller(f[h] + 1, cap)]
Left(f) == [h \in Hosts |-> Larger(f[h] - 1, 0)]

Tick ==
    /\ call' = [c \in Calls |-> [call[c] EXCEPT !.timer = Larger(@ - 1, 0)]]
    /\ sinceStart' = Ages(sinceStart, LongAgo)
    /\ cooling' = Left(cooling)
    /\ sinceSolve' = Ages(sinceSolve, SolveCooldown)
    /\ UNCHANGED <<tails, permits, waiting, failures, challenged, jar, solveChain>>

Step(c) == Begin(c) \/ Start(c) \/ Retry(c) \/ Response(c) \/ Solve(c)

HttpNext ==
    \/ \E c \in Calls : Request(c) \/ Step(c)
    \/ Reset
    \/ Tick

HttpSpec == HttpInit /\ [][HttpNext]_httpVars

(* Timers fire; fetches and solves are cut off by AbortSignal.timeout.     *)
HttpFairness == WF_httpVars(Tick) /\ \A c \in Calls : WF_httpVars(Step(c))

HttpFairSpec == HttpSpec /\ HttpFairness
-----------------------------------------------------------------------------
(* Properties.                                                             *)

Busy == {"spacing", "permit", "fetching", "backoff", "toSolve", "solving"}
InChain == Busy \cup {"queued"}

HttpTypeOK ==
    /\ call \in [Calls -> Call]
    /\ tails \in [Hosts -> Seq(Calls)]
    /\ sinceStart \in [Hosts -> 0..LongAgo]
    /\ permits \in 0..MaxInFlight
    /\ waiting \in Seq(Calls)
    /\ failures \in [Hosts -> 0..(BreakerFailures - 1)]
    /\ cooling \in [Hosts -> 0..BreakerCooldown]
    /\ challenged \subseteq Hosts
    /\ jar \subseteq Hosts
    /\ solveChain \in Seq(Calls)
    /\ sinceSolve \in [Hosts -> 0..SolveCooldown]

(* Every permit is either free or held by exactly one fetch, nobody waits  *)
(* for one while one is free, and the line holds each waiter once: through *)
(* all answers, errors, retries and solves no permit is leaked or doubled. *)
PermitsAccounted ==
    LET fetching == {c \in Calls : call[c].pc = "fetching"}
        inLine == {c \in Calls : call[c].pc = "permit"}
    IN  /\ permits + Cardinality(fetching) = MaxInFlight
        /\ waiting # <<>> => permits = 0
        /\ inLine = {waiting[i] : i \in DOMAIN waiting}
        /\ Cardinality(inLine) = Len(waiting)

(* A host's requests go one after the other: whatever a request is doing,  *)
(* sleeping between attempts and waiting for the browser included, it is   *)
(* the first of its host's chain, and the others have not begun.           *)
SerialPerHost ==
    \A c \in Calls :
        /\ call[c].pc \in Busy => tails[HostOf[c]] # <<>> /\ Head(tails[HostOf[c]]) = c
        /\ call[c].pc \in InChain <=>
                \E i \in DOMAIN tails[HostOf[c]] : tails[HostOf[c]][i] = c

(* Two requests to a host begin at least the later one's interval apart,   *)
(* less the jitter, whatever came between them.                            *)
StartsSpaced ==
    \A c \in Calls :
        Start(c) => sinceStart[HostOf[c]] >= (call[c].interval * 7) \div 10

(* A request on its first attempt is never on the wire, or in line for it, *)
(* with its host's breaker open, though the breaker is only consulted      *)
(* before that attempt waits for its permit.                               *)
FirstAttemptFindsHostOpen ==
    \A c \in Calls :
        call[c].pc \in {"permit", "fetching"} /\ call[c].attempt = 1 => cooling[HostOf[c]] = 0

(* The browser serves one challenge at a time and takes no host on again   *)
(* within the cooldown, though the cooldown is checked when the challenge  *)
(* is met and the browser may only get to it much later.                   *)
SolvesAreRare ==
    [][\A c \in Calls :
            call[c].pc # "solving" /\ call'[c].pc = "solving"
                => /\ sinceSolve[HostOf[c]] >= SolveCooldown
                   /\ \A d \in Calls : call[d].pc # "solving"]_httpVars

(* Every request settles in the end: no chain, line or browser queue holds *)
(* one for ever, whatever the sites answer and whoever asks meanwhile.     *)
EveryCallSettles == \A c \in Calls : call[c] # Idle ~> call[c] = Idle
=============================================================================
