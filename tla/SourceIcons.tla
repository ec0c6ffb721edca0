----------------------------- MODULE SourceIcons -----------------------------
(***************************************************************************)
(* The icons of the sources (sources/icons.ts): answered from memory, from *)
(* disk or with a monogram, and fetched in the background, a few at once,  *)
(* for the next time.                                                      *)
(***************************************************************************)
EXTENDS Naturals, FiniteSets, Sequences

CONSTANTS
    Sites,           \* packages whose site is known
    WarmConcurrency  \* WARM_CONCURRENCY

ASSUME SourceIconsAssumption == WarmConcurrency \in Nat \ {0}

VARIABLES
    iconMemory,      \* icons held by the process
    iconDisk,        \* icons in the cache directory
    missing,         \* sites not asked again by this process
    warming,         \* packages queued or in flight
    fetching,        \* those in flight
    iconWaiting,     \* the queue
    active          \* the counter of slots taken

iconVars == <<iconMemory, iconDisk, missing, warming, fetching, iconWaiting, active>>

IconsInit ==
    /\ iconMemory = {} /\ iconDisk = {} /\ missing = {} /\ warming = {}
    /\ fetching = {} /\ iconWaiting = <<>> /\ active = 0

\* Mutant: a package that waits in the queue is not looked for.
WantedAgain(p) == p \notin missing /\ p \notin fetching

IconWanted(p) == p \notin missing /\ p \notin warming

\* schedule
Enqueued(p) ==
    IF active < WarmConcurrency
    THEN /\ fetching' = fetching \cup {p}
         /\ active' = active + 1
         /\ UNCHANGED iconWaiting
    ELSE /\ iconWaiting' = Append(iconWaiting, p)
         /\ UNCHANGED <<fetching, active>>

\* A request for an icon.
SourceIcon(p) ==
    /\ p \notin iconMemory
    /\ IF p \in iconDisk
       THEN /\ iconMemory' = iconMemory \cup {p}
            /\ UNCHANGED <<warming, fetching, iconWaiting, active>>
       ELSE /\ IconWanted(p)
            /\ warming' = warming \cup {p}
            /\ Enqueued(p)
            /\ UNCHANGED iconMemory
    /\ UNCHANGED <<iconDisk, missing>>

\* Mutant: the slot is kept when the site has no icon.
SlotKept(p) ==
    /\ fetching' = fetching \ {p}
    /\ UNCHANGED <<iconWaiting, active>>

\* The slot passes to the one that waited longest.
SlotFreed(p) ==
    /\ fetching' = (fetching \ {p}) \cup (IF iconWaiting = <<>> THEN {} ELSE {Head(iconWaiting)})
    /\ iconWaiting' = IF iconWaiting = <<>> THEN iconWaiting ELSE Tail(iconWaiting)
    /\ active' = IF iconWaiting = <<>> THEN active - 1 ELSE active

\* fetchIcon has tried all there is to try; a full disk costs the file only.
IconFetched(p, found, stored) ==
    /\ p \in fetching
    /\ stored => found
    /\ IF found
       THEN iconMemory' = iconMemory \cup {p} /\ UNCHANGED missing
       ELSE missing' = missing \cup {p} /\ UNCHANGED iconMemory
    /\ iconDisk' = IF stored THEN iconDisk \cup {p} ELSE iconDisk
    /\ warming' = warming \ {p}
    /\ SlotFreed(p)

RestartIcons ==
    /\ iconMemory' = {} /\ missing' = {} /\ warming' = {}
    /\ fetching' = {} /\ iconWaiting' = <<>> /\ active' = 0
    /\ UNCHANGED iconDisk

IconsNext ==
    \/ \E p \in Sites :
          \/ SourceIcon(p)
          \/ \E found, stored \in BOOLEAN : IconFetched(p, found, stored)
    \/ RestartIcons

IconsSpec == IconsInit /\ [][IconsNext]_iconVars

IconsTypeOK ==
    /\ iconDisk \subseteq Sites /\ missing \subseteq Sites
    /\ iconWaiting \in Seq(Sites)
    /\ active \in 0..WarmConcurrency

\* No site is asked twice at once, no more are asked than there are slots, no
\* slot is lost, and none stands free while a package waits, however answers,
\* failures and requests of many pages fall together (icons.ts:332-343).
WarmedOnce ==
    /\ Cardinality(fetching) = active
    /\ active < WarmConcurrency => iconWaiting = <<>>
    /\ warming = fetching \cup {iconWaiting[i] : i \in DOMAIN iconWaiting}
    /\ Cardinality(warming) = active + Len(iconWaiting)
=============================================================================
