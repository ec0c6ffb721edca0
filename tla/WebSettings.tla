---------------------------- MODULE WebSettings ----------------------------
(***************************************************************************)
(* The account-wide preferences of the web client (src/web/src/utils/      *)
(* settings.ts, started by main.tsx): one page that holds every preference *)
(* as a name and its raw string, paints from the browser's mirror, adopts  *)
(* the account's stored copy when the one query of the page is answered,   *)
(* and pushes its whole copy back after a delay or when it is hidden.      *)
(* Another device of the same account writes the stored copy whenever it   *)
(* likes.  A raw string is a member of Raws; those outside Known are ones  *)
(* this version of the client does not recognise.                          *)
(***************************************************************************)
EXTENDS Naturals, FiniteSets, Functions

CONSTANTS Settings,     \* the names of the preferences
          Raws,         \* what a preference may be stored as
          Known,        \* the stored forms this client's decoders accept
          Unset,        \* no entry under the name
          MaxChanges,   \* bound: changes of preferences, here and elsewhere
          MaxLoads,     \* bound: times the page is loaded
          MaxPushes     \* bound: pushes on their way at once

ASSUME SettingsAssumption == /\ Known \subseteq Raws
                             /\ Unset \notin Raws
                             /\ {MaxChanges, MaxLoads, MaxPushes} \subseteq Nat

VARIABLES stored,      \* the account's copy, in its global meta
          prefs,       \* the copy this page works from (values)
          mirror,      \* the browser's copy of it
          legacy,      \* what the old per-setting keys of the browser hold
          changedHere, \* names changed since the page was loaded
          timer,       \* a push is scheduled
          querying,     \* the page's query has not been answered
          pushes,      \* copies on their way to the server
          painted,     \* what subscribers last drew, by name
          mine,        \* history: the last choice made on this page, by name
          told,        \* history: what was last sent of those choices
          changes, loads

settingsPageVars == <<prefs, mirror, legacy, changedHere, timer, querying, painted, mine, told>>
settingsVars == <<stored, pushes, changes, loads, settingsPageVars>>

Copy == [Settings -> Raws \cup {Unset}]
NoCopy == [s \in Settings |-> Unset]

\* Mutant: a stored form is taken for what it names.
DecodedAnyway(raw) == raw

\* What a subscriber makes of a stored form; Unset stands for the default.
Decoded(raw) == IF raw \in Known THEN raw ELSE Unset

\* Mutant: only the names the answer holds are looked at.
TouchedByAnswer(old, new) == {s \in Settings : old[s] # new[s] /\ new[s] # Unset}

\* Names whose listeners are called when one copy replaces another.
Touched(old, new) == {s \in Settings : old[s] # new[s]}

Notified(names, new) == [s \in Settings |-> IF s \in names THEN Decoded(new[s]) ELSE painted[s]]

\* Mutant: what was changed here only fills the gaps of the answer.
MergedOverMine(server) ==
    [s \in Settings |-> IF s \in changedHere /\ server[s] = Unset THEN prefs[s] ELSE server[s]]

\* The server's copy, except for what this page has already changed.
MergedSettings(server) ==
    [s \in Settings |-> IF s \in changedHere /\ prefs[s] # Unset THEN prefs[s] ELSE server[s]]

\* Old keys whose preference has no value yet become that preference.
Migrated(copy, old) == {s \in Settings : old[s] # Unset /\ copy[s] = Unset}

PageLoaded(copy, old) ==
    LET moved == Migrated(copy, old)
        new   == [s \in Settings |-> IF s \in moved THEN old[s] ELSE copy[s]]
    IN /\ prefs = new /\ mirror = new
       /\ legacy = NoCopy
       /\ changedHere = moved
       /\ timer = (moved # {})
       /\ querying = TRUE
       /\ painted = [s \in Settings |-> Decoded(new[s])]
       /\ mine = [s \in Settings |-> IF s \in moved THEN new[s] ELSE Unset]
       /\ told = NoCopy

SettingsInit ==
    /\ stored \in Copy
    /\ \E m, old \in Copy : PageLoaded(m, old)
    /\ pushes = {} /\ changes = 0 /\ loads = 1

WriteRaw(s, raw) ==
    /\ changes < MaxChanges /\ prefs[s] # raw
    /\ prefs' = [prefs EXCEPT ![s] = raw]
    /\ mirror' = prefs'
    /\ changedHere' = changedHere \cup {s}
    /\ timer' = TRUE
    /\ painted' = Notified({s}, prefs')
    /\ mine' = [mine EXCEPT ![s] = raw]
    /\ changes' = changes + 1
    /\ UNCHANGED <<stored, legacy, querying, pushes, told, loads>>

\* The delay is over, or the page is being hidden: the whole copy goes out,
\* whether or not anything is owed.
FlushSettings ==
    /\ Cardinality(pushes) < MaxPushes
    /\ pushes' = pushes \cup {prefs}
    /\ timer' = FALSE
    /\ told' = [s \in Settings |-> IF mine[s] = Unset THEN Unset ELSE prefs[s]]
    /\ UNCHANGED <<stored, prefs, mirror, legacy, changedHere, querying, painted, mine, changes, loads>>

PushArrives(copy) ==
    /\ copy \in pushes
    /\ stored' = copy
    /\ pushes' = pushes \ {copy}
    /\ UNCHANGED <<settingsPageVars, changes, loads>>

PushIsLost(copy) ==
    /\ copy \in pushes
    /\ pushes' = pushes \ {copy}
    /\ UNCHANGED <<stored, settingsPageVars, changes, loads>>

\* The answer replaces the page's copy; a query that fails is answered with
\* no data, which is adopted as an account that has nothing stored.
AdoptSettings(server) ==
    LET merged == MergedSettings(server) IN
    /\ querying
    /\ prefs' = merged /\ mirror' = merged
    /\ painted' = Notified(Touched(prefs, merged), merged)
    /\ timer' = (timer \/ \E s \in Settings : merged[s] # Unset /\ server[s] # merged[s])
    /\ querying' = FALSE
    /\ UNCHANGED <<stored, legacy, changedHere, pushes, mine, told, changes, loads>>

QueryAnswered == AdoptSettings(stored)
QueryFailed   == AdoptSettings(NoCopy)

\* Another page of the account pushes its copy, which differs in one name.
OtherDevice(s, raw) ==
    /\ changes < MaxChanges /\ stored[s] # raw
    /\ stored' = [stored EXCEPT ![s] = raw]
    /\ changes' = changes + 1
    /\ UNCHANGED <<pushes, settingsPageVars, loads>>

\* Closing the page loses the timer and nothing the browser stores.
Reload ==
    /\ loads < MaxLoads
    /\ loads' = loads + 1
    /\ prefs' = mirror
    /\ changedHere' = {} /\ timer' = FALSE /\ querying' = TRUE
    /\ painted' = [s \in Settings |-> Decoded(mirror[s])]
    /\ mine' = NoCopy /\ told' = NoCopy
    /\ UNCHANGED <<stored, mirror, legacy, pushes, changes>>

SettingsNext ==
    \/ \E s \in Settings, raw \in Raws : WriteRaw(s, raw) \/ OtherDevice(s, raw)
    \/ FlushSettings
    \/ \E copy \in pushes : PushArrives(copy) \/ PushIsLost(copy)
    \/ QueryAnswered \/ QueryFailed
    \/ Reload

SettingsSpec == SettingsInit /\ [][SettingsNext]_settingsVars

-----------------------------------------------------------------------------

\* Every variable of the page holds what its declaration says.
SettingsTypeOK ==
    /\ {stored, prefs, mirror, legacy, mine, told} \subseteq Copy
    /\ pushes \subseteq Copy
    /\ changedHere \subseteq Settings
    /\ timer \in BOOLEAN /\ querying \in BOOLEAN
    /\ painted \in [Settings -> Known \cup {Unset}]

\* A choice made on this page stands whatever is answered afterwards: it is
\* what the page holds and what the browser mirrors, it has been sent or is
\* scheduled to be, and every subscriber has drawn what the page now holds,
\* the names an answer took away included (settings.ts:79-84, :132-166).
ChoicesHere ==
    /\ \A s \in Settings : mine[s] # Unset =>
          /\ prefs[s] = mine[s] /\ mirror[s] = mine[s]
          /\ timer \/ told[s] = mine[s]
    /\ \A s \in Settings : painted[s] = Decoded(prefs[s])
=============================================================================
