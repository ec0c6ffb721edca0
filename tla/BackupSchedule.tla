---------------------------- MODULE BackupSchedule ----------------------------
(***************************************************************************)
(* The automated backup of one account (backup/schedule.ts) and the        *)
(* archives it shares a directory with (backup/create.ts).  The server     *)
(* looks every five minutes, one step of the clock here, and writes an     *)
(* archive when one is due; old archives are deleted after a success.      *)
(***************************************************************************)
EXTENDS Naturals, Sequences, FiniteSets

CONSTANTS
    DayLength,     \* checks in a day
    Intervals,     \* backupInterval, in checks; 0 switches the job off
    Slots,         \* backupTime, in checks past midnight, DayLength for a time
                   \* after the day's last check
    Ttls,          \* backupTTL, in days; 0 keeps everything
    MaxArchives,   \* bound: archives beyond which the account takes no more itself
    Days           \* bound: days looked at

ASSUME BackupScheduleAssumption ==
    /\ DayLength \in Nat \ {0} /\ MaxArchives \in Nat /\ Days \in Nat
    /\ Intervals \subseteq Nat /\ Slots \subseteq 0..DayLength /\ Ttls \subseteq Nat

VARIABLES
    tick,        \* checks since midnight of the first day
    backingUp,   \* whether the server is up
    settings,    \* the account's
    lastRun,     \* the stamp, in half checks, or 0
    archives,    \* the directory, newest first
    steady       \* since when: up, same settings, and no failure

scheduleVars == <<tick, backingUp, settings, lastRun, archives, steady>>

Settings == [interval : Intervals, slot : Slots, ttl : Ttls]

ScheduleInit ==
    /\ tick = 1
    /\ backingUp = TRUE
    /\ settings \in Settings
    /\ lastRun = 0
    /\ archives = <<>>
    /\ steady = 1

Archive(at, whole) == [at |-> at, whole |-> whole]

\* Mutant: the slot awaited by counting on from the last run alone.
DueByInterval(now) ==
    /\ settings.interval > 0
    /\ now % DayLength = settings.slot
    /\ lastRun > 0 => 2 * now - lastRun >= 2 * settings.interval

\* isDue: enough time has passed and, for a day or more, the time has come.
IsDue(now) ==
    LET atOrPastSlot == now % DayLength >= settings.slot
    IN  /\ settings.interval > 0
        /\ IF lastRun = 0 THEN atOrPastSlot
           ELSE /\ 2 * now - lastRun >= 2 * settings.interval
                /\ settings.interval < DayLength \/ atOrPastSlot

Young(f, now) == f.at + settings.ttl * DayLength >= now

\* What applyTtl is to delete: what is old, and never the newest.
Expired(files, now) ==
    IF settings.ttl = 0 THEN {} ELSE {i \in DOMAIN files : i # 1 /\ ~Young(files[i], now)}

\* The others, in their order.
Without(files, gone) ==
    LET left == DOMAIN files \ gone
    IN  [k \in 1..Cardinality(left) |->
            files[CHOOSE i \in left : Cardinality({j \in left : j <= i}) = k]]

\* Mutant: the old ones go first, to make room.
BackedUpAfterTtl(now) ==
    LET young == Without(archives, {i \in DOMAIN archives : ~Young(archives[i], now)})
    IN  \/ /\ archives' = <<Archive(now, TRUE)>> \o young
           /\ lastRun' \in {2 * now, 2 * now + 1}
           /\ UNCHANGED <<backingUp, steady>>
        \/ /\ archives' = <<Archive(now, FALSE)>> \o young
           /\ backingUp' \in BOOLEAN
           /\ steady' = now
           /\ UNCHANGED lastRun

\* runOnce: the archive, then the stamp, then the old ones, of which some may
\* not let themselves be deleted.  A write that fails, or is cut off with the
\* server, leaves a file that is no archive; a stamp that fails, or is cut
\* off, leaves an archive nothing was stamped for.
BackedUp(now) ==
    \/ /\ LET files == <<Archive(now, TRUE)>> \o archives
          IN  \E gone \in SUBSET Expired(files, now) : archives' = Without(files, gone)
       /\ lastRun' \in {2 * now, 2 * now + 1}
       /\ UNCHANGED <<backingUp, steady>>
    \/ \E whole \in BOOLEAN :
       /\ archives' = <<Archive(now, whole)>> \o archives
       /\ backingUp' \in BOOLEAN
       /\ steady' = now
       /\ UNCHANGED lastRun

Check ==
    /\ tick < Days * DayLength
    /\ tick' = tick + 1
    /\ IF backingUp /\ IsDue(tick + 1) THEN BackedUp(tick + 1)
       ELSE /\ steady' = IF backingUp THEN steady ELSE tick + 1
            /\ UNCHANGED <<backingUp, lastRun, archives>>
    /\ UNCHANGED settings

\* createBackup of the account itself, into the same directory.
CreateArchive ==
    /\ backingUp
    /\ Len(archives) < MaxArchives
    /\ \E whole \in BOOLEAN : archives' = <<Archive(tick, whole)>> \o archives
    /\ UNCHANGED <<tick, backingUp, settings, lastRun, steady>>

SetSettings(s) ==
    /\ backingUp
    /\ settings' = s
    /\ steady' = tick
    /\ UNCHANGED <<tick, backingUp, lastRun, archives>>

StopServer ==
    /\ backingUp
    /\ backingUp' = FALSE
    /\ UNCHANGED <<tick, settings, lastRun, archives, steady>>

StartServer ==
    /\ ~backingUp
    /\ backingUp' = TRUE
    /\ steady' = tick
    /\ UNCHANGED <<tick, settings, lastRun, archives>>

ScheduleNext ==
    \/ Check
    \/ CreateArchive
    \/ \E s \in Settings : SetSettings(s)
    \/ StopServer \/ StartServer

ScheduleSpec == ScheduleInit /\ [][ScheduleNext]_scheduleVars

ScheduleTypeOK ==
    /\ settings \in Settings
    /\ lastRun <= 2 * tick + 1
    /\ \A i \in DOMAIN archives : archives[i].at <= tick
    /\ steady <= tick

WholeBackups == {i \in DOMAIN archives : archives[i].whole}

\* Once there is an archive to restore from there always is one, whatever the
\* settings, the failures and the files they leave: a reader who "did not open
\* the app for a week should still have something" (schedule.ts:117-122).
SomethingToRestore == WholeBackups # {} => WholeBackups' # {}

\* Some check of the day is past the slot, or the slot is not asked for.
SlotIsMet ==
    settings.slot < DayLength \/ (lastRun > 0 /\ settings.interval < DayLength)

\* While the server is up and nothing fails, no archive is further than its
\* interval and a day behind the one before, though runs drift past their slot
\* and past midnight (schedule.ts:83-103).  That is so of a slot some check of
\* the day is past: with one after the last check, as 23:59 is when the checks
\* fall on :00 and :05, no first and no daily archive is ever due.
NoLongGap ==
    LET since == IF lastRun \div 2 >= steady THEN lastRun \div 2 ELSE steady
    IN  backingUp /\ settings.interval > 0 /\ SlotIsMet =>
            tick - since <= settings.interval + DayLength
=============================================================================
