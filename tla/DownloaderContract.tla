------------------------- MODULE DownloaderContract --------------------------
(***************************************************************************)
(* What the downloader promises the accounts of a server, without row      *)
(* ids, positions, files or the steps of an attempt: how a chapter's entry *)
(* may change, whose work may be in flight, and when an account stops      *)
(* being STARTED.  It is what docs and comments of downloads/ describe as  *)
(* the contract with the UI.                                               *)
(***************************************************************************)
EXTENDS Integers, FiniteSets

CONSTANTS
    Users,      \* accounts
    Chapters,   \* rows of the table chapter
    Owner,      \* the account each belongs to
    MaxActive   \* MAX_ACTIVE

VARIABLES
    status,   \* what the queue says of each chapter
    started,  \* accounts whose downloader is STARTED
    done      \* chapters that are downloaded

contract == <<status, started, done>>

Status == {"none", "QUEUED", "DOWNLOADING", "ERROR"}

Of(u) == {c \in Chapters : Owner[c] = u}

With(states) == {c \in Chapters : status[c] \in states}

Waiting(u) == Of(u) \cap With({"QUEUED"})

Pending(u) == Of(u) \cap With({"QUEUED", "DOWNLOADING"})

ContractInit ==
    /\ status = [c \in Chapters |-> "none"]
    /\ started = {}
    /\ done = {}

Set(cs, state) == [c \in Chapters |-> IF c \in cs THEN state ELSE status[c]]

\* Only chapters of the account that are neither queued nor on disk.
Queue(u, cs) ==
    /\ cs \subseteq (Of(u) \cap With({"none"})) \ done
    /\ status' = Set(cs, "QUEUED")
    /\ UNCHANGED <<started, done>>

\* Taking out the last pending chapter stops the account.
TakeOut(u, cs) ==
    /\ cs \subseteq Of(u)
    /\ status' = Set(cs, "none")
    /\ started' = IF Pending(u) \subseteq cs THEN started \ {u} ELSE started
    /\ UNCHANGED done

\* Pressing start does nothing for an account with nothing to do.
Start(u) ==
    /\ started' = IF Pending(u) = {} THEN started \ {u} ELSE started \cup {u}
    /\ UNCHANGED <<status, done>>

Requeued(cs) == Set(cs \cap With({"DOWNLOADING"}), "QUEUED")

Stop(u) ==
    /\ started' = started \ {u}
    /\ status' = Requeued(Of(u))
    /\ UNCHANGED done

Empty(u) ==
    /\ started' = started \ {u}
    /\ status' = Set(Of(u), "none")
    /\ UNCHANGED done

\* Work begins on one chapter each of started accounts that have none in flight.
Begin(cs) ==
    /\ cs # {}
    /\ \A c \in cs :
        /\ status[c] = "QUEUED"
        /\ Owner[c] \in started
        /\ Of(Owner[c]) \cap With({"DOWNLOADING"}) = {}
        /\ Of(Owner[c]) \cap cs = {c}
    /\ Cardinality(cs) + Cardinality(With({"DOWNLOADING"})) <= MaxActive
    /\ status' = Set(cs, "DOWNLOADING")
    /\ UNCHANGED <<started, done>>

\* After the work on a chapter of u the account stops if nothing waits.
Ended(u) ==
    started' = IF \A c \in Of(u) : status'[c] # "QUEUED" THEN started \ {u} ELSE started

\* The chapter is on disk, and its entry, if it still has that one, leaves.
Land(c) ==
    /\ done' = done \cup {c}
    /\ status' \in {status, Set({c}, "none")}
    /\ Ended(Owner[c])

\* The work ended without the chapter: paused, to be retried, or given up.
Return(c) ==
    /\ status' \in {status} \cup
            (IF status[c] \in {"QUEUED", "DOWNLOADING"}
             THEN {Set({c}, "QUEUED"), Set({c}, "ERROR")} ELSE {})
    /\ Ended(Owner[c])
    /\ UNCHANGED done

Forget(cs) ==
    /\ done' = done \ cs
    /\ UNCHANGED <<status, started>>

\* The process stops, dies or starts: nobody is STARTED any more.
Halt ==
    /\ started' = {}
    /\ status' \in {status, Requeued(Chapters)}
    /\ UNCHANGED done

ContractNext ==
    \/ \E u \in Users : Start(u) \/ Stop(u) \/ Empty(u)
    \/ \E u \in Users, cs \in SUBSET Chapters : Queue(u, cs) \/ TakeOut(u, cs)
    \/ \E cs \in SUBSET Chapters : Begin(cs) \/ Forget(cs)
    \/ \E c \in Chapters : Land(c) \/ Return(c)
    \/ Halt

ContractSpec == ContractInit /\ [][ContractNext]_contract
=============================================================================
