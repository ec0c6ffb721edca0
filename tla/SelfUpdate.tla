------------------------------ MODULE SelfUpdate ------------------------------
(***************************************************************************)
(* `s4m update` and `s4m rollback` (update.ts, cli.ts): a release is       *)
(* fetched and unpacked beside the installation, then swapped in path by   *)
(* path; the build it replaces is kept for one rollback.  Either may be    *)
(* cut off, or fail, between any two of its steps.                         *)
(*                                                                         *)
(* A tree gives each path of the payload the release it is of.  Moving,    *)
(* removing or copying the tree of one path is a step.                     *)
(***************************************************************************)
EXTENDS Naturals, Sequences

CONSTANTS
    Payload,     \* PAYLOAD, in its order, the server's code first
    Required,    \* paths of MUST_EXIST: a release without them is refused
    Releases     \* what the latest release may be: trees, some with holes

Paths == {Payload[i] : i \in DOMAIN Payload}

ASSUME SelfUpdateAssumption ==
    /\ Payload \in Seq(Paths) /\ Len(Payload) > 0
    /\ Required \subseteq Paths /\ Payload[1] \in Required
    /\ Releases \subseteq [Paths -> Nat]

VARIABLES
    live,        \* the installation: 0 where a path is missing
    staging,     \* the release unpacked
    previous,    \* what the last update replaced
    stamp,       \* .updates/previous/VERSION, or 0
    job,         \* the command under way, and the path it is at
    before,      \* history: the tree the last swap found
    torn         \* history: that update was cut off while previous/ was emptied

updateVars == <<live, staging, previous, stamp, job, before, torn>>

NoTree == [p \in Paths |-> 0]
NoJob == [name |-> "none", at |-> 0]
CommandEnded == Len(Payload) + 1

UpdateInit ==
    /\ live = [p \in Paths |-> 1]
    /\ staging = NoTree /\ previous = NoTree
    /\ stamp = 0
    /\ job = NoJob
    /\ before = live
    /\ torn = FALSE

\* The release whose code runs: the command line is part of the payload.
Version == live[Payload[1]]

WholeTree(tree) == \A p \in Required : tree[p] # 0

\* update: nothing but a newer release is installed.  What is left of an
\* earlier attempt is removed; an incomplete release is removed and refused.
Fetch(release) ==
    /\ job = NoJob
    /\ Version > 0 /\ \E p \in Paths : release[p] > Version
    /\ IF WholeTree(release)
       THEN /\ staging' = release
            /\ job' = [name |-> "empty", at |-> 0]
       ELSE /\ staging' = NoTree
            /\ UNCHANGED job
    /\ UNCHANGED <<live, previous, stamp, before, torn>>

\* previous/ is removed with its stamp, in no set order.
ClearTree(p) ==
    /\ job.name = "empty" /\ previous[p] # 0
    /\ previous' = [previous EXCEPT ![p] = 0]
    /\ torn' = TRUE
    /\ UNCHANGED <<live, staging, stamp, job, before>>

ClearStamp ==
    /\ job.name = "empty" /\ stamp # 0
    /\ stamp' = 0
    /\ UNCHANGED <<live, staging, previous, job, before, torn>>

Cleared ==
    /\ job.name = "empty" /\ previous = NoTree /\ stamp = 0
    /\ job' = [name |-> "swap", at |-> 1]
    /\ torn' = FALSE
    /\ before' = live
    /\ UNCHANGED <<live, staging, previous, stamp>>

At == Payload[job.at]
Swapping == job.name = "swap" /\ job.at \in DOMAIN Payload
Onward == job' = [job EXCEPT !.at = @ + 1]

\* A path the release has not got stays as it is.
Skip ==
    /\ Swapping /\ staging[At] = 0
    /\ Onward
    /\ UNCHANGED <<live, staging, previous, stamp, before, torn>>

MoveOut ==
    /\ Swapping /\ staging[At] # 0 /\ live[At] # 0
    /\ previous' = [previous EXCEPT ![At] = live[At]]
    /\ live' = [live EXCEPT ![At] = 0]
    /\ UNCHANGED <<staging, stamp, job, before, torn>>

\* Mutant: what is in the way is overwritten.
MoveOutGone ==
    /\ Swapping /\ staging[At] # 0 /\ live[At] # 0
    /\ live' = [live EXCEPT ![At] = 0]
    /\ UNCHANGED <<staging, previous, stamp, job, before, torn>>

MoveIn ==
    /\ Swapping /\ staging[At] # 0 /\ live[At] = 0
    /\ live' = [live EXCEPT ![At] = staging[At]]
    /\ staging' = [staging EXCEPT ![At] = 0]
    /\ Onward
    /\ UNCHANGED <<previous, stamp, before, torn>>

\* The stamp comes last: it says that previous/ holds a whole build.
StampPrevious ==
    /\ job = [name |-> "swap", at |-> CommandEnded]
    /\ stamp' = before[Payload[1]]
    /\ staging' = NoTree
    /\ job' = NoJob
    /\ UNCHANGED <<live, previous, before, torn>>

\* rollback: refused unless previous/ is stamped.
Rollback ==
    /\ job = NoJob
    /\ Version > 0 /\ stamp # 0
    /\ job' = [name |-> "restore", at |-> 1]
    /\ UNCHANGED <<live, staging, previous, stamp, before, torn>>

Restoring == job.name = "restore" /\ job.at \in DOMAIN Payload

RemoveLive ==
    /\ Restoring /\ previous[At] # 0 /\ live[At] # 0
    /\ live' = [live EXCEPT ![At] = 0]
    /\ UNCHANGED <<staging, previous, stamp, job, before, torn>>

\* Copied rather than moved: the next rollback finds it again.
CopyBack ==
    /\ Restoring /\ previous[At] # 0 /\ live[At] = 0
    /\ live' = [live EXCEPT ![At] = previous[At]]
    /\ Onward
    /\ UNCHANGED <<staging, previous, stamp, before, torn>>

\* A path the update did not replace stays as it is.
LeaveLive ==
    /\ Restoring /\ previous[At] = 0
    /\ Onward
    /\ UNCHANGED <<live, staging, previous, stamp, before, torn>>

RolledBack ==
    /\ job = [name |-> "restore", at |-> CommandEnded]
    /\ job' = NoJob
    /\ UNCHANGED <<live, staging, previous, stamp, before, torn>>

\* The command is killed, or fails: an exception leaves what it finds.
CutOff ==
    /\ job # NoJob
    /\ job' = NoJob
    /\ UNCHANGED <<live, staging, previous, stamp, before, torn>>

UpdateNext ==
    \/ \E release \in Releases : Fetch(release)
    \/ \E p \in Paths : ClearTree(p)
    \/ ClearStamp \/ Cleared
    \/ Skip \/ MoveOut \/ MoveIn \/ StampPrevious
    \/ Rollback \/ RemoveLive \/ CopyBack \/ LeaveLive \/ RolledBack
    \/ CutOff

UpdateSpec == UpdateInit /\ [][UpdateNext]_updateVars

-----------------------------------------------------------------------------
UpdateTypeOK ==
    /\ {live, staging, previous, before} \subseteq [Paths -> Nat]
    /\ stamp \in Nat /\ torn \in BOOLEAN
    /\ job \in [name : {"none", "empty", "swap", "restore"}, at : 0..CommandEnded]

\* A rollback that ends has put back every path the update it undoes had
\* found, however many rollbacks were cut off before it and whatever
\* release was refused in between; and no tree a swap found is lost, from
\* its first move, wherever it is cut off, until another update begins to
\* empty previous/ (update.ts:268-340).  That is all: a swap cut off has no
\* stamp, so that the rollback which would mend it is refused; and where the
\* emptying is cut off the stamp may be left, and the rollback then ends with
\* a mixture, though one "interrupted halfway can simply be run again"
\* (update.ts:334-335).
RollbackUndoes ==
    /\ job = [name |-> "restore", at |-> CommandEnded] /\ ~torn =>
         \A p \in Paths : before[p] # 0 => live[p] = before[p]
    /\ ~torn =>
         \A p \in Paths : before[p] # 0 => before[p] \in {live[p], previous[p]}
=============================================================================
