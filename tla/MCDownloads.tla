----------------------------- MODULE MCDownloads -----------------------------
(***************************************************************************)
(* Small instances of Downloads for TLC.                                   *)
(***************************************************************************)
EXTENDS Downloads

\* Chapter ids carry their account: 11 and 12 are of account 1, 21 of 2.
OwnerByTens == [c \in Chapters |-> c \div 10]
OneAccount == {1}
TwoAccounts == {1, 2}
ChaptersOfOne == {11, 12}
ChapterOfEach == {11, 21}

\* Every chapter has a location of its own, or those of an account share one
\* (same manga, same name, no scanlator).
OwnLocation == [c \in Chapters |-> c]
SharedLocation == [c \in Chapters |-> c \div 10]

BothAtOnce == {<<12, 11>>}
BothOrOne == {<<12, 11>>, <<11>>}
OneEach == {<<21, 11>>, <<11>>, <<21>>}
JustOne == {<<11>>}
NoBatches == {}
DeleteOne == {{11}}
DeleteBoth == {{11, 12}}

\* From before the front of the queue to past its end.
AroundTheEnds == {-1, 5}
NoTargets == {}
=============================================================================
