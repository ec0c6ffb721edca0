------------------------------ MODULE MCTracker -----------------------------
(***************************************************************************)
(* Tracker on small instances: two services, the shell of an imported      *)
(* title and a second copy of it from another source, and calls that       *)
(* overlap.                                                                *)
(***************************************************************************)
EXTENDS Tracker, TLC

CONSTANTS Shell, Copy, Title, Reader1, Reader2, Call1, Call2

MCTrackers == {1, 2}
\* The first is MyAnimeList.
MCLenient == {1}
MCManga == {Shell, Copy}
MCTitles == {Title}
MCShellOf == (Title :> Shell)
\* A chapter, and one between it and the next.
MCReads == {2, 3}
\* The copy is tracked where the import is; the shell everywhere.
MCPairs == {<<Shell, 1>>, <<Shell, 2>>, <<Copy, 2>>}
OneAccount == {Reader1}
TwoAccounts == {Reader1, Reader2}
MCCalls == {Call1, Call2}
AnyCall == Permutations(MCCalls)
=============================================================================
