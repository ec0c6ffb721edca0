------------------------------ MODULE MCReader ------------------------------
(***************************************************************************)
(* Reader with two chapters that change places; a second edition adds a    *)
(* page to the first.                                                      *)
(***************************************************************************)
EXTENDS Reader, TLC

CONSTANTS A, B, Call1, Call2

MCUrls == {A, B}
MCListings == {<<A>>, <<B, A>>}
MCPageCount == <<1, 2>>
MCResolved == {A}
MCCalls == {Call1, Call2}
OneCall == {Call1}
FirstPage == {<<1, 1>>}
AnyCall == Permutations(MCCalls)
=============================================================================
