----------------------------- MODULE MangaDetails -----------------------------
(***************************************************************************)
(* What the row of one title says: the details its source gave of it and   *)
(* since when it is in the library.  Five paths write it: a listing        *)
(* (graphql/resolvers/search.ts), the details of a title and the edits of  *)
(* the library (library.ts), the import of an AniList shelf                *)
(* (tracker/records.ts) and a restore (backup/apply.ts).                   *)
(*                                                                         *)
(* One column stands for author, artist, description and address, which    *)
(* each path treats alike; an import leaves them alone.                    *)
(***************************************************************************)
EXTENDS Naturals

CONSTANTS
    Texts,       \* what a source may say of the title
    Silent,      \* it says nothing: NULL
    DetailCalls, \* fetchMangaAndChapters of the title that may overlap
    MaxNow,      \* bound: steps of the clock
    NoRow

Said == Texts \cup {Silent}
DetailsRow == [text : Said, inLibrary : BOOLEAN, addedAt : 0..MaxNow]

ASSUME MangaDetailsAssumption ==
    MaxNow \in Nat \ {0} /\ Silent \notin Texts /\ NoRow \notin DetailsRow

VARIABLES
    shell,       \* an AniList entry, which no site stands behind
    row,         \* the title's row of manga, or NoRow
    called,      \* the row each call read before it waits for the source
    now

detailsVars == <<shell, row, called, now>>

DetailsInit ==
    /\ shell \in BOOLEAN
    /\ row = NoRow
    /\ called = [c \in DetailCalls |-> NoRow]
    /\ now = 1

\* COALESCE, and preferred of apply.ts
Coalesce(said, known) == IF said = Silent THEN known ELSE said

Passes ==
    /\ now < MaxNow
    /\ now' = now + 1
    /\ UNCHANGED <<shell, row, called>>

\* upsertSourceManga: a listing says nothing of the library.
StoreListing(said) ==
    /\ ~shell
    /\ row' = IF row = NoRow THEN [text |-> said, inLibrary |-> FALSE, addedAt |-> 0]
              ELSE [row EXCEPT !.text = Coalesce(said, @)]
    /\ UNCHANGED <<shell, called, now>>

\* Mutant: the date stamped whenever membership is asserted.
Stamped(r) == [r EXCEPT !.inLibrary = TRUE, !.addedAt = now]

\* applyLibraryPatch
Joined(r) ==
    [r EXCEPT !.inLibrary = TRUE,
              !.addedAt = IF r.inLibrary /\ r.addedAt > 0 THEN @ ELSE now]

UpdateManga(inLibrary) ==
    /\ row # NoRow
    /\ row' = IF inLibrary THEN Joined(row) ELSE [row EXCEPT !.inLibrary = FALSE]
    /\ UNCHANGED <<shell, called, now>>

\* importLibrary: stamped only if the row has no date yet.
Imported(r) ==
    [r EXCEPT !.inLibrary = TRUE, !.addedAt = IF r.addedAt = 0 THEN now ELSE @]

ImportLibrary ==
    /\ shell
    /\ row' = IF row = NoRow THEN [text |-> Silent, inLibrary |-> TRUE, addedAt |-> now]
              ELSE Imported(row)
    /\ UNCHANGED <<shell, called, now>>

\* fetchMangaAndChapters reads the row, then waits for the source.
FetchManga(c) ==
    /\ ~shell
    /\ row # NoRow /\ called[c] = NoRow
    /\ called' = [called EXCEPT ![c] = row]
    /\ UNCHANGED <<shell, row, now>>

\* applyDetails: where the source is silent, the row as it was read then.
Details(r, read, said) == [r EXCEPT !.text = Coalesce(said, read.text)]

DetailsArrive(c, said) ==
    /\ called[c] # NoRow
    /\ row' = Details(row, called[c], said)
    /\ called' = [called EXCEPT ![c] = NoRow]
    /\ UNCHANGED <<shell, now>>

SourceFails(c) ==
    /\ called[c] # NoRow
    /\ called' = [called EXCEPT ![c] = NoRow]
    /\ UNCHANGED <<shell, row, now>>

\* Mutant: "never" taken for the earliest date.
EarliestOfAll(left, right) == IF left <= right THEN left ELSE right

Earliest(left, right) ==
    CASE left = 0 -> right
      [] right = 0 -> left
      [] OTHER -> IF left <= right THEN left ELSE right

\* upsertManga
UpsertManga(said, inLibrary, at) ==
    /\ row' = IF row = NoRow THEN [text |-> said, inLibrary |-> inLibrary, addedAt |-> at]
              ELSE [text |-> Coalesce(said, row.text),
                    inLibrary |-> row.inLibrary \/ inLibrary,
                    addedAt |-> Earliest(row.addedAt, at)]
    /\ UNCHANGED <<shell, called, now>>

DetailsNext ==
    \/ Passes
    \/ ImportLibrary
    \/ \E said \in Said :
          \/ StoreListing(said)
          \/ \E c \in DetailCalls : DetailsArrive(c, said)
          \/ \E inLibrary \in BOOLEAN : \E at \in 0..now : UpsertManga(said, inLibrary, at)
    \/ \E inLibrary \in BOOLEAN : UpdateManga(inLibrary)
    \/ \E c \in DetailCalls : FetchManga(c) \/ SourceFails(c)

DetailsSpec == DetailsInit /\ [][DetailsNext]_detailsVars

DetailsTypeOK ==
    /\ shell \in BOOLEAN
    /\ row \in DetailsRow \cup {NoRow}
    /\ \A c \in DetailCalls : called[c] \in DetailsRow \cup {NoRow}
    /\ now \in 0..MaxNow

\* A title that stays in the library keeps its place on the "recently added"
\* shelf: asserting membership again, importing or restoring never makes its
\* date later, or "never" (library.ts:517-523, apply.ts:186-189).
DateHolds ==
    row # NoRow /\ row.inLibrary /\ row.addedAt > 0 =>
        (row'.inLibrary => row'.addedAt \in 1..row.addedAt)
=============================================================================
