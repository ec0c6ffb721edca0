------------------------------- MODULE Library -------------------------------
(***************************************************************************)
(* The library of one account: titles, categories and the bindings between *)
(* titles (graphql/resolvers/category.ts, library.ts, meta.ts), the backup *)
(* of them (backup/create.ts) and a restore, which runs in batches with    *)
(* the event loop free between them (backup/apply.ts, backup/restore.ts).  *)
(*                                                                         *)
(* A name stands for the names that differ in case only.  What a row says  *)
(* of its title is MangaDetails; its chapters are ChapterList.             *)
(***************************************************************************)
EXTENDS Naturals, FiniteSets, Sequences

CONSTANTS
    Titles,      \* what a source and a url name
    Names,       \* names of categories
    Typed,       \* the names among them an account gives itself
    Documents,   \* the archives an account may restore
    Batch,       \* BATCH of apply.ts
    MaxId,       \* bound: rows each table has ever had
    Absent

Categories == [id : Nat \ {0}, name : Names]
LibraryRow == [id : Nat \ {0}, inLibrary : BOOLEAN]
Entries == [title : Titles, id : Nat \ {0}, inLibrary : BOOLEAN,
            categories : SUBSET Nat, binding : Nat]

ASSUME LibraryAssumption ==
    /\ IsFiniteSet(Titles) /\ Typed \subseteq Names
    /\ Absent \notin Titles \cup LibraryRow \cup [phase : {"SUCCESS", "FAILURE"}]
    /\ Batch \in Nat \ {0} /\ MaxId \in Nat
    /\ \A d \in Documents :
          /\ d.categories \in Seq(Categories)
          /\ d.manga \in Seq(Entries)
          /\ \A i, j \in DOMAIN d.manga :
                d.manga[i].title = d.manga[j].title \/ d.manga[i].id = d.manga[j].id
                    => i = j

VARIABLES
    account,     \* whether the account exists
    library,     \* its rows of manga, category, category_manga and manga_meta
    lastId,      \* sqlite_sequence: the newest id of each table
    restore,     \* the account's restore, or Absent
    meant,       \* the title each binding was made for
    edited       \* titles the account itself changed since the restore began

libraryVars == <<account, library, lastId, restore, meant, edited>>

NoRows ==
    [manga |-> [x \in Titles |-> Absent], category |-> <<>>,
     filed |-> {}, binding |-> [x \in Titles |-> 0]]

LibraryInit ==
    /\ account = TRUE
    /\ library = NoRows
    /\ lastId = [manga |-> 0, category |-> 0]
    /\ restore = Absent
    /\ meant = [x \in Titles |-> Absent]
    /\ edited = {}

Shelved(l) == {x \in Titles : l.manga[x] # Absent}
Ids(l) == DOMAIN l.category
TitleOf(l, id) == {x \in Shelved(l) : l.manga[x].id = id}

(***************************************************************************)
(* Categories.  Default, 0, is no row.                                     *)
(***************************************************************************)
TopOrder(l) ==
    CHOOSE top \in {0} \cup {l.category[c].ord : c \in Ids(l)} :
        \A c \in Ids(l) : l.category[c].ord <= top

\* The place of a category in the list: ORDER BY ord, id.
Precedes(category, c, d) ==
    \/ category[c].ord < category[d].ord
    \/ category[c].ord = category[d].ord /\ c <= d

PlaceIn(category, c) == Cardinality({d \in DOMAIN category : Precedes(category, d, c)})

\* 1..n over the list, leaving 0 free for Default.
RenumberCategories(category) ==
    [c \in DOMAIN category |-> [category[c] EXCEPT !.ord = PlaceIn(category, c)]]

Edit(l, xs) ==
    /\ account
    /\ library' = l
    /\ edited' = IF restore = Absent THEN {} ELSE edited \cup xs
    /\ UNCHANGED <<account, restore>>

CreateCategory(name) ==
    /\ lastId.category < MaxId
    /\ lastId' = [lastId EXCEPT !.category = @ + 1]
    /\ Edit([library EXCEPT !.category =
                [c \in Ids(library) \cup {lastId'.category} |->
                    IF c \in Ids(library) THEN library.category[c]
                    ELSE [name |-> name, ord |-> TopOrder(library) + 1]]], {})
    /\ UNCHANGED meant

UpdateCategory(c, name) ==
    /\ c \in Ids(library)
    /\ Edit([library EXCEPT !.category[c].name = name], {})
    /\ UNCHANGED <<lastId, meant>>

\* Mutant: the orders of the rest left as they were.
CategoryDropped(l, c) ==
    [l EXCEPT !.category = [d \in Ids(l) \ {c} |-> l.category[d]],
              !.filed = {f \in l.filed : f[1] # c}]

\* The titles stay in the library; the rest of the list is renumbered.
CategoryDeleted(l, c) ==
    [l EXCEPT !.category = RenumberCategories([d \in Ids(l) \ {c} |-> l.category[d]]),
              !.filed = {f \in l.filed : f[1] # c}]

DeleteCategory(c) ==
    /\ c \in Ids(library)
    /\ Edit(CategoryDeleted(library, c), {})
    /\ UNCHANGED <<lastId, meant>>

\* Taken out of the list and put back at a place of it, the list renumbered.
Moved(l, c, position) ==
    LET from == PlaceIn(l.category, c)
        to   == IF position > Cardinality(Ids(l)) THEN Cardinality(Ids(l)) ELSE position
        Shift(place) == IF from < place /\ place <= to THEN place - 1
                        ELSE IF to <= place /\ place < from THEN place + 1 ELSE place
    IN  [l EXCEPT !.category = [d \in Ids(l) |->
            [l.category[d] EXCEPT
                !.ord = IF d = c THEN to ELSE Shift(PlaceIn(l.category, d))]]]

UpdateCategoryOrder(c, position) ==
    /\ c \in Ids(library)
    /\ Edit(Moved(library, c, position), {})
    /\ UNCHANGED <<lastId, meant>>

\* Clear, then remove, then add.
Filed(l, xs, clear, remove, add) ==
    [l EXCEPT !.filed =
        {f \in @ : f[2] \in xs => ~clear /\ f[1] \notin remove} \cup (add \X xs)]

UpdateMangasCategories(xs, clear, remove, add) ==
    /\ xs \subseteq Shelved(library)
    /\ remove \cup add \subseteq Ids(library)
    /\ Edit(Filed(library, xs, clear, remove, add), xs)
    /\ UNCHANGED <<lastId, meant>>

(***************************************************************************)
(* Titles and bindings.                                                    *)
(***************************************************************************)
\* A title enters the table through a listing of its source or an import.
Discover(x, inLibrary) ==
    /\ library.manga[x] = Absent
    /\ lastId.manga < MaxId
    /\ lastId' = [lastId EXCEPT !.manga = @ + 1]
    /\ Edit([library EXCEPT !.manga[x] = [id |-> lastId'.manga, inLibrary |-> inLibrary]],
            {x})
    /\ UNCHANGED meant

UpdateMangas(xs, inLibrary) ==
    /\ xs \subseteq Shelved(library)
    /\ Edit([library EXCEPT !.manga = [x \in Titles |->
                IF x \in xs THEN [@[x] EXCEPT !.inLibrary = inLibrary] ELSE @[x]]], xs)
    /\ UNCHANGED <<lastId, meant>>

\* The title x is read from: setMangaMeta of the binding key, on the entry's id.
SetBinding(x, y) ==
    /\ {x, y} \subseteq Shelved(library) /\ x # y
    /\ Edit([library EXCEPT !.binding[x] = library.manga[y].id], {x})
    /\ meant' = [meant EXCEPT ![x] = y]
    /\ UNCHANGED lastId

DeleteBinding(x) ==
    /\ library.binding[x] # 0
    /\ Edit([library EXCEPT !.binding[x] = 0], {x})
    /\ meant' = [meant EXCEPT ![x] = Absent]
    /\ UNCHANGED lastId

\* cli.ts: the account with all its rows; and a new one of its name.
RemoveAccount ==
    /\ account
    /\ account' = FALSE
    /\ library' = NoRows
    /\ meant' = [x \in Titles |-> Absent]
    /\ edited' = IF restore = Absent THEN {} ELSE Titles
    /\ UNCHANGED <<lastId, restore>>

AddAccount ==
    /\ ~account
    /\ account' = TRUE
    /\ UNCHANGED <<library, lastId, restore, meant, edited>>

(***************************************************************************)
(* The backup: the library and whatever it is read from.                   *)
(***************************************************************************)
\* Mutant: what is not in the library is left out.
LibraryAlone(l) == {x \in Shelved(l) : l.manga[x].inLibrary}

CollectMangaRows(l) ==
    LET rows == {x \in Shelved(l) : l.manga[x].inLibrary}
    IN  rows \cup UNION {TitleOf(l, l.binding[x]) : x \in rows}

\* A sequence of the set, as a query that names no order may return it.
InTurn(S) ==
    CHOOSE s \in [1..Cardinality(S) -> S] : \A e \in S : \E i \in DOMAIN s : s[i] = e

BuildDocument(l) ==
    LET ByOrder == [i \in 1..Cardinality(Ids(l)) |->
            CHOOSE c \in Ids(l) : i = PlaceIn(l.category, c)]
        Entry(x) == [title |-> x, id |-> l.manga[x].id,
                     inLibrary |-> l.manga[x].inLibrary,
                     categories |-> {f[1] : f \in {g \in l.filed : g[2] = x}},
                     binding |-> l.binding[x]]
    IN  [categories |-> [i \in DOMAIN ByOrder |->
                [id |-> ByOrder[i], name |-> l.category[ByOrder[i]].name]],
         manga |-> InTurn({Entry(x) : x \in CollectMangaRows(l)})]

(***************************************************************************)
(* The restore.                                                            *)
(***************************************************************************)
\* The places of the archive's list whose name the account has not got yet.
FreshCategories(l, d) ==
    {i \in DOMAIN d.categories :
        /\ \A c \in Ids(l) : l.category[c].name # d.categories[i].name
        /\ \A j \in 1..(i - 1) : d.categories[j].name # d.categories[i].name}

UpTo(S, i) == Cardinality({j \in S : j <= i})

CategoriesRestored(l, last, d) ==
    LET fresh == FreshCategories(l, d)
        At(c) == CHOOSE i \in fresh : c = last.category + UpTo(fresh, i)
        new   == {last.category + UpTo(fresh, i) : i \in fresh}
    IN  [l EXCEPT !.category = [c \in Ids(l) \cup new |->
            IF c \in Ids(l) THEN l.category[c]
            ELSE [name |-> d.categories[At(c)].name,
                  ord |-> TopOrder(l) + UpTo(fresh, At(c))]]]

\* The archive's ids onto this account's: of two categories of a name, the
\* account's newest, or the one made for the first of the archive's.
Mapping(l, last, d) ==
    LET fresh == FreshCategories(l, d)
        Known(name) == {c \in Ids(l) : l.category[c].name = name}
        Newest(S) == CHOOSE c \in S : \A e \in S : e <= c
        Target(name) == IF Known(name) # {} THEN Newest(Known(name))
                        ELSE last.category + UpTo(fresh,
                                CHOOSE i \in fresh : d.categories[i].name = name)
        NameOf(id) == d.categories[CHOOSE i \in DOMAIN d.categories :
                                        d.categories[i].id = id].name
    IN  [id \in {d.categories[i].id : i \in DOMAIN d.categories} |-> Target(NameOf(id))]

\* Mutant: the last entry of a batch is left to the next, which starts after it.
BatchShort(d, done) ==
    {i \in DOMAIN d.manga : done < i /\ i < done + Batch}

\* The entries of the batch that follows the first done ones.
BatchOf(d, done) ==
    {i \in DOMAIN d.manga : done < i /\ i <= done + Batch}

Inserted(l, d, batch) == {i \in batch : l.manga[d.manga[i].title] = Absent}
EntryOf(d, batch, x) == {i \in batch : d.manga[i].title = x}

\* upsertManga: a restore never takes something out of the library.
RowMerged(row, entry) == [row EXCEPT !.inLibrary = @ \/ entry.inLibrary]

MangaRestored(l, last, d, batch) ==
    LET fresh == Inserted(l, d, batch)
    IN  [x \in Titles |->
            IF EntryOf(d, batch, x) = {} THEN l.manga[x]
            ELSE LET i == CHOOSE i \in EntryOf(d, batch, x) : TRUE
                 IN  IF l.manga[x] = Absent
                     THEN [id |-> last.manga + UpTo(fresh, i),
                           inLibrary |-> d.manga[i].inLibrary]
                     ELSE RowMerged(l.manga[x], d.manga[i])]

Memberships(d, batch, mapping) ==
    UNION {{<<mapping[c], d.manga[i].title>> :
                c \in d.manga[i].categories \cap DOMAIN mapping} : i \in batch}

\* Mutant: the archive's number of the target taken as it stands.
BindingsCopied(l, d, batch, idMap) ==
    [x \in Titles |->
        LET entry == EntryOf(d, batch, x)
        IN  IF entry = {} THEN l.binding[x] ELSE d.manga[CHOOSE i \in entry : TRUE].binding]

\* A binding whose target the archive has not got is left as it is here.
BindingsRestored(l, d, batch, idMap) ==
    [x \in Titles |->
        LET rebound == {i \in batch : /\ x \in TitleOf(l, idMap[d.manga[i].id])
                                      /\ d.manga[i].binding \in DOMAIN idMap}
        IN  IF rebound = {} THEN l.binding[x]
            ELSE idMap[d.manga[CHOOSE i \in rebound : TRUE].binding]]

IdMap(l, d, batch) ==
    [id \in {d.manga[i].id : i \in batch} |->
        l.manga[d.manga[CHOOSE i \in batch : d.manga[i].id = id].title].id]

Running == restore # Absent /\ restore.phase \notin {"SUCCESS", "FAILURE"}
JobEnded(state) == [phase |-> state]

\* What follows the batch that ended at done.
After(phase, next, done) ==
    [restore EXCEPT !.phase = IF done >= Len(restore.doc.manga) THEN next ELSE phase,
                    !.done = IF done >= Len(restore.doc.manga) THEN 0 ELSE done]

\* restoreBackup: one restore of an account at a time.  applyDocument runs at
\* once up to its first wait, which is after the categories.
RestoreBackup(d) ==
    /\ account /\ ~Running
    /\ lastId.category < MaxId /\ lastId.manga < MaxId
    /\ library' = CategoriesRestored(library, lastId, d)
    /\ lastId' = [lastId EXCEPT !.category = @ + Cardinality(FreshCategories(library, d))]
    /\ restore' = [doc |-> d, done |-> 0, idMap |-> <<>>,
                   mapping |-> Mapping(library, lastId, d),
                   phase |-> IF d.manga = <<>> THEN "global" ELSE "manga"]
    /\ edited' = {}
    /\ UNCHANGED <<account, meant>>

\* The transaction of a batch is refused by a foreign key and rolled back.
RestoreFails ==
    /\ restore' = JobEnded("FAILURE")
    /\ edited' = {}
    /\ UNCHANGED <<account, library, lastId, meant>>

RestoreManga ==
    LET d     == restore.doc
        batch == BatchOf(d, restore.done)
        filed == Memberships(d, batch, restore.mapping)
        rows  == MangaRestored(library, lastId, d, batch)
        sound == (Inserted(library, d, batch) = {} \/ account)
                     /\ \A f \in filed : f[1] \in Ids(library)
        ids   == IdMap([library EXCEPT !.manga = rows], d, batch)
    IN  /\ Running /\ restore.phase = "manga"
        /\ \/ /\ sound
              /\ library' = [library EXCEPT !.manga = rows, !.filed = @ \cup filed]
              /\ lastId' = [lastId EXCEPT !.manga =
                               @ + Cardinality(Inserted(library, d, batch))]
              /\ restore' = [After("manga", "meta", restore.done + Batch) EXCEPT
                               !.idMap = [id \in DOMAIN restore.idMap \cup DOMAIN ids |->
                                   IF id \in DOMAIN ids THEN ids[id] ELSE restore.idMap[id]]]
              /\ UNCHANGED <<account, meant, edited>>
           \/ ~sound /\ RestoreFails

\* A title whose row is gone has nothing for its meta to refer to.
RestoreMeta ==
    LET d       == restore.doc
        batch   == BatchOf(d, restore.done)
        written == {i \in batch : d.manga[i].binding \in DOMAIN restore.idMap}
        Rows(i) == TitleOf(library, restore.idMap[d.manga[i].id])
        sound   == \A i \in written : Rows(i) # {}
        target(i) == d.manga[CHOOSE j \in DOMAIN d.manga :
                                d.manga[j].id = d.manga[i].binding].title
    IN  /\ Running /\ restore.phase = "meta"
        /\ \/ /\ sound
              /\ library' = [library EXCEPT !.binding =
                                BindingsRestored(library, d, batch, restore.idMap)]
              /\ meant' = [x \in Titles |->
                             IF \E i \in written : x \in Rows(i)
                             THEN target(CHOOSE i \in written : x \in Rows(i)) ELSE meant[x]]
              /\ restore' = After("meta", "global", restore.done + Batch)
              /\ UNCHANGED <<account, lastId, edited>>
           \/ ~sound /\ RestoreFails

\* The account's own meta, then its settings, both of a row of users.
RestoreAccount ==
    /\ Running /\ restore.phase \in {"global", "settings"}
    /\ \/ /\ account /\ restore.phase = "global"
          /\ restore' = [restore EXCEPT !.phase = "settings"]
          /\ UNCHANGED <<account, library, lastId, meant, edited>>
       \/ /\ account /\ restore.phase = "settings"
          /\ restore' = JobEnded("SUCCESS")
          /\ edited' = {}
          /\ UNCHANGED <<account, library, lastId, meant>>
       \/ ~account /\ RestoreFails

RestoreStep == RestoreManga \/ RestoreMeta \/ RestoreAccount

\* The server stops, or is killed: what the restore has committed stays.
Restart ==
    /\ restore # Absent
    /\ restore' = Absent
    /\ edited' = {}
    /\ UNCHANGED <<account, library, lastId, meant>>

LibraryNext ==
    \/ \E name \in Typed : CreateCategory(name)
    \/ \E c \in Ids(library) :
          \/ DeleteCategory(c)
          \/ \E name \in Typed : UpdateCategory(c, name)
          \/ \E position \in 1..(Cardinality(Ids(library)) + 1) :
                UpdateCategoryOrder(c, position)
    \/ \E xs \in {{x} : x \in Titles} \cup {Titles} :
          \/ \E add \in {{}} \cup {{c} : c \in Ids(library)} :
                UpdateMangasCategories(xs, TRUE, {}, add)
          \/ \E inLibrary \in BOOLEAN : UpdateMangas(xs, inLibrary)
    \/ \E x \in Titles :
          \/ \E c \in Ids(library), add \in {{}, Ids(library)} :
                UpdateMangasCategories({x}, FALSE, {c}, add)
          \/ \E inLibrary \in BOOLEAN : Discover(x, inLibrary)
          \/ \E y \in Titles : SetBinding(x, y)
          \/ DeleteBinding(x)
    \/ RemoveAccount \/ AddAccount
    \/ \E d \in Documents : RestoreBackup(d)
    \/ RestoreStep
    \/ Restart

LibrarySpec ==
    LibraryInit /\ [][LibraryNext]_libraryVars

(***************************************************************************)
(* What the library promises.                                              *)
(***************************************************************************)
\* The tables hold what the schema allows: every reference to a row finds it.
LibraryTypeOK ==
    /\ account \in BOOLEAN
    /\ library.manga \in [Titles -> LibraryRow \cup {Absent}]
    /\ \A c \in Ids(library) :
          c \in 1..lastId.category /\ library.category[c].name \in Names
    /\ library.filed \subseteq Ids(library) \X Shelved(library)
    /\ \A x, y \in Shelved(library) :
          library.manga[x].id = library.manga[y].id => x = y
    /\ \A x \in Shelved(library) : library.manga[x].id <= lastId.manga
    /\ ~account => library = NoRows
    /\ edited \subseteq Titles

\* The categories stand at 1..n, 0 being Default's, whatever was made,
\* deleted, moved or restored and in whatever order (category.ts:183).
CategoriesInOrder ==
    {library.category[c].ord : c \in Ids(library)} = 1..Cardinality(Ids(library))

\* A number that is the row of y's own, or of a row that went with the account.
NamesRow(l, id, y) ==
    \/ y \in TitleOf(l, id)
    \/ \A z \in Shelved(l) : id < l.manga[z].id

\* A binding names the row of the title it was made for, also where the rows
\* have other numbers than where the archive was made: "no binding is a
\* working state; a wrong one is not" (apply.ts:316-318).  What a restore
\* binds after its account was removed and added again may name a row that is
\* gone, but never another title's.
BindingsAreRight ==
    \A x \in Titles :
        library.binding[x] # 0 => NamesRow(library, library.binding[x], meant[x])

\* The row of an entry, in the categories of it that are still there.
Brought(d, i, mapping) ==
    LET x == d.manga[i].title
    IN  /\ x \in Shelved(library)
        /\ d.manga[i].inLibrary => library.manga[x].inLibrary
        /\ \A c \in d.manga[i].categories \cap DOMAIN mapping :
              mapping[c] \in Ids(library) => <<mapping[c], x>> \in library.filed

\* What an entry was read from, if the archive has it, it is read from here.
ReadFromTheSame(d, i) ==
    \A j \in DOMAIN d.manga : d.manga[j].id = d.manga[i].binding =>
        d.manga[j].title \in TitleOf(library, library.binding[d.manga[i].title])

\* A restore that reports SUCCESS has brought all of the archive, though the
\* account edited, deleted and was itself removed between its batches: only
\* what the account has since changed itself may differ (apply.ts:370-457).
RestoreIsWhole ==
    Running /\ restore' = JobEnded("SUCCESS") =>
        \A i \in DOMAIN restore.doc.manga :
            restore.doc.manga[i].title \notin edited =>
                Brought(restore.doc, i, restore.mapping) /\ ReadFromTheSame(restore.doc, i)

\* What an account sees of a title, numbers of rows apart.
View(l, x) ==
    [inLibrary |-> l.manga[x].inLibrary,
     categories |-> {l.category[c].name : c \in {c \in Ids(l) : <<c, x>> \in l.filed}},
     readFrom |-> TitleOf(l, l.binding[x])]

Restored(l, last, d) ==
    LET named == CategoriesRestored(l, last, d)
        all   == DOMAIN d.manga
        rows  == [named EXCEPT !.manga = MangaRestored(l, last, d, all),
                               !.filed = @ \cup Memberships(d, all, Mapping(l, last, d))]
    IN  [rows EXCEPT !.binding = BindingsRestored(rows, d, all, IdMap(rows, d, all))]

\* A backup restored where it was taken changes nothing there, and restored
\* to a new account it gives the library back, with what each title of it is
\* read from (create.ts:151-157, apply.ts:308-319).
BackupIsFaithful ==
    LET d    == BuildDocument(library)
        here == Restored(library, lastId, d)
        new  == Restored(NoRows, [manga |-> 0, category |-> 0], d)
    IN  /\ \A x \in Shelved(library) : View(here, x) = View(library, x)
        /\ \A x \in CollectMangaRows(library) :
              /\ x \in Shelved(new)
              /\ library.manga[x].inLibrary => View(new, x) = View(library, x)
=============================================================================
