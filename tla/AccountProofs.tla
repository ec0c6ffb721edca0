---------------------------- MODULE AccountProofs ----------------------------
(***************************************************************************)
(* Theorems about what an account keeps, for all values of the constants:  *)
(* its library (its rows hold together, its categories stand in order, its *)
(* bindings are right, and a restore that succeeds has brought its         *)
(* archive), its automated backup, and its sign-ins at the trackers with   *)
(* the calls that are made for it there.                                   *)
(***************************************************************************)
EXTENDS Library, BackupSchedule, TrackerServices, FiniteOrders, SequenceTheorems

-----------------------------------------------------------------------------
(* The library.                                                            *)

CategoryRow == [name : Names, ord : Nat]

(* The tables, and what refers to a row of them finds it.                  *)
RowsSound ==
    /\ account \in BOOLEAN
    /\ library = [manga |-> library.manga, category |-> library.category,
                  filed |-> library.filed, binding |-> library.binding]
    /\ library.manga \in [Titles -> LibraryRow \cup {Absent}]
    /\ library.binding \in [Titles -> Nat]
    /\ lastId \in [manga : Nat, category : Nat]
    /\ Ids(library) \subseteq 1..lastId.category
    /\ \A c \in Ids(library) : library.category[c] \in CategoryRow
    /\ library.filed \subseteq Ids(library) \X Shelved(library)
    /\ \A x, y \in Shelved(library) :
          library.manga[x].id = library.manga[y].id => x = y
    /\ \A x \in Shelved(library) : library.manga[x].id <= lastId.manga
    /\ account = FALSE => library = NoRows
    /\ edited \subseteq Titles

(* A number that was once given to a title's row: it names that row still, *)
(* or is older than every row there is.                                    *)
GivenIn(l, last, id, y) == id \in 1..last.manga /\ NamesRow(l, id, y)
Given(id, y) == GivenIn(library, lastId, id, y)

BindingsSound ==
    /\ DOMAIN meant = Titles
    /\ \A x \in Titles : library.binding[x] # 0 => Given(library.binding[x], meant[x])

\* The entries of the archive whose batch has been written.
WrittenEntries ==
    {i \in DOMAIN restore.doc.manga : restore.phase = "manga" => i <= restore.done}

(* What a running restore relies on after each wait.                       *)
RestoreSound ==
    Running =>
        /\ restore = [doc |-> restore.doc, done |-> restore.done, idMap |-> restore.idMap,
                      mapping |-> restore.mapping, phase |-> restore.phase]
        /\ restore.doc \in Documents
        /\ restore.done \in Nat
        /\ restore.phase \in {"manga", "meta", "global", "settings"}
        /\ \A c \in DOMAIN restore.mapping : restore.mapping[c] \in 1..lastId.category
        /\ \A i \in DOMAIN restore.doc.manga :
              LET id == restore.doc.manga[i].id
              IN  id \in DOMAIN restore.idMap =>
                      Given(restore.idMap[id], restore.doc.manga[i].title)
        /\ DOMAIN restore.idMap \subseteq
              {restore.doc.manga[i].id : i \in DOMAIN restore.doc.manga}
        /\ \A i \in WrittenEntries :
              /\ restore.doc.manga[i].id \in DOMAIN restore.idMap
              /\ restore.doc.manga[i].title \notin edited =>
                    Brought(restore.doc, i, restore.mapping)

LibrarySound == RowsSound /\ CategoriesInOrder /\ BindingsSound /\ RestoreSound

\* The entries of the archive whose bindings have been written.
BoundEntries ==
    {i \in DOMAIN restore.doc.manga :
        /\ restore.phase # "manga"
        /\ restore.phase = "meta" => i <= restore.done}

(* The map of a running restore leads to the rows of its entries, and what *)
(* it has bound is read from what the archive says; unless the account has *)
(* since changed every title, as its removal does.                         *)
ReadingSound ==
    Running /\ edited # Titles =>
        /\ \A i \in WrittenEntries :
              restore.doc.manga[i].title \in
                  TitleOf(library, restore.idMap[restore.doc.manga[i].id])
        /\ \A i \in BoundEntries :
              restore.doc.manga[i].title \notin edited => ReadFromTheSame(restore.doc, i)

-----------------------------------------------------------------------------
\* The categories.

LEMMA IdsFinite ==
  ASSUME RowsSound
  PROVE  IsFiniteSet(Ids(library)) /\ Cardinality(Ids(library)) \in Nat
<1>1. IsFiniteSet(1..lastId.category)
  <2>1. lastId.category \in Int /\ 1 \in Int
    BY DEF RowsSound
  <2> QED  BY <2>1, FS_Interval
<1> QED  BY <1>1, FS_Subset, FS_CardinalityType DEF RowsSound

(* Renumbered, or listed, the rows of a table stand at 1..n, each at a     *)
(* place of its own, whatever their orders were.                           *)
LEMMA PlacesAreDense ==
  ASSUME NEW category, IsFiniteSet(DOMAIN category),
         \A c \in DOMAIN category : c \in Int /\ category[c].ord \in Int
  PROVE  /\ \A c \in DOMAIN category :
               PlaceIn(category, c) \in 1..Cardinality(DOMAIN category)
         /\ \A c, d \in DOMAIN category :
               PlaceIn(category, c) = PlaceIn(category, d) => c = d
         /\ {PlaceIn(category, c) : c \in DOMAIN category} =
               1..Cardinality(DOMAIN category)
<1> DEFINE S == DOMAIN category
           R == {e \in S \X S : Precedes(category, e[1], e[2])}
<1>1. \A c, d \in S : <<c, d>> \in R <=> Precedes(category, c, d)
  OBVIOUS
<1>2. TotallyOrders(S, R)
  <2>1. \A c \in S : Precedes(category, c, c)
    BY DEF Precedes
  <2>2. \A c, d \in S : Precedes(category, c, d) \/ Precedes(category, d, c)
    BY DEF Precedes
  <2>3. \A c, d \in S : Precedes(category, c, d) /\ Precedes(category, d, c) => c = d
    BY DEF Precedes
  <2>4. \A c, d, e \in S :
            Precedes(category, c, d) /\ Precedes(category, d, e) => Precedes(category, c, e)
    BY DEF Precedes
  <2> HIDE DEF R, S
  <2> QED  BY <1>1, <2>1, <2>2, <2>3, <2>4 DEF TotallyOrders
<1>3. \A c \in S : Standing(S, R)[c] = PlaceIn(category, c)
  <2> TAKE c \in S
  <2>1. Preceding(S, R, c) = {d \in S : Precedes(category, d, c)}
    BY <1>1 DEF Preceding
  <2> QED  BY <2>1 DEF Standing, PlaceIn
<1> HIDE DEF R
<1>4. \A c \in S : PlaceIn(category, c) \in 1..Cardinality(S)
  BY <1>2, <1>3, StandingsAreDense
<1>5. \A c, d \in S : PlaceIn(category, c) = PlaceIn(category, d) => c = d
  BY <1>2, <1>3, StandingsAreDense
<1>6. \A k \in 1..Cardinality(S) : \E c \in S : PlaceIn(category, c) = k
  BY <1>2, <1>3, StandingsAreDense
<1> QED  BY <1>4, <1>5, <1>6

(* The order of a new category is one past the number of those there are.  *)
LEMMA TopIsNumber ==
  ASSUME RowsSound, CategoriesInOrder
  PROVE  TopOrder(library) = Cardinality(Ids(library))
<1> DEFINE n == Cardinality(Ids(library))
           T == {0} \cup {library.category[c].ord : c \in Ids(library)}
           Top(t) == t \in T /\ \A c \in Ids(library) : library.category[c].ord <= t
<1>1. n \in Nat
  BY IdsFinite
<1>2. {library.category[c].ord : c \in Ids(library)} = 1..n
  BY DEF CategoriesInOrder
<1>3. T = 0..n
  <2> HIDE DEF n
  <2> QED  BY <1>1, <1>2
<1>4. \A c \in Ids(library) : library.category[c].ord \in 1..n
  BY <1>2
<1>5. Top(n)
  <2> HIDE DEF n, T
  <2>1. n \in T
    BY <1>1, <1>3
  <2>2. \A c \in Ids(library) : library.category[c].ord <= n
    BY <1>1, <1>4
  <2> QED  BY <2>1, <2>2
<1>6. ASSUME NEW t, Top(t) PROVE t = n
  <2>1. t \in 0..n
    BY <1>3, <1>6
  <2>2. CASE n = 0
    BY <2>1, <2>2
  <2>3. CASE n # 0
    <3>1. n \in 1..n
      BY <1>1, <2>3
    <3>2. PICK c \in Ids(library) : library.category[c].ord = n
      BY <1>2, <3>1
    <3>3. n <= t
      BY <1>6, <3>2
    <3> QED  BY <1>1, <2>1, <3>3
  <2> QED  BY <2>2, <2>3
<1>7. TopOrder(library) = CHOOSE t \in T : \A c \in Ids(library) : library.category[c].ord <= t
  BY DEF TopOrder
<1>8. \E t \in T : \A c \in Ids(library) : library.category[c].ord <= t
  BY <1>5
<1>9. Top(TopOrder(library))
  <2> HIDE DEF T
  <2> QED  BY <1>7, <1>8
<1> QED  BY <1>6, <1>9

(* Two categories are never at one place.                                  *)
LEMMA OrdersAreDistinct ==
  ASSUME RowsSound, CategoriesInOrder
  PROVE  \A c, d \in Ids(library) :
            library.category[c].ord = library.category[d].ord => c = d
<1> DEFINE n == Cardinality(Ids(library))
           f == [c \in Ids(library) |-> library.category[c].ord]
<1>1. {library.category[c].ord : c \in Ids(library)} = 1..n /\ n \in Nat
  BY IdsFinite DEF CategoriesInOrder
<1>2. f \in Surjection(Ids(library), 1..n)
  <2>1. f \in [Ids(library) -> 1..n]
    BY <1>1
  <2>2. \A k \in 1..n : \E c \in Ids(library) : f[c] = k
    BY <1>1
  <2> QED  BY <2>1, <2>2 DEF Surjection
<1>3. IsFiniteSet(Ids(library)) /\ Cardinality(1..n) = n
  <2>1. Cardinality(1..n) = IF 1 > n THEN 0 ELSE n - 1 + 1
    BY <1>1, FS_Interval
  <2> HIDE DEF n
  <2> QED  BY <1>1, <2>1, IdsFinite
<1>4. f \in Injection(Ids(library), 1..n)
  BY <1>2, <1>3, FS_SurjSameCardinalityImpliesInj
<1> QED  BY <1>4 DEF Injection, IsInjective

-----------------------------------------------------------------------------
\* What a step carries over.

(* Rows stay what they are or all go with the account, and new ones have   *)
(* numbers no row ever had.                                                *)
RowsStay(l, m, last) ==
    /\ \/ Shelved(m) = {}
       \/ \A z \in Shelved(l) : z \in Shelved(m) /\ m.manga[z].id = l.manga[z].id
    /\ \A z \in Shelved(m) :
          \/ z \in Shelved(l) /\ m.manga[z].id = l.manga[z].id
          \/ m.manga[z].id > last.manga

NumbersOf(l) == \A z \in Shelved(l) : l.manga[z].id \in Nat

LEMMA GivenStays ==
  ASSUME NEW l, NEW m, NEW a, NEW b, a.manga \in Nat, b.manga \in Nat, a.manga <= b.manga,
         RowsStay(l, m, a), NumbersOf(l), NumbersOf(m),
         NEW id, NEW y, GivenIn(l, a, id, y)
  PROVE  GivenIn(m, b, id, y)
<1>1. id \in 1..a.manga /\ id \in 1..b.manga
  BY DEF GivenIn
<1>2. CASE Shelved(m) = {}
  BY <1>1, <1>2 DEF GivenIn, NamesRow
<1>3. CASE Shelved(m) # {} /\ y \in TitleOf(l, id)
  <2>1. y \in TitleOf(m, id)
    BY <1>3 DEF RowsStay, TitleOf
  <2> QED  BY <1>1, <2>1 DEF GivenIn, NamesRow
<1>4. CASE \A z \in Shelved(l) : id < l.manga[z].id
  <2>1. ASSUME NEW z \in Shelved(m) PROVE id < m.manga[z].id
    <3>1. m.manga[z].id \in Nat
      BY DEF NumbersOf
    <3>2. CASE z \in Shelved(l) /\ m.manga[z].id = l.manga[z].id
      BY <1>4, <3>2
    <3>3. CASE m.manga[z].id > a.manga
      BY <1>1, <3>1, <3>3
    <3> QED  BY <3>2, <3>3 DEF RowsStay
  <2> QED  BY <1>1, <2>1 DEF GivenIn, NamesRow
<1> QED  BY <1>2, <1>3, <1>4 DEF GivenIn, NamesRow

LEMMA RowNumbers ==
  ASSUME NEW l, NEW n \in Nat, l.manga \in [Titles -> LibraryRow \cup {Absent}],
         \A x \in Shelved(l) : l.manga[x].id <= n
  PROVE  NumbersOf(l) /\ \A z \in Shelved(l) :
             z \in Titles /\ l.manga[z] \in LibraryRow /\ l.manga[z].id \in 1..n
<1>1. ASSUME NEW z \in Shelved(l)
      PROVE  z \in Titles /\ l.manga[z] \in LibraryRow /\ l.manga[z].id \in 1..n
  <2>1. z \in Titles /\ l.manga[z] \in LibraryRow
    BY DEF Shelved
  <2>2. l.manga[z].id \in Nat \ {0} /\ l.manga[z].id <= n
    BY <2>1 DEF LibraryRow
  <2> QED  BY <2>1, <2>2
<1>2. \A z \in Shelved(l) : l.manga[z].id \in Nat
  BY <1>1
<1> QED  BY <1>1, <1>2 DEF NumbersOf

LEMMA BothNumbered ==
  ASSUME RowsSound, RowsSound'
  PROVE  NumbersOf(library) /\ NumbersOf(library')
<1>1. /\ lastId.manga \in Nat /\ lastId'.manga \in Nat
      /\ library.manga \in [Titles -> LibraryRow \cup {Absent}]
      /\ library'.manga \in [Titles -> LibraryRow \cup {Absent}]
      /\ \A x \in Shelved(library) : library.manga[x].id <= lastId.manga
      /\ \A x \in Shelved(library') : library'.manga[x].id <= lastId'.manga
  BY DEF RowsSound, Shelved
<1> QED  BY <1>1, RowNumbers

LEMMA BindingsCarried ==
  ASSUME LibrarySound, RowsSound', lastId.manga <= lastId'.manga,
         RowsStay(library, library', lastId), DOMAIN meant' = Titles,
         \A x \in Titles : library'.binding[x] # 0 =>
             \/ library'.binding[x] = library.binding[x] /\ meant'[x] = meant[x]
             \/ GivenIn(library', lastId', library'.binding[x], meant'[x])
  PROVE  BindingsSound'
<1> SUFFICES ASSUME NEW x \in Titles, library'.binding[x] # 0
             PROVE  GivenIn(library', lastId', library'.binding[x], meant'[x])
  BY DEF BindingsSound, Given
<1>1. NumbersOf(library) /\ NumbersOf(library')
  BY BothNumbered DEF LibrarySound
<1>2. lastId.manga \in Nat /\ lastId'.manga \in Nat
  BY DEF LibrarySound, RowsSound
<1>3. CASE library'.binding[x] = library.binding[x] /\ meant'[x] = meant[x]
  <2>1. GivenIn(library, lastId, library.binding[x], meant[x])
    BY <1>3 DEF LibrarySound, BindingsSound, Given
  <2> QED  BY <1>1, <1>2, <1>3, <2>1, GivenStays
<1> QED  BY <1>3

(* A step of the account, or of the command line, beside a restore.        *)
LEMMA RestoreCarried ==
  ASSUME LibrarySound, RowsSound', UNCHANGED restore,
         lastId.manga <= lastId'.manga, lastId.category <= lastId'.category,
         RowsStay(library, library', lastId),
         \A c \in Ids(library') : c <= lastId.category => c \in Ids(library),
         Running => edited \subseteq edited',
         Running => \A x \in Titles \ edited' :
             /\ x \in Shelved(library) =>
                   /\ x \in Shelved(library')
                   /\ library.manga[x].inLibrary => library'.manga[x].inLibrary
             /\ \A c \in Ids(library') :
                   <<c, x>> \in library.filed => <<c, x>> \in library'.filed
  PROVE  RestoreSound'
<1> DEFINE d == restore.doc
<1>0. SUFFICES ASSUME Running PROVE RestoreSound'
  <2>1. Running' = Running
    BY DEF Running
  <2> QED  BY <2>1 DEF RestoreSound
<1>1. NumbersOf(library) /\ NumbersOf(library')
  BY BothNumbered DEF LibrarySound
<1>2. lastId.manga \in Nat /\ lastId'.manga \in Nat
      /\ lastId.category \in Nat /\ lastId'.category \in Nat
  BY DEF LibrarySound, RowsSound
<1>3. \A c \in DOMAIN restore.mapping :
          restore.mapping[c] \in 1..lastId.category /\ restore.mapping[c] \in 1..lastId'.category
  BY <1>0, <1>2 DEF LibrarySound, RestoreSound
<1>4. ASSUME NEW i \in DOMAIN d.manga, d.manga[i].id \in DOMAIN restore.idMap
      PROVE  GivenIn(library', lastId', restore.idMap[d.manga[i].id], d.manga[i].title)
  <2>1. GivenIn(library, lastId, restore.idMap[d.manga[i].id], d.manga[i].title)
    BY <1>0, <1>4 DEF LibrarySound, RestoreSound, Given
  <2> QED  BY <1>1, <1>2, <2>1, GivenStays
<1>5. ASSUME NEW i \in WrittenEntries, d.manga[i].title \notin edited'
      PROVE  Brought(d, i, restore.mapping)'
  <2> DEFINE x == d.manga[i].title
  <2>1. /\ i \in DOMAIN d.manga
        /\ d \in Documents
    BY <1>0 DEF WrittenEntries, LibrarySound, RestoreSound
  <2>2. x \in Titles
    <3>1. d.manga \in Seq(Entries)
      BY <2>1, LibraryAssumption
    <3>2. d.manga[i] \in Entries
      BY <2>1, <3>1
    <3> QED  BY <3>2 DEF Entries
  <2>3. x \notin edited
    BY <1>0, <1>5
  <2>4. Brought(d, i, restore.mapping)
    BY <1>0, <2>3 DEF LibrarySound, RestoreSound
  <2>5. /\ x \in Shelved(library')
        /\ library.manga[x].inLibrary => library'.manga[x].inLibrary
    BY <1>0, <1>5, <2>2, <2>4 DEF Brought
  <2>6. ASSUME NEW c \in d.manga[i].categories \cap DOMAIN restore.mapping,
               restore.mapping[c] \in Ids(library')
        PROVE  <<restore.mapping[c], x>> \in library'.filed
    <3>1. restore.mapping[c] <= lastId.category
      BY <1>2, <1>3
    <3>2. restore.mapping[c] \in Ids(library)
      BY <2>6, <3>1
    <3>3. <<restore.mapping[c], x>> \in library.filed
      BY <2>4, <3>2 DEF Brought
    <3> QED  BY <1>0, <1>5, <2>2, <2>6, <3>3
  <2>7. d.manga[i].inLibrary => library'.manga[x].inLibrary
    BY <2>4, <2>5 DEF Brought
  <2>8. restore' = restore
    OBVIOUS
  <2>9. Brought(d, i, restore.mapping)' =
           (/\ x \in Shelved(library')
            /\ d.manga[i].inLibrary => library'.manga[x].inLibrary
            /\ \A c \in d.manga[i].categories \cap DOMAIN restore.mapping :
                  restore.mapping[c] \in Ids(library')
                     => <<restore.mapping[c], x>> \in library'.filed)
    BY <2>8 DEF Brought, Shelved, Ids
  <2> QED  BY <2>5, <2>6, <2>7, <2>9
<1>6. WrittenEntries' = WrittenEntries
  BY DEF WrittenEntries
<1>7. Running'
  BY <1>0 DEF Running
<1>8. RestoreSound
  BY DEF LibrarySound
<1> QED  BY <1>0, <1>3, <1>4, <1>5, <1>6, <1>7, <1>8 DEF RestoreSound, Given

-----------------------------------------------------------------------------
\* The categories, edited.

LEMMA PairsOf ==
  ASSUME NEW S, NEW T, NEW U, NEW F \in SUBSET (S \X T), \A g \in F : g[1] \in U
  PROVE  F \subseteq U \X T
<1> SUFFICES ASSUME NEW g \in F PROVE g \in U \X T
  OBVIOUS
<1>1. PICK c \in S, x \in T : g = <<c, x>>
  OBVIOUS
<1> QED  BY <1>1

LEMMA CategoriesEdited ==
  ASSUME LibrarySound, NEW category, NEW filed \in SUBSET library.filed,
         library' = [manga |-> library.manga, category |-> category,
                     filed |-> filed, binding |-> library.binding],
         account = TRUE, UNCHANGED <<account, restore, meant>>,
         edited' = IF restore = Absent THEN {} ELSE edited \cup {},
         lastId' \in [manga : Nat, category : Nat], lastId'.manga = lastId.manga,
         lastId.category <= lastId'.category,
         DOMAIN category \subseteq 1..lastId'.category,
         \A c \in DOMAIN category : c <= lastId.category => c \in Ids(library),
         \A c \in DOMAIN category : category[c] \in CategoryRow,
         {category[c].ord : c \in DOMAIN category} = 1..Cardinality(DOMAIN category),
         \A g \in filed : g[1] \in DOMAIN category,
         \A g \in library.filed : g[1] \in DOMAIN category => g \in filed
  PROVE  LibrarySound'
<1>1. /\ library'.manga = library.manga /\ library'.binding = library.binding
      /\ library'.category = category /\ library'.filed = filed
  OBVIOUS
<1>2. Ids(library') = DOMAIN category /\ Shelved(library') = Shelved(library)
  BY <1>1 DEF Ids, Shelved
<1>3. filed \subseteq (DOMAIN category) \X Shelved(library)
  <2>1. filed \in SUBSET (Ids(library) \X Shelved(library))
    BY DEF LibrarySound, RowsSound
  <2> QED  BY <2>1, PairsOf
<1>4. RowsSound'
  <2>1. library' = [manga |-> library'.manga, category |-> library'.category,
                    filed |-> library'.filed, binding |-> library'.binding]
    BY <1>1
  <2>2. account' = TRUE /\ edited' \subseteq Titles
    BY DEF LibrarySound, RowsSound
  <2>3. /\ library.manga \in [Titles -> LibraryRow \cup {Absent}]
        /\ library.binding \in [Titles -> Nat]
        /\ \A x, y \in Shelved(library) :
              library.manga[x].id = library.manga[y].id => x = y
        /\ \A x \in Shelved(library) : library.manga[x].id <= lastId.manga
    BY DEF LibrarySound, RowsSound
  <2>4. /\ library'.manga \in [Titles -> LibraryRow \cup {Absent}]
        /\ library'.binding \in [Titles -> Nat]
        /\ \A x, y \in Shelved(library') :
              library'.manga[x].id = library'.manga[y].id => x = y
        /\ \A x \in Shelved(library') : library'.manga[x].id <= lastId'.manga
    BY <1>1, <1>2, <2>3
  <2>5. /\ Ids(library') \subseteq 1..lastId'.category
        /\ \A c \in Ids(library') : library'.category[c] \in CategoryRow
    BY <1>1, <1>2
  <2>7. library'.filed \subseteq Ids(library') \X Shelved(library')
    BY <1>1, <1>2, <1>3
  <2>6. Shelved(library)' = Shelved(library') /\ Ids(library)' = Ids(library')
    BY DEF Shelved, Ids
  <2> QED  BY <2>1, <2>2, <2>4, <2>5, <2>6, <2>7 DEF RowsSound
<1>5. CategoriesInOrder'
  BY <1>1, <1>2 DEF CategoriesInOrder, Ids
<1>6. lastId.manga <= lastId'.manga
  BY DEF LibrarySound, RowsSound
<1>7. RowsStay(library, library', lastId)
  BY <1>1, <1>2 DEF RowsStay
<1>8. BindingsSound'
  <2>1. DOMAIN meant' = Titles
    BY DEF LibrarySound, BindingsSound
  <2> QED  BY <1>1, <1>4, <1>6, <1>7, <2>1, BindingsCarried
<1>9. RestoreSound'
  <2>1. Running => edited \subseteq edited'
    BY DEF Running
  <2>2. \A c \in Ids(library') : c <= lastId.category => c \in Ids(library)
    BY <1>2
  <2>3. ASSUME NEW x \in Titles, NEW c \in Ids(library'), <<c, x>> \in library.filed
        PROVE  <<c, x>> \in library'.filed
    BY <1>1, <1>2, <2>3
  <2>4. \A x \in Titles : x \in Shelved(library) =>
            /\ x \in Shelved(library')
            /\ library.manga[x].inLibrary => library'.manga[x].inLibrary
    BY <1>1, <1>2
  <2> QED  BY <1>4, <1>6, <1>7, <2>1, <2>2, <2>3, <2>4, RestoreCarried
<1> QED  BY <1>4, <1>5, <1>8, <1>9 DEF LibrarySound

LEMMA NewCategory ==
  ASSUME LibrarySound, NEW name \in Typed, CreateCategory(name)
  PROVE  LibrarySound'
<1> DEFINE k == lastId.category + 1
           n == Cardinality(Ids(library))
           S == Ids(library) \cup {k}
           category == [c \in S |-> IF c \in Ids(library) THEN library.category[c]
                                    ELSE [name |-> name, ord |-> n + 1]]
<1>1. /\ n \in Nat /\ lastId \in [manga : Nat, category : Nat] /\ k \in Nat
      /\ Ids(library) \subseteq 1..lastId.category
      /\ IsFiniteSet(Ids(library))
  <2>1. RowsSound
    BY DEF LibrarySound
  <2>2. lastId \in [manga : Nat, category : Nat] /\ Ids(library) \subseteq 1..lastId.category
    BY <2>1 DEF RowsSound
  <2> QED  BY <2>1, <2>2, IdsFinite
<1>2. k \notin Ids(library) /\ lastId.category < k
  BY <1>1
<1>3. lastId' = [lastId EXCEPT !.category = k] /\ lastId'.category = k
      /\ lastId'.manga = lastId.manga /\ lastId' \in [manga : Nat, category : Nat]
  <2>1. lastId' = [lastId EXCEPT !.category = k]
    BY DEF CreateCategory
  <2> HIDE DEF k
  <2> QED  BY <1>1, <2>1
<1>4. TopOrder(library) + 1 = n + 1
  BY TopIsNumber DEF LibrarySound
<1>5. library' = [manga |-> library.manga, category |-> category,
                  filed |-> library.filed, binding |-> library.binding]
  <2>1. library' = [library EXCEPT !.category = category]
    BY <1>3, <1>4 DEF CreateCategory, Edit
  <2>2. library = [manga |-> library.manga, category |-> library.category,
                   filed |-> library.filed, binding |-> library.binding]
    BY DEF LibrarySound, RowsSound
  <2> HIDE DEF category
  <2> QED  BY <2>1, <2>2
<1>6. /\ account = TRUE /\ UNCHANGED <<account, restore, meant>>
      /\ edited' = IF restore = Absent THEN {} ELSE edited \cup {}
  BY DEF CreateCategory, Edit, LibrarySound, RowsSound
<1>7. DOMAIN category = S /\ category[k] = [name |-> name, ord |-> n + 1]
      /\ \A c \in Ids(library) : category[c] = library.category[c]
  BY <1>2
<1>8. \A c \in S : category[c] \in CategoryRow
  <2>1. \A c \in Ids(library) : library.category[c] \in CategoryRow
    BY DEF LibrarySound, RowsSound
  <2>2. [name |-> name, ord |-> n + 1] \in CategoryRow
    BY <1>1, LibraryAssumption DEF CategoryRow
  <2> HIDE DEF category
  <2> QED  BY <1>7, <2>1, <2>2
<1>9. Cardinality(S) = n + 1
  BY <1>1, <1>2, FS_AddElement
<1>10. {category[c].ord : c \in S} = 1..(n + 1)
  <2>1. {library.category[c].ord : c \in Ids(library)} = 1..n
    BY DEF LibrarySound, CategoriesInOrder
  <2>2. category[k].ord = n + 1
    BY <1>7
  <2> HIDE DEF category, n, k
  <2>3. {category[c].ord : c \in S} = {library.category[c].ord : c \in Ids(library)} \cup {n + 1}
    BY <1>7, <2>2
  <2>4. 1..(n + 1) = 1..n \cup {n + 1}
    BY <1>1
  <2> QED  BY <2>1, <2>3, <2>4
<1>11. S \subseteq 1..k /\ \A c \in S : c <= lastId.category => c \in Ids(library)
  BY <1>1
<1>12. \A g \in library.filed : g[1] \in S
  <2>1. library.filed \subseteq Ids(library) \X Shelved(library)
    BY DEF LibrarySound, RowsSound
  <2> QED  BY <2>1
<1>13. lastId.category <= lastId'.category
  BY <1>1, <1>3
<1> HIDE DEF category, S, n, k
<1> QED  BY <1>3, <1>5, <1>6, <1>7, <1>8, <1>9, <1>10, <1>11, <1>12, <1>13, CategoriesEdited

LEMMA RenamedCategory ==
  ASSUME LibrarySound, NEW name \in Typed, NEW k \in Ids(library), UpdateCategory(k, name)
  PROVE  LibrarySound'
<1> DEFINE category == [library.category EXCEPT ![k].name = name]
<1>1. /\ Ids(library) \subseteq 1..lastId.category /\ lastId \in [manga : Nat, category : Nat]
      /\ \A c \in Ids(library) : library.category[c] \in CategoryRow
      /\ library.filed \subseteq Ids(library) \X Shelved(library)
      /\ lastId' = lastId
  BY DEF LibrarySound, RowsSound, UpdateCategory
<1>2. library' = [manga |-> library.manga, category |-> category,
                  filed |-> library.filed, binding |-> library.binding]
  <2>1. library' = [library EXCEPT !.category = category]
    BY DEF UpdateCategory, Edit
  <2>2. library = [manga |-> library.manga, category |-> library.category,
                   filed |-> library.filed, binding |-> library.binding]
    BY DEF LibrarySound, RowsSound
  <2> HIDE DEF category
  <2> QED  BY <2>1, <2>2
<1>3. /\ account = TRUE /\ UNCHANGED <<account, restore, meant>>
      /\ edited' = IF restore = Absent THEN {} ELSE edited \cup {}
  BY DEF UpdateCategory, Edit, LibrarySound, RowsSound
<1>4. DOMAIN category = Ids(library)
  BY DEF Ids
<1>5. \A c \in Ids(library) :
          category[c] \in CategoryRow /\ category[c].ord = library.category[c].ord
  <2> TAKE c \in Ids(library)
  <2>1. CASE c = k
    <3>1. category[k] = [library.category[k] EXCEPT !.name = name]
      BY DEF Ids
    <3>2. name \in Names
      BY LibraryAssumption
    <3> HIDE DEF category
    <3> QED  BY <1>1, <2>1, <3>1, <3>2 DEF CategoryRow
  <2>2. CASE c # k
    BY <1>1, <2>2 DEF Ids
  <2> QED  BY <2>1, <2>2
<1> HIDE DEF category
<1>6. {category[c].ord : c \in Ids(library)} = 1..Cardinality(Ids(library))
  BY <1>5 DEF LibrarySound, CategoriesInOrder
<1>7. \A g \in library.filed : g[1] \in Ids(library)
  BY <1>1
<1>8. lastId.category <= lastId'.category
  BY <1>1
<1> QED  BY <1>1, <1>2, <1>3, <1>4, <1>5, <1>6, <1>7, <1>8, CategoriesEdited

(* A table of which one row is dropped is listed at 1..n again.            *)
LEMMA DroppedCategory ==
  ASSUME LibrarySound, NEW k \in Ids(library), DeleteCategory(k)
  PROVE  LibrarySound'
<1> DEFINE S == Ids(library) \ {k}
           rest == [d \in S |-> library.category[d]]
           category == RenumberCategories(rest)
           filed == {g \in library.filed : g[1] # k}
<1>1. /\ Ids(library) \subseteq 1..lastId.category /\ lastId \in [manga : Nat, category : Nat]
      /\ \A c \in Ids(library) : library.category[c] \in CategoryRow
      /\ library.filed \subseteq Ids(library) \X Shelved(library)
      /\ lastId' = lastId /\ lastId.category <= lastId'.category
  BY DEF LibrarySound, RowsSound, DeleteCategory
<1>2. library' = [manga |-> library.manga, category |-> category,
                  filed |-> filed, binding |-> library.binding]
  <2>1. library' = [library EXCEPT !.category = category, !.filed = filed]
    BY DEF DeleteCategory, CategoryDropped, CategoryDeleted, Edit
  <2>2. library = [manga |-> library.manga, category |-> library.category,
                   filed |-> library.filed, binding |-> library.binding]
    BY DEF LibrarySound, RowsSound
  <2> HIDE DEF category, filed
  <2> QED  BY <2>1, <2>2
<1>3. /\ account = TRUE /\ UNCHANGED <<account, restore, meant>>
      /\ edited' = IF restore = Absent THEN {} ELSE edited \cup {}
  BY DEF DeleteCategory, Edit, LibrarySound, RowsSound
<1>4. DOMAIN rest = S /\ \A c \in S : rest[c] = library.category[c]
  OBVIOUS
<1>5. IsFiniteSet(S)
  <2>1. IsFiniteSet(Ids(library))
    BY IdsFinite DEF LibrarySound
  <2> QED  BY <2>1, FS_RemoveElement
<1>6. \A c \in S : c \in Int /\ rest[c] \in CategoryRow /\ rest[c].ord \in Int
  <2>1. \A c \in S : c \in Int
    BY <1>1
  <2>2. \A c \in S : rest[c] \in CategoryRow
    BY <1>1, <1>4
  <2> QED  BY <2>1, <2>2 DEF CategoryRow
<1>7. /\ \A c \in S : PlaceIn(rest, c) \in 1..Cardinality(S)
      /\ {PlaceIn(rest, c) : c \in S} = 1..Cardinality(S)
  <2> HIDE DEF rest, S
  <2> QED  BY <1>4, <1>5, <1>6, PlacesAreDense
<1>8. /\ DOMAIN category = S
      /\ \A c \in S : category[c] = [rest[c] EXCEPT !.ord = PlaceIn(rest, c)]
  <2> HIDE DEF rest, S
  <2> QED  BY <1>4 DEF RenumberCategories
<1>9. \A c \in S : category[c] \in CategoryRow /\ category[c].ord = PlaceIn(rest, c)
  <2> TAKE c \in S
  <2> HIDE DEF rest, S, category
  <2>1. PlaceIn(rest, c) \in Nat /\ rest[c] \in CategoryRow
    BY <1>5, <1>6, <1>7, FS_CardinalityType
  <2> QED  BY <1>8, <2>1 DEF CategoryRow
<1>10. {category[c].ord : c \in S} = 1..Cardinality(S)
  <2> HIDE DEF rest, S, category
  <2> QED  BY <1>7, <1>9
<1>11. /\ filed \in SUBSET library.filed
       /\ \A g \in library.filed : g[1] \in S => g \in filed
  OBVIOUS
<1>12. \A g \in filed : g[1] \in S
  BY <1>1
<1>13. /\ S \subseteq 1..lastId'.category
       /\ \A c \in S : c <= lastId.category => c \in Ids(library)
  BY <1>1
<1> HIDE DEF S, rest, category, filed
<1> QED  BY <1>1, <1>2, <1>3, <1>8, <1>9, <1>10, <1>11, <1>12, <1>13, CategoriesEdited

(* Taking one out of a list and putting it back moves the rest by one, and *)
(* leaves no place empty or taken twice.                                   *)
LEMMA MovedCategory ==
  ASSUME LibrarySound, NEW k \in Ids(library),
         NEW position \in 1..(Cardinality(Ids(library)) + 1), UpdateCategoryOrder(k, position)
  PROVE  LibrarySound'
<1> DEFINE S == Ids(library)
           n == Cardinality(S)
           place == [c \in S |-> PlaceIn(library.category, c)]
           from == place[k]
           to == IF position > n THEN n ELSE position
           Shift(p) == IF from < p /\ p <= to THEN p - 1
                       ELSE IF to <= p /\ p < from THEN p + 1 ELSE p
           ord == [c \in S |-> IF c = k THEN to ELSE Shift(place[c])]
           category == [d \in S |-> [library.category[d] EXCEPT !.ord = ord[d]]]
<1>1. /\ Ids(library) \subseteq 1..lastId.category /\ lastId \in [manga : Nat, category : Nat]
      /\ \A c \in Ids(library) : library.category[c] \in CategoryRow
      /\ library.filed \subseteq Ids(library) \X Shelved(library)
      /\ lastId' = lastId /\ lastId.category <= lastId'.category
  BY DEF LibrarySound, RowsSound, UpdateCategoryOrder
<1>2. library' = [manga |-> library.manga, category |-> category,
                  filed |-> library.filed, binding |-> library.binding]
  <2>1. library' = Moved(library, k, position)
    BY DEF UpdateCategoryOrder, Edit
  <2>2. \A d \in S : IF d = k THEN ord[d] = to ELSE ord[d] = Shift(PlaceIn(library.category, d))
    OBVIOUS
  <2>3. from = PlaceIn(library.category, k)
    OBVIOUS
  <2>4. Moved(library, k, position) = [library EXCEPT !.category = category]
    BY DEF Moved
  <2>5. library = [manga |-> library.manga, category |-> library.category,
                   filed |-> library.filed, binding |-> library.binding]
    BY DEF LibrarySound, RowsSound
  <2> HIDE DEF category
  <2> QED  BY <2>1, <2>4, <2>5
<1>3. /\ account = TRUE /\ UNCHANGED <<account, restore, meant>>
      /\ edited' = IF restore = Absent THEN {} ELSE edited \cup {}
  BY DEF UpdateCategoryOrder, Edit, LibrarySound, RowsSound
<1>4. n \in Nat /\ IsFiniteSet(S)
  BY IdsFinite DEF LibrarySound
<1>5. /\ \A c \in S : place[c] \in 1..n
      /\ {place[c] : c \in S} = 1..n
      /\ \A c, d \in S : place[c] = place[d] => c = d
  <2>1. \A c \in DOMAIN library.category : c \in Int /\ library.category[c].ord \in Int
    <3>1. \A c \in Ids(library) : c \in Int
      BY <1>1
    <3> QED  BY <1>1, <3>1 DEF CategoryRow, Ids
  <2>2. IsFiniteSet(DOMAIN library.category) /\ S = DOMAIN library.category
    BY <1>4 DEF Ids
  <2>3. /\ \A c \in S : PlaceIn(library.category, c) \in 1..n
        /\ {PlaceIn(library.category, c) : c \in S} = 1..n
        /\ \A c, d \in S :
              PlaceIn(library.category, c) = PlaceIn(library.category, d) => c = d
    <3> HIDE DEF S
    <3> QED  BY <2>1, <2>2, PlacesAreDense
  <2>4. \A c \in S : place[c] = PlaceIn(library.category, c)
    OBVIOUS
  <2> HIDE DEF n, S, place
  <2> QED  BY <2>3, <2>4
<1>6. n # 0
  BY <1>4, FS_EmptySet
<1>7. to \in 1..n /\ from \in 1..n
  <2> HIDE DEF n, S
  <2>1. position \in 1..(n + 1)
    BY DEF n, S
  <2>2. from \in 1..n
    BY <1>5 DEF S
  <2>3. to \in 1..n
    <3> HIDE DEF place
    <3> QED  BY <1>4, <1>6, <2>1
  <2> QED  BY <2>2, <2>3
<1> HIDE DEF place, from, to, n, S
<1>8. \A c \in S : ord[c] \in 1..n
  BY <1>4, <1>5, <1>7
<1>9. ASSUME NEW p \in 1..n PROVE \E c \in S : ord[c] = p
  <2>1. CASE p = to
    BY <2>1 DEF S
  <2>2. CASE p # to
    <3> DEFINE q == IF from <= p /\ p < to THEN p + 1
                    ELSE IF to < p /\ p <= from THEN p - 1 ELSE p
    <3>1. q \in 1..n /\ q # from /\ Shift(q) = p
      BY <1>4, <1>7, <2>2
    <3> HIDE DEF q
    <3>2. PICK c \in S : place[c] = q
      BY <1>5, <3>1
    <3>3. c # k
      BY <3>1, <3>2 DEF from
    <3> QED  BY <3>1, <3>2, <3>3
  <2> QED  BY <2>1, <2>2
<1>10. {ord[c] : c \in S} = 1..n
  <2> HIDE DEF ord
  <2> QED  BY <1>8, <1>9
<1> HIDE DEF ord
<1>11. DOMAIN category = S
  OBVIOUS
<1>12. \A c \in S : category[c] \in CategoryRow /\ category[c].ord = ord[c]
  <2> TAKE c \in S
  <2>1. library.category[c] \in CategoryRow /\ ord[c] \in Nat
    BY <1>1, <1>4, <1>8 DEF S
  <2>2. category[c] = [library.category[c] EXCEPT !.ord = ord[c]]
    OBVIOUS
  <2> HIDE DEF category
  <2> QED  BY <2>1, <2>2 DEF CategoryRow
<1>13. {category[c].ord : c \in S} = 1..n
  <2> HIDE DEF category
  <2> QED  BY <1>10, <1>12
<1>14. /\ S \subseteq 1..lastId'.category
       /\ \A c \in S : c <= lastId.category => c \in Ids(library)
       /\ \A g \in library.filed : g[1] \in S
  BY <1>1 DEF S
<1> HIDE DEF category
<1> QED  BY <1>1, <1>2, <1>3, <1>11, <1>12, <1>13, <1>14, CategoriesEdited DEF n

-----------------------------------------------------------------------------
\* The titles, edited.

LEMMA TitlesEdited ==
  ASSUME LibrarySound, NEW xs \in SUBSET Titles,
         library' = [manga |-> library'.manga, category |-> library.category,
                     filed |-> library'.filed, binding |-> library'.binding],
         account = TRUE, UNCHANGED <<account, restore>>, DOMAIN meant' = Titles,
         edited' = IF restore = Absent THEN {} ELSE edited \cup xs,
         lastId' \in [manga : Nat, category : Nat], lastId'.category = lastId.category,
         lastId.manga <= lastId'.manga,
         library'.manga \in [Titles -> LibraryRow \cup {Absent}],
         library'.binding \in [Titles -> Nat],
         library'.filed \subseteq Ids(library) \X Shelved(library'),
         RowsStay(library, library', lastId),
         \A x, y \in Shelved(library') :
             library'.manga[x].id = library'.manga[y].id => x = y,
         \A x \in Shelved(library') : library'.manga[x].id <= lastId'.manga,
         \A x \in Shelved(library) : x \notin xs => library'.manga[x] = library.manga[x],
         \A g \in library.filed : g[2] \notin xs => g \in library'.filed,
         \A x \in Titles : library'.binding[x] # 0 =>
             \/ library'.binding[x] = library.binding[x] /\ meant'[x] = meant[x]
             \/ GivenIn(library', lastId', library'.binding[x], meant'[x])
  PROVE  LibrarySound'
<1>1. library'.category = library.category
  OBVIOUS
<1>2. /\ Ids(library') = Ids(library)
      /\ Shelved(library)' = Shelved(library') /\ Ids(library)' = Ids(library')
  BY <1>1 DEF Ids, Shelved
<1>3. RowsSound'
  <2>1. library' = [manga |-> library'.manga, category |-> library'.category,
                    filed |-> library'.filed, binding |-> library'.binding]
    BY <1>1
  <2>2. account' = TRUE /\ edited' \subseteq Titles
    BY DEF LibrarySound, RowsSound
  <2>3. /\ Ids(library) \subseteq 1..lastId.category
        /\ \A c \in Ids(library) : library.category[c] \in CategoryRow
    BY DEF LibrarySound, RowsSound
  <2>4. /\ Ids(library') \subseteq 1..lastId'.category
        /\ \A c \in Ids(library') : library'.category[c] \in CategoryRow
    BY <1>1, <1>2, <2>3
  <2>5. library'.filed \subseteq Ids(library') \X Shelved(library')
    BY <1>1, <1>2
  <2>6. /\ library'.manga \in [Titles -> LibraryRow \cup {Absent}]
        /\ library'.binding \in [Titles -> Nat]
        /\ \A x, y \in Shelved(library') :
              library'.manga[x].id = library'.manga[y].id => x = y
        /\ \A x \in Shelved(library') : library'.manga[x].id <= lastId'.manga
    OBVIOUS
  <2> QED  BY <1>2, <2>1, <2>2, <2>4, <2>5, <2>6 DEF RowsSound
<1>4. CategoriesInOrder'
  BY <1>1 DEF LibrarySound, CategoriesInOrder, Ids
<1>5. BindingsSound'
  BY <1>1, <1>3, BindingsCarried
<1>6. RestoreSound'
  <2>1. Running => edited \subseteq edited' /\ xs \subseteq edited'
    BY DEF Running
  <2>2. lastId.category <= lastId'.category
    BY DEF LibrarySound, RowsSound
  <2>3. \A c \in Ids(library') : c <= lastId.category => c \in Ids(library)
    BY <1>2
  <2>4. ASSUME Running, NEW x \in Titles \ edited', x \in Shelved(library)
        PROVE  x \in Shelved(library') /\ library'.manga[x] = library.manga[x]
    BY <1>1, <2>1, <2>4 DEF Shelved
  <2>5. ASSUME Running, NEW x \in Titles \ edited', NEW c \in Ids(library'),
               <<c, x>> \in library.filed
        PROVE  <<c, x>> \in library'.filed
    <3>1. <<c, x>>[2] \notin xs
      BY <2>1, <2>5
    <3> QED  BY <1>1, <2>5, <3>1
  <2> QED  BY <1>3, <2>1, <2>2, <2>3, <2>4, <2>5, RestoreCarried
<1> QED  BY <1>3, <1>4, <1>5, <1>6 DEF LibrarySound

\* What the tables look like before an edit, conjunct by conjunct.
LEMMA BeforeEdit ==
  ASSUME LibrarySound
  PROVE  /\ library = [manga |-> library.manga, category |-> library.category,
                       filed |-> library.filed, binding |-> library.binding]
         /\ library.manga \in [Titles -> LibraryRow \cup {Absent}]
         /\ library.binding \in [Titles -> Nat]
         /\ lastId \in [manga : Nat, category : Nat]
         /\ library.filed \subseteq Ids(library) \X Shelved(library)
         /\ \A x, y \in Shelved(library) :
               library.manga[x].id = library.manga[y].id => x = y
         /\ \A x \in Shelved(library) : library.manga[x].id <= lastId.manga
         /\ account \in BOOLEAN
         /\ DOMAIN meant = Titles
BY DEF LibrarySound, RowsSound, BindingsSound

LEMMA FiledTitles ==
  ASSUME LibrarySound, NEW xs \in SUBSET Titles, NEW clear, NEW remove, NEW add,
         UpdateMangasCategories(xs, clear, remove, add)
  PROVE  LibrarySound'
<1> DEFINE spared == {g \in library.filed : g[2] \in xs => ~clear /\ g[1] \notin remove}
           filed == spared \cup (add \X xs)
<1>1. library' = [manga |-> library.manga, category |-> library.category,
                  filed |-> filed, binding |-> library.binding]
  <2>1. library' = [library EXCEPT !.filed = filed]
    BY DEF UpdateMangasCategories, Filed, Edit
  <2> HIDE DEF filed
  <2> QED  BY <2>1, BeforeEdit
<1>2. /\ account = TRUE /\ UNCHANGED <<account, restore, meant, lastId>>
      /\ edited' = IF restore = Absent THEN {} ELSE edited \cup xs
      /\ xs \subseteq Shelved(library) /\ add \subseteq Ids(library)
  BY BeforeEdit DEF UpdateMangasCategories, Edit
<1>3. library'.manga = library.manga /\ Shelved(library') = Shelved(library)
  BY <1>1 DEF Shelved
<1>4. filed \subseteq Ids(library) \X Shelved(library')
  <2>1. add \X xs \subseteq Ids(library) \X Shelved(library)
    BY <1>2
  <2>2. spared \subseteq Ids(library) \X Shelved(library)
    BY BeforeEdit
  <2> QED  BY <1>3, <2>1, <2>2
<1>5. RowsStay(library, library', lastId)
  BY <1>3 DEF RowsStay
<1>6. \A g \in library.filed : g[2] \notin xs => g \in filed
  OBVIOUS
<1>7. lastId.manga <= lastId'.manga
  BY <1>2, BeforeEdit
<1> HIDE DEF filed
<1>8. library'.filed = filed /\ library'.binding = library.binding
  BY <1>1
<1> QED  BY <1>1, <1>2, <1>3, <1>4, <1>5, <1>6, <1>7, <1>8, BeforeEdit, TitlesEdited

LEMMA MembershipSet ==
  ASSUME LibrarySound, NEW xs \in SUBSET Titles, NEW inLibrary \in BOOLEAN,
         UpdateMangas(xs, inLibrary)
  PROVE  LibrarySound'
<1> DEFINE manga == [x \in Titles |->
                        IF x \in xs THEN [library.manga[x] EXCEPT !.inLibrary = inLibrary]
                        ELSE library.manga[x]]
<1>1. library' = [manga |-> manga, category |-> library.category,
                  filed |-> library.filed, binding |-> library.binding]
  <2>1. library' = [library EXCEPT !.manga = manga]
    <3>1. library' = [library EXCEPT !.manga = [x \in Titles |->
                         IF x \in xs THEN [@[x] EXCEPT !.inLibrary = inLibrary] ELSE @[x]]]
      BY DEF UpdateMangas, Edit
    <3> QED  BY <3>1
  <2> HIDE DEF manga
  <2> QED  BY <2>1, BeforeEdit
<1>2. /\ account = TRUE /\ UNCHANGED <<account, restore, meant, lastId>>
      /\ edited' = IF restore = Absent THEN {} ELSE edited \cup xs
      /\ xs \subseteq Shelved(library)
  BY BeforeEdit DEF UpdateMangas, Edit
<1>3. \A x \in Shelved(library) :
          /\ x \in Titles /\ library.manga[x] \in LibraryRow
          /\ library.manga[x].id <= lastId.manga
  BY BeforeEdit DEF Shelved
<1>4. ASSUME NEW x \in Shelved(library)
      PROVE  manga[x] \in LibraryRow /\ manga[x].id = library.manga[x].id
  <2>1. CASE x \in xs
    <3>1. manga[x] = [library.manga[x] EXCEPT !.inLibrary = inLibrary]
      BY <1>3, <2>1
    <3> HIDE DEF manga
    <3> QED  BY <1>3, <3>1 DEF LibraryRow
  <2>2. CASE x \notin xs
    BY <1>3, <2>2
  <2> QED  BY <2>1, <2>2
<1>5. ASSUME NEW x \in Titles, x \notin Shelved(library) PROVE manga[x] = Absent
  <2>1. x \notin xs /\ library.manga[x] = Absent
    BY <1>2, <1>5 DEF Shelved
  <2> QED  BY <2>1
<1>6. \A x \in Shelved(library) : x \notin xs => manga[x] = library.manga[x]
  BY <1>3
<1> HIDE DEF manga
<1>7. manga \in [Titles -> LibraryRow \cup {Absent}]
  <2>1. manga = [x \in Titles |-> manga[x]]
    BY DEF manga
  <2>2. \A x \in Titles : manga[x] \in LibraryRow \cup {Absent}
    BY <1>4, <1>5
  <2> QED  BY <2>1, <2>2
<1>8. Shelved(library') = Shelved(library) /\ library'.manga = manga
  <2>1. library'.manga = manga
    BY <1>1
  <2>2. \A x \in Shelved(library) : x \in Titles /\ manga[x] # Absent
    BY <1>3, <1>4, LibraryAssumption
  <2> QED  BY <1>5, <2>1, <2>2 DEF Shelved
<1>9. RowsStay(library, library', lastId)
  BY <1>4, <1>8 DEF RowsStay
<1>10. /\ \A x, y \in Shelved(library') : manga[x].id = manga[y].id => x = y
       /\ \A x \in Shelved(library') : manga[x].id <= lastId'.manga
  BY <1>2, <1>3, <1>4, <1>8, BeforeEdit
<1>11. lastId.manga <= lastId'.manga
  BY <1>2, BeforeEdit
<1>12. \A g \in library.filed : g[2] \notin xs => g \in library.filed
  OBVIOUS
<1>13. /\ library.filed \subseteq Ids(library) \X Shelved(library')
       /\ library.binding \in [Titles -> Nat]
       /\ lastId' \in [manga : Nat, category : Nat] /\ lastId'.category = lastId.category
  BY <1>2, <1>8, BeforeEdit
<1>14. library'.filed = library.filed /\ library'.binding = library.binding
  BY <1>1
<1>15. DOMAIN meant' = Titles
  BY <1>2, BeforeEdit
<1> QED  BY <1>1, <1>2, <1>6, <1>7, <1>8, <1>9, <1>10, <1>11, <1>12, <1>13, <1>14, <1>15,
            TitlesEdited

LEMMA TitleFound ==
  ASSUME LibrarySound, NEW x \in Titles, NEW inLibrary \in BOOLEAN, Discover(x, inLibrary)
  PROVE  LibrarySound'
<1> DEFINE k == lastId.manga + 1
           row == [id |-> k, inLibrary |-> inLibrary]
           manga == [library.manga EXCEPT ![x] = row]
<1>1. /\ lastId.manga \in Nat /\ k \in Nat \ {0} /\ lastId.manga < k
  <2>1. lastId.manga \in Nat
    BY BeforeEdit
  <2> QED  BY <2>1
<1>2. lastId'.manga = k /\ lastId'.category = lastId.category
      /\ lastId' \in [manga : Nat, category : Nat]
  <2>1. lastId' = [lastId EXCEPT !.manga = k]
    BY DEF Discover
  <2> HIDE DEF k
  <2> QED  BY <1>1, <2>1, BeforeEdit
<1>3. library' = [manga |-> manga, category |-> library.category,
                  filed |-> library.filed, binding |-> library.binding]
  <2>1. library' = [library EXCEPT !.manga = manga]
    <3>1. library' = [library EXCEPT !.manga[x] = [id |-> lastId'.manga, inLibrary |-> inLibrary]]
      BY DEF Discover, Edit
    <3> HIDE DEF k
    <3> QED  BY <1>2, <3>1
  <2> HIDE DEF manga
  <2> QED  BY <2>1, BeforeEdit
<1>4. /\ account = TRUE /\ UNCHANGED <<account, restore, meant>>
      /\ edited' = IF restore = Absent THEN {} ELSE edited \cup {x}
      /\ library.manga[x] = Absent
  BY BeforeEdit DEF Discover, Edit
<1>5. row \in LibraryRow /\ row.id = k
  BY <1>1 DEF LibraryRow
<1> HIDE DEF k, row
<1>6. /\ manga \in [Titles -> LibraryRow \cup {Absent}] /\ manga[x] = row
      /\ \A y \in Titles \ {x} : manga[y] = library.manga[y]
  BY <1>5, BeforeEdit
<1> HIDE DEF manga
<1>7. library'.manga = manga /\ library'.filed = library.filed
      /\ library'.binding = library.binding
  BY <1>3
<1>8. Shelved(library') = Shelved(library) \cup {x} /\ x \notin Shelved(library)
  <2>1. row # Absent
    BY <1>5, LibraryAssumption
  <2> QED  BY <1>4, <1>6, <1>7, <2>1 DEF Shelved
<1>9. \A y \in Shelved(library) : y # x /\ y \in Titles /\ manga[y] = library.manga[y]
  BY <1>6, <1>8 DEF Shelved
<1>10. RowsStay(library, library', lastId)
  BY <1>1, <1>5, <1>6, <1>7, <1>8, <1>9 DEF RowsStay
<1>11. \A y \in Shelved(library) : library.manga[y].id \in Nat /\ library.manga[y].id <= lastId.manga
  <2>1. \A y \in Shelved(library) : library.manga[y] \in LibraryRow
    BY BeforeEdit DEF Shelved
  <2>2. \A y \in Shelved(library) : library.manga[y].id \in Nat
    BY <2>1 DEF LibraryRow
  <2> QED  BY <2>2, BeforeEdit
<1>12. \A y \in Shelved(library') : library'.manga[y].id <= lastId'.manga
  BY <1>1, <1>2, <1>5, <1>6, <1>7, <1>8, <1>9, <1>11
<1>13. \A y, z \in Shelved(library') :
           library'.manga[y].id = library'.manga[z].id => y = z
  <2>1. \A y \in Shelved(library) : library'.manga[y].id = library.manga[y].id
                                    /\ library'.manga[y].id # k
    BY <1>1, <1>7, <1>9, <1>11
  <2>2. library'.manga[x].id = k
    BY <1>5, <1>6, <1>7
  <2> QED  BY <1>8, <2>1, <2>2, BeforeEdit
<1>14. library'.filed \subseteq Ids(library) \X Shelved(library')
  BY <1>7, <1>8, BeforeEdit
<1>15. \A y \in Shelved(library) : y \notin {x} => library'.manga[y] = library.manga[y]
  BY <1>7, <1>9
<1>16. lastId.manga <= lastId'.manga /\ {x} \in SUBSET Titles
  BY <1>1, <1>2
<1>17. library' = [manga |-> library'.manga, category |-> library.category,
                   filed |-> library'.filed, binding |-> library'.binding]
  BY <1>3, <1>7
<1>18. \A g \in library.filed : g \in library'.filed
  BY <1>7
<1> QED  BY <1>2, <1>4, <1>6, <1>7, <1>10, <1>12, <1>13, <1>14, <1>15, <1>16, <1>17, <1>18,
            BeforeEdit, TitlesEdited

LEMMA BindingEdited ==
  ASSUME LibrarySound, NEW x \in Titles, NEW id \in Nat,
         Edit([library EXCEPT !.binding[x] = id], {x}), UNCHANGED lastId,
         DOMAIN meant' = Titles, \A y \in Titles \ {x} : meant'[y] = meant[y],
         id # 0 => GivenIn(library, lastId, id, meant'[x])
  PROVE  LibrarySound'
<1> DEFINE binding == [library.binding EXCEPT ![x] = id]
<1>1. library' = [manga |-> library.manga, category |-> library.category,
                  filed |-> library.filed, binding |-> binding]
  <2>1. library' = [library EXCEPT !.binding = binding]
    <3>1. library' = [library EXCEPT !.binding[x] = id]
      BY DEF Edit
    <3> QED  BY <3>1
  <2> HIDE DEF binding
  <2> QED  BY <2>1, BeforeEdit
<1>2. /\ account = TRUE /\ UNCHANGED <<account, restore, lastId>>
      /\ edited' = IF restore = Absent THEN {} ELSE edited \cup {x}
  BY BeforeEdit DEF Edit
<1>3. /\ binding \in [Titles -> Nat] /\ binding[x] = id
      /\ \A y \in Titles \ {x} : binding[y] = library.binding[y]
  BY BeforeEdit
<1> HIDE DEF binding
<1>4. library'.manga = library.manga /\ library'.filed = library.filed
      /\ library'.binding = binding
  BY <1>1
<1>5. Shelved(library') = Shelved(library)
  BY <1>4 DEF Shelved
<1>6. RowsStay(library, library', lastId)
  BY <1>4, <1>5 DEF RowsStay
<1>7. id # 0 => GivenIn(library', lastId', id, meant'[x])
  <2>1. TitleOf(library', id) = TitleOf(library, id)
    BY <1>4, <1>5 DEF TitleOf
  <2> QED  BY <1>2, <1>4, <1>5, <2>1 DEF GivenIn, NamesRow
<1>8. \A y \in Titles : library'.binding[y] # 0 =>
          \/ library'.binding[y] = library.binding[y] /\ meant'[y] = meant[y]
          \/ GivenIn(library', lastId', library'.binding[y], meant'[y])
  BY <1>3, <1>4, <1>7
<1>9. lastId.manga <= lastId'.manga
  BY <1>2, BeforeEdit
<1>10. library' = [manga |-> library'.manga, category |-> library.category,
                   filed |-> library'.filed, binding |-> library'.binding]
  BY <1>1, <1>4
<1>11. /\ library'.manga \in [Titles -> LibraryRow \cup {Absent}]
       /\ library'.binding \in [Titles -> Nat]
       /\ library'.filed \subseteq Ids(library) \X Shelved(library')
       /\ lastId' \in [manga : Nat, category : Nat] /\ lastId'.category = lastId.category
       /\ \A y, z \in Shelved(library') :
             library'.manga[y].id = library'.manga[z].id => y = z
       /\ \A y \in Shelved(library') : library'.manga[y].id <= lastId'.manga
  BY <1>2, <1>3, <1>4, <1>5, BeforeEdit
<1>12. /\ \A y \in Shelved(library) : library'.manga[y] = library.manga[y]
       /\ \A g \in library.filed : g \in library'.filed
       /\ {x} \in SUBSET Titles
  BY <1>4
<1> QED  BY <1>2, <1>6, <1>8, <1>9, <1>10, <1>11, <1>12, TitlesEdited

LEMMA TitleBound ==
  ASSUME LibrarySound, NEW x \in Titles, NEW y \in Titles, SetBinding(x, y)
  PROVE  LibrarySound'
<1> DEFINE id == library.manga[y].id
<1>1. x \in Shelved(library) /\ y \in Shelved(library)
  BY DEF SetBinding
<1>2. id \in 1..lastId.manga
  BY <1>1, BeforeEdit, RowNumbers
<1>3. y \in TitleOf(library, id)
  BY <1>1 DEF TitleOf
<1>4. GivenIn(library, lastId, id, y)
  BY <1>2, <1>3 DEF GivenIn, NamesRow
<1>5. /\ meant' = [meant EXCEPT ![x] = y] /\ UNCHANGED lastId
      /\ Edit([library EXCEPT !.binding[x] = id], {x})
  BY DEF SetBinding
<1>6. DOMAIN meant' = Titles /\ meant'[x] = y /\ \A z \in Titles \ {x} : meant'[z] = meant[z]
  BY <1>5, BeforeEdit
<1>7. id \in Nat
  BY <1>2, BeforeEdit
<1> HIDE DEF id
<1> QED  BY <1>4, <1>5, <1>6, <1>7, BindingEdited

LEMMA TitleUnbound ==
  ASSUME LibrarySound, NEW x \in Titles, DeleteBinding(x)
  PROVE  LibrarySound'
<1>1. /\ meant' = [meant EXCEPT ![x] = Absent] /\ UNCHANGED lastId
      /\ Edit([library EXCEPT !.binding[x] = 0], {x})
  BY DEF DeleteBinding
<1>2. DOMAIN meant' = Titles /\ \A z \in Titles \ {x} : meant'[z] = meant[z]
  BY <1>1, BeforeEdit
<1> QED  BY <1>1, <1>2, BindingEdited

-----------------------------------------------------------------------------
\* The account, and what ends a restore.

LEMMA NoRowsSound ==
  /\ NoRows.manga \in [Titles -> LibraryRow \cup {Absent}]
  /\ NoRows.binding \in [Titles -> Nat]
  /\ NoRows = [manga |-> NoRows.manga, category |-> NoRows.category,
               filed |-> NoRows.filed, binding |-> NoRows.binding]
  /\ Shelved(NoRows) = {} /\ Ids(NoRows) = {} /\ NoRows.filed = {}
  /\ \A x \in Titles : NoRows.binding[x] = 0
BY DEF NoRows, Shelved, Ids

LEMMA AccountRemoved ==
  ASSUME LibrarySound, RemoveAccount
  PROVE  LibrarySound'
<1>1. /\ account' = FALSE /\ library' = NoRows /\ UNCHANGED <<lastId, restore>>
      /\ meant' = [x \in Titles |-> Absent]
      /\ edited' = IF restore = Absent THEN {} ELSE Titles
  BY DEF RemoveAccount
<1>2. Shelved(library') = {} /\ Ids(library') = {}
  BY <1>1, NoRowsSound
<1>3. Shelved(library)' = Shelved(library') /\ Ids(library)' = Ids(library')
  BY DEF Shelved, Ids
<1>4. RowsSound'
  <2>1. lastId' \in [manga : Nat, category : Nat]
    BY <1>1, BeforeEdit
  <2> QED  BY <1>1, <1>2, <1>3, <2>1, NoRowsSound DEF RowsSound
<1>5. CategoriesInOrder'
  <2>1. 1..0 = {} /\ Cardinality({}) = 0
    BY FS_EmptySet
  <2>2. {library'.category[c].ord : c \in Ids(library')} = {}
    BY <1>2
  <2>3. 1..Cardinality(Ids(library')) = {}
    BY <1>2, <2>1
  <2> QED  BY <1>3, <2>2, <2>3 DEF CategoriesInOrder
<1>6. RowsStay(library, library', lastId)
  BY <1>2 DEF RowsStay
<1>7. lastId.manga <= lastId'.manga /\ lastId.category <= lastId'.category
  <2>1. lastId.manga \in Nat /\ lastId.category \in Nat
    BY BeforeEdit
  <2> QED  BY <1>1, <2>1
<1>8. BindingsSound'
  <2>1. \A x \in Titles : library'.binding[x] = 0
    BY <1>1, NoRowsSound
  <2>2. DOMAIN meant' = Titles
    BY <1>1
  <2> QED  BY <1>4, <1>6, <1>7, <2>1, <2>2, BindingsCarried
<1>9. RestoreSound'
  <2>1. Running => edited' = Titles
    BY <1>1 DEF Running
  <2>2. edited \subseteq Titles
    BY DEF LibrarySound, RowsSound
  <2> QED  BY <1>1, <1>2, <1>4, <1>6, <1>7, <2>1, <2>2, RestoreCarried
<1> QED  BY <1>4, <1>5, <1>8, <1>9 DEF LibrarySound

LEMMA TablesUntouched ==
  ASSUME LibrarySound, UNCHANGED <<library, lastId, meant>>, account' \in BOOLEAN,
         account' = FALSE => account = FALSE, edited' \in SUBSET Titles
  PROVE  RowsSound' /\ CategoriesInOrder' /\ BindingsSound'
<1>1. RowsSound'
  BY DEF LibrarySound, RowsSound
<1>2. CategoriesInOrder'
  BY DEF LibrarySound, CategoriesInOrder
<1>3. BindingsSound'
  BY DEF LibrarySound, BindingsSound, Given
<1> QED  BY <1>1, <1>2, <1>3

LEMMA RestoreOver ==
  ASSUME LibrarySound, UNCHANGED <<account, library, lastId, meant>>, edited' = {},
         restore' \in {Absent, JobEnded("SUCCESS"), JobEnded("FAILURE")}
  PROVE  LibrarySound'
<1>1. ~Running'
  BY DEF Running, JobEnded
<1>2. account' \in BOOLEAN /\ edited' \in SUBSET Titles /\ (account' = FALSE => account = FALSE)
  BY BeforeEdit
<1> QED  BY <1>1, <1>2, TablesUntouched DEF LibrarySound, RestoreSound

-----------------------------------------------------------------------------
\* A restore begins.

(* Numbered in their order, the members of a finite set get 1..n, one each: *)
(* the ids a transaction gives the rows it inserts.                         *)
LEMMA NumbersInTurn ==
  ASSUME NEW S, IsFiniteSet(S), \A i \in S : i \in Int
  PROVE  /\ \A i \in S : UpTo(S, i) \in 1..Cardinality(S)
         /\ \A i, j \in S : UpTo(S, i) = UpTo(S, j) => i = j
         /\ {UpTo(S, i) : i \in S} = 1..Cardinality(S)
<1> DEFINE R == {e \in S \X S : e[1] <= e[2]}
<1>1. \A i, j \in S : <<i, j>> \in R <=> i <= j
  OBVIOUS
<1>2. TotallyOrders(S, R)
  <2> HIDE DEF R
  <2> QED  BY <1>1 DEF TotallyOrders
<1>3. \A i \in S : Standing(S, R)[i] = UpTo(S, i)
  <2> TAKE i \in S
  <2>1. Preceding(S, R, i) = {j \in S : j <= i}
    BY <1>1 DEF Preceding
  <2> QED  BY <2>1 DEF Standing, UpTo
<1> HIDE DEF R
<1>4. \A i \in S : UpTo(S, i) \in 1..Cardinality(S)
  BY <1>2, <1>3, StandingsAreDense
<1>5. \A i, j \in S : UpTo(S, i) = UpTo(S, j) => i = j
  BY <1>2, <1>3, StandingsAreDense
<1>6. \A k \in 1..Cardinality(S) : \E i \in S : UpTo(S, i) = k
  BY <1>2, <1>3, StandingsAreDense
<1> QED  BY <1>4, <1>5, <1>6

LEMMA NextNumbers ==
  ASSUME NEW last \in Nat, NEW m \in Nat
  PROVE  IsFiniteSet((last + 1)..(last + m)) /\ Cardinality((last + 1)..(last + m)) = m
<1> DEFINE a == last + 1
           b == last + m
<1>1. a \in Int /\ b \in Int /\ (IF a > b THEN 0 ELSE b - a + 1) = m
  OBVIOUS
<1> HIDE DEF a, b
<1>2. IsFiniteSet(a..b) /\ Cardinality(a..b) = IF a > b THEN 0 ELSE b - a + 1
  BY <1>1, FS_Interval
<1>3. IsFiniteSet(a..b) /\ Cardinality(a..b) = m
  BY <1>1, <1>2
<1> QED  BY <1>3 DEF a, b

LEMMA FreshFinite ==
  ASSUME NEW l, NEW d \in Documents
  PROVE  /\ FreshCategories(l, d) \in SUBSET Int
         /\ IsFiniteSet(FreshCategories(l, d))
         /\ Cardinality(FreshCategories(l, d)) \in Nat
         /\ \A i \in FreshCategories(l, d) : d.categories[i] \in Categories
<1>1. d.categories \in Seq(Categories)
  BY LibraryAssumption
<1>2. Len(d.categories) \in Nat /\ DOMAIN d.categories = 1..Len(d.categories)
      /\ \A i \in DOMAIN d.categories : d.categories[i] \in Categories
  BY <1>1
<1>3. IsFiniteSet(1..Len(d.categories))
  BY <1>2, FS_Interval
<1>4. FreshCategories(l, d) \subseteq 1..Len(d.categories)
  BY <1>2 DEF FreshCategories
<1> QED  BY <1>2, <1>3, <1>4, FS_Subset, FS_CardinalityType

(* The account's list, longer by the names it had not got.                 *)
LEMMA ListRestored ==
  ASSUME LibrarySound, NEW d \in Documents
  PROVE  LET fresh == FreshCategories(library, d)
             l == CategoriesRestored(library, lastId, d)
             top == lastId.category + Cardinality(fresh)
         IN  /\ l = [manga |-> library.manga, category |-> l.category,
                     filed |-> library.filed, binding |-> library.binding]
             /\ Ids(library) \subseteq Ids(l) /\ Ids(l) \subseteq 1..top
             /\ \A c \in Ids(l) : l.category[c] \in CategoryRow
             /\ {l.category[c].ord : c \in Ids(l)} = 1..Cardinality(Ids(l))
<1> DEFINE fresh == FreshCategories(library, d)
           last == lastId.category
           n == Cardinality(Ids(library))
           m == Cardinality(fresh)
           At(c) == CHOOSE i \in fresh : c = last + UpTo(fresh, i)
           new == {last + UpTo(fresh, i) : i \in fresh}
           category == [c \in Ids(library) \cup new |->
                           IF c \in Ids(library) THEN library.category[c]
                           ELSE [name |-> d.categories[At(c)].name,
                                 ord |-> n + UpTo(fresh, At(c))]]
           l == CategoriesRestored(library, lastId, d)
<1>1. /\ last \in Nat /\ n \in Nat /\ m \in Nat
      /\ IsFiniteSet(Ids(library)) /\ Ids(library) \subseteq 1..last
      /\ \A c \in Ids(library) : library.category[c] \in CategoryRow
      /\ {library.category[c].ord : c \in Ids(library)} = 1..n
  <2>1. RowsSound /\ CategoriesInOrder
    BY DEF LibrarySound
  <2>2. Ids(library) \subseteq 1..last /\ lastId \in [manga : Nat, category : Nat]
        /\ \A c \in Ids(library) : library.category[c] \in CategoryRow
    BY <2>1 DEF RowsSound
  <2> QED  BY <2>1, <2>2, IdsFinite, FreshFinite DEF CategoriesInOrder
<1>2. l = [manga |-> library.manga, category |-> category,
           filed |-> library.filed, binding |-> library.binding]
  <2>1. TopOrder(library) = n
    BY TopIsNumber DEF LibrarySound
  <2>2. l = [library EXCEPT !.category = category]
    BY <2>1 DEF CategoriesRestored
  <2> HIDE DEF category
  <2> QED  BY <2>2, BeforeEdit
<1>3. /\ \A i \in fresh : UpTo(fresh, i) \in 1..m
      /\ {UpTo(fresh, i) : i \in fresh} = 1..m
  BY FreshFinite, NumbersInTurn
<1>4. \A c \in new : At(c) \in fresh /\ c = last + UpTo(fresh, At(c))
  OBVIOUS
<1>5. \A i \in fresh : d.categories[i].name \in Names
  BY FreshFinite DEF Categories
<1> HIDE DEF m, n, last, At, fresh
<1>6. new = (last + 1)..(last + m)
  <2>1. \A i \in fresh : last + UpTo(fresh, i) \in (last + 1)..(last + m)
    BY <1>1, <1>3
  <2>2. ASSUME NEW c \in (last + 1)..(last + m) PROVE c \in new
    <3>1. c - last \in 1..m
      BY <1>1
    <3>2. PICK i \in fresh : UpTo(fresh, i) = c - last
      BY <1>3, <3>1
    <3>3. last + (c - last) = c
      BY <1>1
    <3> QED  BY <3>2, <3>3
  <2> QED  BY <2>1, <2>2
<1>7. IsFiniteSet(new) /\ Cardinality(new) = m
  <2> HIDE DEF new
  <2>1. last \in Nat /\ m \in Nat
    BY <1>1
  <2>2. IsFiniteSet((last + 1)..(last + m)) /\ Cardinality((last + 1)..(last + m)) = m
    BY <2>1, NextNumbers
  <2> QED  BY <1>6, <2>2
<1>8. \A c \in new : c \notin Ids(library) /\ c \in 1..(last + m)
  BY <1>1, <1>6
<1>9. Cardinality(Ids(library) \cup new) = n + m
  <2>1. Ids(library) \cap new = {} /\ Cardinality({}) = 0
    BY <1>8, FS_EmptySet
  <2>2. Cardinality(Ids(library) \cup new)
            = Cardinality(Ids(library)) + Cardinality(new) - Cardinality(Ids(library) \cap new)
    BY <1>1, <1>7, FS_Union
  <2>3. Cardinality(Ids(library)) = n
    BY DEF n
  <2> HIDE DEF new
  <2>4. Cardinality(Ids(library) \cup new) = n + m - 0
    BY <1>7, <2>1, <2>2, <2>3
  <2>5. n \in Nat /\ m \in Nat
    BY <1>1
  <2> QED  BY <2>4, <2>5
<1>10. /\ DOMAIN category = Ids(library) \cup new
       /\ \A c \in Ids(library) : category[c] = library.category[c]
       /\ \A c \in new : category[c] = [name |-> d.categories[At(c)].name,
                                        ord |-> n + UpTo(fresh, At(c))]
  BY <1>8
<1> HIDE DEF category, new
<1>11. \A c \in new : category[c] \in CategoryRow /\ category[c].ord \in (n + 1)..(n + m)
  <2> TAKE c \in new
  <2>1. UpTo(fresh, At(c)) \in 1..m /\ d.categories[At(c)].name \in Names
    BY <1>3, <1>4, <1>5
  <2>2. n + UpTo(fresh, At(c)) \in (n + 1)..(n + m) /\ n + UpTo(fresh, At(c)) \in Nat
    BY <1>1, <2>1
  <2> QED  BY <1>10, <2>1, <2>2 DEF CategoryRow
<1>12. {category[c].ord : c \in DOMAIN category} = 1..(n + m)
  <2>1. ASSUME NEW c \in DOMAIN category PROVE category[c].ord \in 1..(n + m)
    <3>1. CASE c \in Ids(library)
      <4>1. category[c].ord \in 1..n
        BY <1>1, <1>10, <3>1
      <4> QED  BY <1>1, <4>1
    <3>2. CASE c \in new
      BY <1>1, <1>11, <3>2
    <3> QED  BY <1>10, <3>1, <3>2
  <2>2. ASSUME NEW k \in 1..(n + m)
        PROVE  \E c \in DOMAIN category : category[c].ord = k
    <3>1. CASE k <= n
      <4>1. k \in 1..n
        BY <1>1, <3>1
      <4>2. PICK c \in Ids(library) : library.category[c].ord = k
        BY <1>1, <4>1
      <4> QED  BY <1>10, <4>2
    <3>2. CASE ~(k <= n)
      <4>1. k - n \in 1..m
        BY <1>1, <3>2
      <4>2. PICK i \in fresh : UpTo(fresh, i) = k - n
        BY <1>3, <4>1
      <4>3. last + UpTo(fresh, i) \in new
        BY DEF new
      <4>4. At(last + UpTo(fresh, i)) \in fresh
            /\ last + UpTo(fresh, i) = last + UpTo(fresh, At(last + UpTo(fresh, i)))
        BY <1>4, <4>3
      <4>5. UpTo(fresh, At(last + UpTo(fresh, i))) = k - n
        BY <1>1, <1>3, <4>2, <4>4
      <4>6. category[last + UpTo(fresh, i)].ord = n + (k - n)
        BY <1>10, <4>3, <4>5
      <4>7. n + (k - n) = k
        BY <1>1
      <4> QED  BY <1>10, <4>3, <4>6, <4>7
    <3> QED  BY <3>1, <3>2
  <2> QED  BY <2>1, <2>2
<1>13. l.category = category /\ Ids(l) = Ids(library) \cup new
  BY <1>2, <1>10 DEF Ids
<1>14. Ids(l) \subseteq 1..(last + m)
  <2>1. \A c \in Ids(library) : c \in 1..(last + m)
    BY <1>1
  <2> QED  BY <1>8, <1>13, <2>1
<1>15. \A c \in Ids(l) : l.category[c] \in CategoryRow
  BY <1>1, <1>10, <1>11, <1>13
<1>16. {l.category[c].ord : c \in Ids(l)} = 1..Cardinality(Ids(l))
  BY <1>9, <1>10, <1>12, <1>13
<1> HIDE DEF l
<1> QED  BY <1>2, <1>13, <1>14, <1>15, <1>16 DEF l, m, last, fresh

(* A name of the archive has a category here afterwards.                   *)
LEMMA MappedToRows ==
  ASSUME LibrarySound, NEW d \in Documents, NEW id \in DOMAIN Mapping(library, lastId, d)
  PROVE  Mapping(library, lastId, d)[id]
            \in 1..(lastId.category + Cardinality(FreshCategories(library, d)))
<1> DEFINE fresh == FreshCategories(library, d)
           last == lastId.category
           m == Cardinality(fresh)
           Known(name) == {c \in Ids(library) : library.category[c].name = name}
           Newest(S) == CHOOSE c \in S : \A e \in S : e <= c
           First(name) == CHOOSE i \in fresh : d.categories[i].name = name
           Target(name) == IF Known(name) # {} THEN Newest(Known(name))
                           ELSE last + UpTo(fresh, First(name))
           NameOf(k) == d.categories[CHOOSE i \in DOMAIN d.categories :
                                         d.categories[i].id = k].name
<1>1. /\ Mapping(library, lastId, d)[id] = Target(NameOf(id))
      /\ \E i \in DOMAIN d.categories : d.categories[i].id = id
  BY DEF Mapping
<1>2. \E i \in DOMAIN d.categories : d.categories[i].name = NameOf(id)
  BY <1>1
<1> DEFINE name == NameOf(id)
<1> HIDE DEF NameOf
<1>3. /\ last \in Nat /\ m \in Nat /\ Ids(library) \subseteq 1..last
      /\ IsFiniteSet(Ids(library))
  <2>1. RowsSound
    BY DEF LibrarySound
  <2>2. Ids(library) \subseteq 1..last /\ lastId \in [manga : Nat, category : Nat]
    BY <2>1 DEF RowsSound
  <2> QED  BY <2>1, <2>2, IdsFinite, FreshFinite
<1>4. CASE Known(name) # {}
  <2>1. Known(name) \in SUBSET Int /\ IsFiniteSet(Known(name))
    BY <1>3, FS_Subset
  <2>2. \E c \in Known(name) : \A e \in Known(name) : e <= c
    <3> HIDE DEF Known
    <3> QED  BY <1>4, <2>1, FiniteHasMax
  <2>3. Newest(Known(name)) \in Known(name)
    BY <2>2
  <2>4. Newest(Known(name)) \in 1..last
    BY <1>3, <2>3
  <2>5. Newest(Known(name)) \in 1..(last + m)
    <3> HIDE DEF Newest, m, last
    <3> QED  BY <1>3, <2>4
  <2> QED  BY <1>1, <1>4, <2>5
<1>5. CASE Known(name) = {}
  <2> DEFINE N == {i \in DOMAIN d.categories : d.categories[i].name = name}
  <2>1. DOMAIN d.categories = 1..Len(d.categories) /\ Len(d.categories) \in Nat
    BY LibraryAssumption
  <2>2. N \in SUBSET Int /\ IsFiniteSet(N) /\ N # {}
    <3>1. IsFiniteSet(1..Len(d.categories))
      <4>1. Len(d.categories) \in Int /\ 1 \in Int
        BY <2>1
      <4> QED  BY <4>1, FS_Interval
    <3>2. N \subseteq 1..Len(d.categories) /\ N # {}
      BY <1>2, <2>1
    <3> HIDE DEF N
    <3>3. IsFiniteSet(N)
      BY <3>1, <3>2, FS_Subset
    <3> QED  BY <2>1, <3>2, <3>3
  <2>3. PICK i \in N : \A j \in N : i <= j
    <3> HIDE DEF N
    <3> QED  BY <2>2, FiniteHasMin
  <2>4. \A j \in 1..(i - 1) : d.categories[j].name # name
    <3> SUFFICES ASSUME NEW j \in 1..(i - 1), d.categories[j].name = name PROVE FALSE
      OBVIOUS
    <3>1. i \in 1..Len(d.categories)
      BY <2>1
    <3>2. j \in 1..Len(d.categories) /\ j < i
      BY <2>1, <3>1
    <3>3. j \in N
      BY <2>1, <3>2
    <3> QED  BY <2>1, <2>3, <3>1, <3>2, <3>3
  <2>5. i \in fresh /\ d.categories[i].name = name
    BY <1>5, <2>3, <2>4 DEF FreshCategories
  <2>6. First(name) \in fresh
    BY <2>5
  <2>7. UpTo(fresh, First(name)) \in 1..m
    <3> HIDE DEF First
    <3> QED  BY <2>6, FreshFinite, NumbersInTurn
  <2>8. last + UpTo(fresh, First(name)) \in 1..(last + m)
    <3> HIDE DEF First, m, last, fresh
    <3> QED  BY <1>3, <2>7
  <2> QED  BY <1>1, <1>5, <2>8
<1> QED  BY <1>4, <1>5

LEMMA RestoreBegun ==
  ASSUME LibrarySound, NEW d \in Documents, RestoreBackup(d)
  PROVE  LibrarySound'
<1> DEFINE m == Cardinality(FreshCategories(library, d))
           l == CategoriesRestored(library, lastId, d)
<1>1. /\ account = TRUE /\ UNCHANGED <<account, meant>> /\ edited' = {} /\ library' = l
      /\ lastId' = [lastId EXCEPT !.category = lastId.category + m]
      /\ restore' = [doc |-> d, done |-> 0, idMap |-> <<>>,
                     mapping |-> Mapping(library, lastId, d),
                     phase |-> IF d.manga = <<>> THEN "global" ELSE "manga"]
  BY BeforeEdit DEF RestoreBackup
<1>2. /\ m \in Nat /\ lastId.manga \in Nat /\ lastId.category \in Nat
      /\ lastId.category + m \in Nat
  <2>1. m \in Nat /\ lastId.manga \in Nat /\ lastId.category \in Nat
    BY BeforeEdit, FreshFinite
  <2> HIDE DEF m
  <2> QED  BY <2>1
<1>3. /\ lastId'.category = lastId.category + m /\ lastId'.manga = lastId.manga
      /\ lastId' \in [manga : Nat, category : Nat]
  <2> DEFINE k == lastId.category + m
  <2>1. lastId' = [lastId EXCEPT !.category = k] /\ k \in Nat
    BY <1>1, <1>2
  <2> HIDE DEF k
  <2>2. /\ lastId'.category = k /\ lastId'.manga = lastId.manga
        /\ lastId' \in [manga : Nat, category : Nat]
    BY <2>1, BeforeEdit
  <2> QED  BY <2>2 DEF k
<1>4. /\ library' = [manga |-> library.manga, category |-> library'.category,
                     filed |-> library.filed, binding |-> library.binding]
      /\ Ids(library) \subseteq Ids(library') /\ Ids(library') \subseteq 1..lastId'.category
      /\ \A c \in Ids(library') : library'.category[c] \in CategoryRow
      /\ {library'.category[c].ord : c \in Ids(library')} = 1..Cardinality(Ids(library'))
  <2> HIDE DEF l, m
  <2> QED  BY <1>1, <1>3, ListRestored DEF l, m
<1> HIDE DEF l, m
<1>5. /\ library'.manga = library.manga /\ library'.filed = library.filed
      /\ library'.binding = library.binding /\ Shelved(library') = Shelved(library)
  BY <1>4 DEF Shelved
<1>6. Shelved(library)' = Shelved(library') /\ Ids(library)' = Ids(library')
  BY DEF Shelved, Ids
<1>7. RowsSound'
  <2>1. library' = [manga |-> library'.manga, category |-> library'.category,
                    filed |-> library'.filed, binding |-> library'.binding]
    BY <1>4, <1>5
  <2>2. library'.filed \subseteq Ids(library') \X Shelved(library')
    BY <1>4, <1>5, BeforeEdit
  <2>3. /\ library'.manga \in [Titles -> LibraryRow \cup {Absent}]
        /\ library'.binding \in [Titles -> Nat]
        /\ \A x, y \in Shelved(library') :
              library'.manga[x].id = library'.manga[y].id => x = y
        /\ \A x \in Shelved(library') : library'.manga[x].id <= lastId'.manga
    BY <1>3, <1>5, BeforeEdit
  <2>4. account' = TRUE /\ edited' \subseteq Titles
    BY <1>1
  <2> QED  BY <1>3, <1>4, <1>6, <2>1, <2>2, <2>3, <2>4 DEF RowsSound
<1>8. CategoriesInOrder'
  BY <1>4, <1>6 DEF CategoriesInOrder
<1>9. BindingsSound'
  <2>1. RowsStay(library, library', lastId)
    BY <1>5 DEF RowsStay
  <2>2. lastId.manga <= lastId'.manga
    BY <1>2, <1>3
  <2>3. DOMAIN meant' = Titles
    BY <1>1, BeforeEdit
  <2> QED  BY <1>1, <1>5, <1>7, <2>1, <2>2, <2>3, BindingsCarried
<1>10. RestoreSound'
  <2>1. DOMAIN d.manga = 1..Len(d.manga) /\ Len(d.manga) \in Nat
    BY LibraryAssumption
  <2>2. /\ restore'.doc = d /\ restore'.done = 0 /\ restore'.idMap = <<>>
        /\ restore'.mapping = Mapping(library, lastId, d)
        /\ restore'.phase = IF d.manga = <<>> THEN "global" ELSE "manga"
        /\ restore' = [doc |-> restore'.doc, done |-> restore'.done, idMap |-> restore'.idMap,
                       mapping |-> restore'.mapping, phase |-> restore'.phase]
    BY <1>1
  <2>3. \A c \in DOMAIN restore'.mapping : restore'.mapping[c] \in 1..lastId'.category
    BY <1>3, <2>2, MappedToRows DEF m
  <2>4. DOMAIN restore'.idMap = {}
    BY <2>2
  <2>5. WrittenEntries' = {}
    <3>1. WrittenEntries' = {i \in DOMAIN d.manga : restore'.phase = "manga" => i <= 0}
      BY <2>2 DEF WrittenEntries
    <3>2. CASE d.manga = <<>>
      BY <3>1, <3>2
    <3>3. CASE d.manga # <<>>
      <4>1. restore'.phase = "manga"
        BY <2>2, <3>3
      <4> QED  BY <2>1, <3>1, <4>1
    <3> QED  BY <3>2, <3>3
  <2>6. restore'.phase \in {"manga", "meta", "global", "settings"} /\ restore'.done \in Nat
    BY <2>2
  <2> QED  BY <2>2, <2>3, <2>4, <2>5, <2>6 DEF RestoreSound
<1> QED  BY <1>7, <1>8, <1>9, <1>10 DEF LibrarySound

-----------------------------------------------------------------------------
\* A batch of titles.

LEMMA DocumentShape ==
  ASSUME NEW d \in Documents
  PROVE  /\ Len(d.manga) \in Nat /\ DOMAIN d.manga = 1..Len(d.manga)
         /\ \A i \in DOMAIN d.manga :
               /\ i \in Int /\ d.manga[i] \in Entries
               /\ d.manga[i].title \in Titles /\ d.manga[i].inLibrary \in BOOLEAN
         /\ \A i, j \in DOMAIN d.manga : d.manga[i].title = d.manga[j].title => i = j
         /\ \A i, j \in DOMAIN d.manga : d.manga[i].id = d.manga[j].id => i = j
<1>1. d.manga \in Seq(Entries)
      /\ \A i, j \in DOMAIN d.manga :
            d.manga[i].title = d.manga[j].title \/ d.manga[i].id = d.manga[j].id => i = j
  BY LibraryAssumption
<1>2. Len(d.manga) \in Nat /\ DOMAIN d.manga = 1..Len(d.manga)
      /\ \A i \in DOMAIN d.manga : i \in Int /\ d.manga[i] \in Entries
  BY <1>1
<1>3. \A e \in Entries : e.title \in Titles /\ e.inLibrary \in BOOLEAN
  BY DEF Entries
<1> QED  BY <1>1, <1>2, <1>3

(* Restored rows keep the numbers of those that were there, and the rest   *)
(* are numbered on from the table's last.                                  *)
LEMMA RowsMerged ==
  ASSUME LibrarySound, NEW d \in Documents, NEW batch \in SUBSET DOMAIN d.manga
  PROVE  LET fresh == Inserted(library, d, batch)
             rows == MangaRestored(library, lastId, d, batch)
             top == lastId.manga + Cardinality(fresh)
         IN  /\ Cardinality(fresh) \in Nat
             /\ rows \in [Titles -> LibraryRow \cup {Absent}]
             /\ \A i \in batch :
                   /\ rows[d.manga[i].title] \in LibraryRow
                   /\ d.manga[i].inLibrary => rows[d.manga[i].title].inLibrary
             /\ \A x \in Shelved(library) :
                   /\ rows[x] \in LibraryRow /\ rows[x].id = library.manga[x].id
                   /\ library.manga[x].inLibrary => rows[x].inLibrary
             /\ \A x \in Titles \ Shelved(library) :
                   rows[x] # Absent => rows[x].id \in (lastId.manga + 1)..top
             /\ \A x, y \in Titles \ Shelved(library) :
                   rows[x] # Absent /\ rows[y] # Absent /\ rows[x].id = rows[y].id => x = y
<1> DEFINE fresh == Inserted(library, d, batch)
           rows == MangaRestored(library, lastId, d, batch)
           last == lastId.manga
           m == Cardinality(fresh)
           title(i) == d.manga[i].title
<1>1. /\ IsFiniteSet(fresh) /\ m \in Nat /\ last \in Nat
      /\ \A i \in fresh : i \in Int /\ i \in batch
  <2>1. IsFiniteSet(1..Len(d.manga))
    <3>1. 1 \in Int /\ Len(d.manga) \in Int
      BY DocumentShape
    <3> QED  BY <3>1, FS_Interval
  <2>2. fresh \subseteq 1..Len(d.manga) /\ \A i \in fresh : i \in Int /\ i \in batch
    BY DocumentShape DEF Inserted
  <2>3. last \in Nat
    BY BeforeEdit
  <2> QED  BY <2>1, <2>2, <2>3, FS_Subset, FS_CardinalityType
<1>2. /\ \A i \in fresh : UpTo(fresh, i) \in 1..m
      /\ \A i, j \in fresh : UpTo(fresh, i) = UpTo(fresh, j) => i = j
  BY <1>1, NumbersInTurn
<1>3. \A x \in Shelved(library) : x \in Titles /\ library.manga[x] \in LibraryRow
                                  /\ library.manga[x] # Absent
  BY BeforeEdit DEF Shelved
<1>4. \A x \in Titles \ Shelved(library) : library.manga[x] = Absent
  BY DEF Shelved
<1>5. \A i \in batch : i \in DOMAIN d.manga /\ title(i) \in Titles
                       /\ d.manga[i].inLibrary \in BOOLEAN
  BY DocumentShape
<1>6. \A i \in batch : EntryOf(d, batch, title(i)) = {i}
  BY DocumentShape DEF EntryOf
<1>7. ASSUME NEW x \in Titles, \A i \in batch : title(i) # x
      PROVE  rows[x] = library.manga[x]
  <2>1. EntryOf(d, batch, x) = {}
    BY <1>7 DEF EntryOf
  <2> QED  BY <2>1 DEF MangaRestored
<1>8. ASSUME NEW i \in batch
      PROVE  rows[title(i)] =
                IF library.manga[title(i)] = Absent
                THEN [id |-> last + UpTo(fresh, i), inLibrary |-> d.manga[i].inLibrary]
                ELSE RowMerged(library.manga[title(i)], d.manga[i])
  <2>1. EntryOf(d, batch, title(i)) = {i} /\ title(i) \in Titles
    BY <1>5, <1>6
  <2>2. (CHOOSE j \in {i} : TRUE) = i
    OBVIOUS
  <2> QED  BY <2>1, <2>2 DEF MangaRestored
<1>9. ASSUME NEW i \in batch, title(i) \in Shelved(library)
      PROVE  /\ rows[title(i)] \in LibraryRow
             /\ rows[title(i)].id = library.manga[title(i)].id
             /\ library.manga[title(i)].inLibrary => rows[title(i)].inLibrary
             /\ d.manga[i].inLibrary => rows[title(i)].inLibrary
  <2> DEFINE row == library.manga[title(i)]
             b == row.inLibrary \/ d.manga[i].inLibrary
  <2>1. rows[title(i)] = [row EXCEPT !.inLibrary = b]
    <3>1. rows[title(i)] = RowMerged(row, d.manga[i])
      BY <1>3, <1>8, <1>9
    <3> QED  BY <3>1 DEF RowMerged
  <2>2. row \in LibraryRow
    BY <1>3, <1>9
  <2>3. b \in BOOLEAN
    OBVIOUS
  <2>4. row.inLibrary => b
    OBVIOUS
  <2>5. d.manga[i].inLibrary => b
    OBVIOUS
  <2> HIDE DEF row, b, rows
  <2>6. rows[title(i)] \in LibraryRow /\ rows[title(i)].id = row.id
        /\ rows[title(i)].inLibrary = b
    BY <2>1, <2>2, <2>3 DEF LibraryRow
  <2>7. row.inLibrary => rows[title(i)].inLibrary
    BY <2>4, <2>6
  <2>8. d.manga[i].inLibrary => rows[title(i)].inLibrary
    BY <2>5, <2>6
  <2> QED  BY <2>6, <2>7, <2>8 DEF row
<1>10. ASSUME NEW i \in batch, title(i) \notin Shelved(library)
       PROVE  /\ i \in fresh
              /\ rows[title(i)] \in LibraryRow
              /\ rows[title(i)].id = last + UpTo(fresh, i)
              /\ d.manga[i].inLibrary => rows[title(i)].inLibrary
  <2>1. library.manga[title(i)] = Absent
    BY <1>4, <1>5, <1>10
  <2>2. i \in fresh
    BY <2>1 DEF Inserted
  <2> DEFINE k == last + UpTo(fresh, i)
  <2>3. k \in Nat \ {0}
    <3>1. UpTo(fresh, i) \in 1..m
      BY <1>2, <2>2
    <3> HIDE DEF fresh, m
    <3> QED  BY <1>1, <3>1
  <2> HIDE DEF k
  <2>4. rows[title(i)] = [id |-> k, inLibrary |-> d.manga[i].inLibrary]
    BY <1>8, <2>1 DEF k
  <2>5. [id |-> k, inLibrary |-> d.manga[i].inLibrary] \in LibraryRow
    BY <1>5, <2>3 DEF LibraryRow
  <2> QED  BY <2>2, <2>4, <2>5 DEF k
<1> HIDE DEF rows, m, last, fresh, title
<1>11. \A i \in batch : rows[title(i)] \in LibraryRow
                        /\ (d.manga[i].inLibrary => rows[title(i)].inLibrary)
  BY <1>9, <1>10
<1>12. \A x \in Shelved(library) :
           /\ rows[x] \in LibraryRow /\ rows[x].id = library.manga[x].id
           /\ library.manga[x].inLibrary => rows[x].inLibrary
  <2> TAKE x \in Shelved(library)
  <2>1. CASE \E i \in batch : title(i) = x
    BY <1>9, <2>1
  <2>2. CASE ~ \E i \in batch : title(i) = x
    <3>1. rows[x] = library.manga[x]
      BY <1>3, <1>7, <2>2
    <3> QED  BY <1>3, <3>1
  <2> QED  BY <2>1, <2>2
<1>13. ASSUME NEW x \in Titles \ Shelved(library), rows[x] # Absent
       PROVE  \E i \in fresh : title(i) = x /\ rows[x].id = last + UpTo(fresh, i)
  <2>1. CASE \E i \in batch : title(i) = x
    BY <1>10, <2>1
  <2>2. CASE ~ \E i \in batch : title(i) = x
    BY <1>4, <1>7, <1>13, <2>2
  <2> QED  BY <2>1, <2>2
<1>14. \A x \in Titles \ Shelved(library) :
           rows[x] # Absent => rows[x].id \in (last + 1)..(last + m)
  <2> SUFFICES ASSUME NEW x \in Titles \ Shelved(library), rows[x] # Absent
               PROVE  rows[x].id \in (last + 1)..(last + m)
    OBVIOUS
  <2>1. PICK i \in fresh : rows[x].id = last + UpTo(fresh, i)
    BY <1>13
  <2>2. UpTo(fresh, i) \in 1..m
    BY <1>2
  <2> QED  BY <1>1, <2>1, <2>2
<1>15. \A x, y \in Titles \ Shelved(library) :
           rows[x] # Absent /\ rows[y] # Absent /\ rows[x].id = rows[y].id => x = y
  <2> SUFFICES ASSUME NEW x \in Titles \ Shelved(library), NEW y \in Titles \ Shelved(library),
                      rows[x] # Absent, rows[y] # Absent, rows[x].id = rows[y].id
               PROVE  x = y
    OBVIOUS
  <2>1. PICK i \in fresh : title(i) = x /\ rows[x].id = last + UpTo(fresh, i)
    BY <1>13
  <2>2. PICK j \in fresh : title(j) = y /\ rows[y].id = last + UpTo(fresh, j)
    BY <1>13
  <2>3. UpTo(fresh, i) \in 1..m /\ UpTo(fresh, j) \in 1..m
    BY <1>2
  <2>4. last + UpTo(fresh, i) = last + UpTo(fresh, j)
    BY <2>1, <2>2
  <2>5. UpTo(fresh, i) \in Int /\ UpTo(fresh, j) \in Int /\ last \in Int
    BY <1>1, <2>3
  <2>6. UpTo(fresh, i) = UpTo(fresh, j)
    <3>1. \A a, b, c \in Int : c + a = c + b => a = b
      OBVIOUS
    <3> QED  BY <2>4, <2>5, <3>1
  <2> QED  BY <1>2, <2>1, <2>2, <2>6
<1>16. rows \in [Titles -> LibraryRow \cup {Absent}]
  <2>1. \A x \in Titles : rows[x] \in LibraryRow \cup {Absent}
    <3> TAKE x \in Titles
    <3>1. CASE \E i \in batch : title(i) = x
      BY <1>11, <3>1
    <3>2. CASE ~ \E i \in batch : title(i) = x
      <4>1. library.manga[x] \in LibraryRow \cup {Absent}
        BY BeforeEdit
      <4>2. rows[x] = library.manga[x]
        BY <1>7, <3>2
      <4> QED  BY <4>1, <4>2
    <3> QED  BY <3>1, <3>2
  <2>2. rows = [x \in Titles |-> rows[x]]
    BY DEF rows, MangaRestored
  <2> QED  BY <2>1, <2>2
<1> QED  BY <1>1, <1>11, <1>12, <1>14, <1>15, <1>16 DEF rows, m, last, fresh, title

LEMMA MembershipsMade ==
  ASSUME NEW d, NEW batch, NEW mapping, NEW S, NEW T,
         \A i \in batch : d.manga[i].title \in T,
         \A f \in Memberships(d, batch, mapping) : f[1] \in S
  PROVE  /\ Memberships(d, batch, mapping) \subseteq S \X T
         /\ \A i \in batch : \A c \in d.manga[i].categories \cap DOMAIN mapping :
               <<mapping[c], d.manga[i].title>> \in Memberships(d, batch, mapping)
<1>1. ASSUME NEW f \in Memberships(d, batch, mapping)
      PROVE  f \in S \X T
  <2>1. PICK i \in batch : f \in {<<mapping[c], d.manga[i].title>> :
                                      c \in d.manga[i].categories \cap DOMAIN mapping}
    BY DEF Memberships
  <2>2. PICK c \in d.manga[i].categories \cap DOMAIN mapping :
            f = <<mapping[c], d.manga[i].title>>
    BY <2>1
  <2>3. mapping[c] \in S
    <3>1. f[1] \in S
      OBVIOUS
    <3> QED  BY <2>2, <3>1
  <2> QED  BY <2>2, <2>3
<1>2. ASSUME NEW i \in batch, NEW c \in d.manga[i].categories \cap DOMAIN mapping
      PROVE  <<mapping[c], d.manga[i].title>> \in Memberships(d, batch, mapping)
  BY DEF Memberships
<1> QED  BY <1>1, <1>2

(* The transaction of a batch, committed.                                  *)
Commits ==
    LET d     == restore.doc
        batch == BatchOf(d, restore.done)
        filed == Memberships(d, batch, restore.mapping)
        rows  == MangaRestored(library, lastId, d, batch)
        ids   == IdMap([library EXCEPT !.manga = rows], d, batch)
    IN  /\ Inserted(library, d, batch) = {} \/ account
        /\ \A f \in filed : f[1] \in Ids(library)
        /\ library' = [library EXCEPT !.manga = rows, !.filed = @ \cup filed]
        /\ lastId' = [lastId EXCEPT !.manga =
                         @ + Cardinality(Inserted(library, d, batch))]
        /\ restore' = [After("manga", "meta", restore.done + Batch) EXCEPT
                         !.idMap = [id \in DOMAIN restore.idMap \cup DOMAIN ids |->
                             IF id \in DOMAIN ids THEN ids[id] ELSE restore.idMap[id]]]
        /\ UNCHANGED <<account, meant, edited>>

LEMMA BatchCommitted ==
  ASSUME LibrarySound, Running, restore.phase = "manga", Commits
  PROVE  LibrarySound' /\ (ReadingSound => ReadingSound')
<1> DEFINE d == restore.doc
           done == restore.done
           mapping == restore.mapping
           batch == BatchOf(d, done)
           fresh == Inserted(library, d, batch)
           made == Memberships(d, batch, mapping)
           rows == MangaRestored(library, lastId, d, batch)
           ids == IdMap([library EXCEPT !.manga = rows], d, batch)
           top == lastId.manga + Cardinality(fresh)
           filed == library.filed \cup made
<1>1. /\ d \in Documents /\ done \in Nat
      /\ restore = [doc |-> d, done |-> done, idMap |-> restore.idMap,
                    mapping |-> mapping, phase |-> restore.phase]
      /\ \A c \in DOMAIN mapping : mapping[c] \in 1..lastId.category
      /\ DOMAIN restore.idMap \subseteq {d.manga[i].id : i \in DOMAIN d.manga}
      /\ \A i \in DOMAIN d.manga :
            d.manga[i].id \in DOMAIN restore.idMap =>
                GivenIn(library, lastId, restore.idMap[d.manga[i].id], d.manga[i].title)
      /\ \A i \in DOMAIN d.manga : i <= done =>
            /\ d.manga[i].id \in DOMAIN restore.idMap
            /\ d.manga[i].title \notin edited => Brought(d, i, mapping)
  BY DEF LibrarySound, RestoreSound, WrittenEntries, Given
<1>2. batch \in SUBSET DOMAIN d.manga
  BY DEF BatchOf
<1>3. /\ Len(d.manga) \in Nat /\ DOMAIN d.manga = 1..Len(d.manga)
      /\ \A i \in DOMAIN d.manga : i \in Int /\ d.manga[i].title \in Titles
      /\ \A i, j \in DOMAIN d.manga : d.manga[i].title = d.manga[j].title => i = j
      /\ \A i, j \in DOMAIN d.manga : d.manga[i].id = d.manga[j].id => i = j
  BY <1>1, DocumentShape
<1>4. /\ Cardinality(fresh) \in Nat
      /\ rows \in [Titles -> LibraryRow \cup {Absent}]
      /\ \A i \in batch :
            /\ rows[d.manga[i].title] \in LibraryRow
            /\ d.manga[i].inLibrary => rows[d.manga[i].title].inLibrary
      /\ \A x \in Shelved(library) :
            /\ rows[x] \in LibraryRow /\ rows[x].id = library.manga[x].id
            /\ library.manga[x].inLibrary => rows[x].inLibrary
      /\ \A x \in Titles \ Shelved(library) :
            rows[x] # Absent => rows[x].id \in (lastId.manga + 1)..top
      /\ \A x, y \in Titles \ Shelved(library) :
            rows[x] # Absent /\ rows[y] # Absent /\ rows[x].id = rows[y].id => x = y
  <2> HIDE DEF d, batch
  <2> QED  BY <1>1, <1>2, RowsMerged
<1>5. /\ lastId.manga \in Nat /\ lastId.category \in Nat /\ top \in Nat
      /\ lastId.manga <= top
  <2>1. lastId.manga \in Nat /\ lastId.category \in Nat
    BY BeforeEdit
  <2> QED  BY <1>4, <2>1
<1>6. /\ lastId'.manga = top /\ lastId'.category = lastId.category
      /\ lastId' \in [manga : Nat, category : Nat]
  <2>1. lastId' = [lastId EXCEPT !.manga = top]
    BY DEF Commits
  <2> HIDE DEF top
  <2> QED  BY <1>5, <2>1, BeforeEdit
<1>7. library' = [manga |-> rows, category |-> library.category,
                  filed |-> filed, binding |-> library.binding]
  <2>1. library' = [library EXCEPT !.manga = rows, !.filed = filed]
    BY DEF Commits
  <2> HIDE DEF rows, filed
  <2> QED  BY <2>1, BeforeEdit
<1>8. /\ \A f \in made : f[1] \in Ids(library)
      /\ fresh = {} \/ account = TRUE
      /\ UNCHANGED <<account, meant, edited>>
  BY BeforeEdit DEF Commits
<1>9. /\ library'.manga = rows /\ library'.filed = filed
      /\ library'.binding = library.binding /\ library'.category = library.category
      /\ Ids(library') = Ids(library)
  BY <1>7 DEF Ids
<1>10. /\ \A x \in Shelved(library) : x \in Titles /\ library.manga[x] \in LibraryRow
       /\ \A x \in Shelved(library) : library.manga[x].id \in 1..lastId.manga
  <2>1. lastId.manga \in Nat
    BY <1>5
  <2> QED  BY <2>1, BeforeEdit, RowNumbers
<1>11. \A x \in LibraryRow : x # Absent
  BY LibraryAssumption
<1>12. restore' = [doc |-> d, done |-> restore'.done, idMap |-> restore'.idMap,
                   mapping |-> mapping, phase |-> restore'.phase]
       /\ restore'.done = (IF done + Batch >= Len(d.manga) THEN 0 ELSE done + Batch)
       /\ restore'.phase = (IF done + Batch >= Len(d.manga) THEN "meta" ELSE "manga")
       /\ restore'.idMap = [id \in DOMAIN restore.idMap \cup DOMAIN ids |->
                                IF id \in DOMAIN ids THEN ids[id] ELSE restore.idMap[id]]
  <2> DEFINE idMap == [id \in DOMAIN restore.idMap \cup DOMAIN ids |->
                          IF id \in DOMAIN ids THEN ids[id] ELSE restore.idMap[id]]
             next == After("manga", "meta", done + Batch)
  <2>1. restore' = [next EXCEPT !.idMap = idMap]
    BY DEF Commits
  <2>2. next = [doc |-> d, done |-> next.done, idMap |-> restore.idMap,
                mapping |-> mapping, phase |-> next.phase]
        /\ next.done = (IF done + Batch >= Len(d.manga) THEN 0 ELSE done + Batch)
        /\ next.phase = (IF done + Batch >= Len(d.manga) THEN "meta" ELSE "manga")
    <3> DEFINE p == IF done + Batch >= Len(d.manga) THEN "meta" ELSE "manga"
               k == IF done + Batch >= Len(d.manga) THEN 0 ELSE done + Batch
    <3>1. next = [restore EXCEPT !.phase = p, !.done = k]
      BY DEF After
    <3> HIDE DEF p, k, next
    <3>2. next = [doc |-> d, done |-> k, idMap |-> restore.idMap,
                  mapping |-> mapping, phase |-> p]
      BY <1>1, <3>1
    <3> QED  BY <3>2 DEF p, k
  <2> HIDE DEF idMap, next
  <2>3. /\ restore' = [doc |-> d, done |-> next.done, idMap |-> idMap,
                       mapping |-> mapping, phase |-> next.phase]
    BY <2>1, <2>2
  <2>4. /\ restore'.done = next.done /\ restore'.idMap = idMap /\ restore'.phase = next.phase
    BY <2>3
  <2> QED  BY <2>2, <2>3, <2>4 DEF idMap
<1>13. Shelved(library)' = Shelved(library') /\ Ids(library)' = Ids(library')
  BY DEF Shelved, Ids
<1>14. \A x \in Titles : x \in Shelved(library') <=> rows[x] # Absent
  BY <1>9 DEF Shelved
<1>15. \A i \in batch : d.manga[i].title \in Shelved(library') /\ d.manga[i].title \in Titles
  <2>1. \A i \in batch : d.manga[i].title \in Titles
    BY <1>2, <1>3
  <2> QED  BY <1>4, <1>11, <1>14, <2>1
<1>16. \A x \in Shelved(library) : x \in Shelved(library')
  BY <1>4, <1>10, <1>11, <1>14
<1>17. \A x \in Shelved(library') : x \in Titles /\ rows[x] \in LibraryRow
  BY <1>4, <1>14 DEF Shelved
<1>18. /\ made \subseteq Ids(library) \X Shelved(library')
       /\ \A i \in batch : \A c \in d.manga[i].categories \cap DOMAIN mapping :
             <<mapping[c], d.manga[i].title>> \in made
  <2> HIDE DEF batch, mapping, d
  <2> QED  BY <1>8, <1>15, MembershipsMade
<1> HIDE DEF d, done, mapping, batch, fresh, made, rows, ids, top, filed
<1>19. RowsStay(library, library', lastId)
  <2>1. ASSUME NEW z \in Shelved(library'), z \notin Shelved(library)
        PROVE  library'.manga[z].id > lastId.manga
    <3>1. rows[z].id \in (lastId.manga + 1)..top
      BY <1>4, <1>14, <1>17, <2>1
    <3> QED  BY <1>5, <1>9, <3>1
  <2>2. \A z \in Shelved(library) : library'.manga[z].id = library.manga[z].id
    BY <1>4, <1>9
  <2> QED  BY <1>16, <2>1, <2>2 DEF RowsStay
<1>20. RowsSound'
  <2>1. library' = [manga |-> library'.manga, category |-> library'.category,
                    filed |-> library'.filed, binding |-> library'.binding]
    BY <1>7, <1>9
  <2>2. library'.filed \subseteq Ids(library') \X Shelved(library')
    <3>1. library.filed \subseteq Ids(library) \X Shelved(library')
      BY <1>16, BeforeEdit
    <3> QED  BY <1>9, <1>18, <3>1 DEF filed
  <2>3. /\ library'.manga \in [Titles -> LibraryRow \cup {Absent}]
        /\ library'.binding \in [Titles -> Nat]
    BY <1>4, <1>9, BeforeEdit
  <2>4. /\ Ids(library') \subseteq 1..lastId'.category
        /\ \A c \in Ids(library') : library'.category[c] \in CategoryRow
    BY <1>6, <1>9 DEF LibrarySound, RowsSound
  <2>5. \A x \in Shelved(library') :
            IF x \in Shelved(library) THEN rows[x].id \in 1..lastId.manga
            ELSE rows[x].id \in (lastId.manga + 1)..top
    BY <1>4, <1>10, <1>14, <1>17
  <2>6. \A x \in Shelved(library') : library'.manga[x].id <= lastId'.manga
    BY <1>5, <1>6, <1>9, <2>5
  <2>7. ASSUME NEW x \in Shelved(library'), NEW y \in Shelved(library'),
               rows[x].id = rows[y].id
        PROVE  x = y
    <3>1. CASE x \in Shelved(library) /\ y \in Shelved(library)
      BY <1>4, <2>7, <3>1, BeforeEdit
    <3>2. CASE x \notin Shelved(library) /\ y \notin Shelved(library)
      BY <1>4, <1>14, <1>17, <2>7, <3>2
    <3>3. CASE (x \in Shelved(library)) # (y \in Shelved(library))
      BY <1>5, <2>5, <2>7, <3>3
    <3> QED  BY <3>1, <3>2, <3>3
  <2>8. account' \in BOOLEAN /\ edited' \subseteq Titles
    BY <1>8 DEF LibrarySound, RowsSound
  <2>9. ASSUME account = FALSE PROVE library' = library
    <3>1. library = NoRows /\ Ids(library) = {} /\ Shelved(library) = {} /\ library.filed = {}
      BY <2>9, NoRowsSound DEF LibrarySound, RowsSound
    <3>2. fresh = {}
      BY <1>8, <2>9
    <3>3. \A x \in Titles : rows[x] = Absent
      <4> TAKE x \in Titles
      <4>1. rows[x] # Absent => rows[x].id \in (lastId.manga + 1)..top
        BY <1>4, <3>1
      <4>2. top = lastId.manga
        BY <1>5, <3>2, FS_EmptySet DEF top
      <4> QED  BY <1>5, <4>1, <4>2
    <3>4. \A x \in Titles : library.manga[x] = Absent
      BY <3>1 DEF Shelved
    <3>5. rows = library.manga
      BY <1>4, <3>3, <3>4, BeforeEdit
    <3>6. filed = library.filed
      BY <1>18, <3>1 DEF filed
    <3> QED  BY <1>7, <3>5, <3>6, BeforeEdit
  <2>10. account' = FALSE => library' = NoRows
    BY <1>8, <2>9 DEF LibrarySound, RowsSound
  <2>11. \A x, y \in Shelved(library') :
             library'.manga[x].id = library'.manga[y].id => x = y
    BY <1>9, <2>7
  <2> QED  BY <1>6, <1>13, <2>1, <2>2, <2>3, <2>4, <2>6, <2>8, <2>10, <2>11 DEF RowsSound
<1>21. CategoriesInOrder'
  BY <1>9 DEF LibrarySound, CategoriesInOrder, Ids
<1>22. BindingsSound'
  <2>1. lastId.manga <= lastId'.manga /\ DOMAIN meant' = Titles
    BY <1>5, <1>6, <1>8, BeforeEdit
  <2> QED  BY <1>8, <1>9, <1>19, <1>20, <2>1, BindingsCarried
<1>23. \A i \in batch :
           /\ d.manga[i].id \in DOMAIN ids
           /\ ids[d.manga[i].id] = rows[d.manga[i].title].id
  <2> TAKE i \in batch
  <2>1. \A j \in batch : d.manga[j].id = d.manga[i].id => j = i
    BY <1>2, <1>3
  <2>2. (CHOOSE j \in batch : d.manga[j].id = d.manga[i].id) = i
    BY <2>1
  <2>3. [library EXCEPT !.manga = rows].manga = rows
    BY BeforeEdit
  <2> QED  BY <2>2, <2>3 DEF ids, IdMap
<1>24. DOMAIN ids = {d.manga[i].id : i \in batch}
  BY DEF ids, IdMap
<1>25. \A i \in DOMAIN d.manga : d.manga[i].id \in DOMAIN ids => i \in batch
  BY <1>2, <1>3, <1>24
<1>26. NumbersOf(library) /\ NumbersOf(library')
  BY <1>20, BothNumbered DEF LibrarySound
<1>27. ASSUME NEW i \in DOMAIN d.manga, d.manga[i].id \in DOMAIN restore'.idMap
       PROVE  GivenIn(library', lastId', restore'.idMap[d.manga[i].id], d.manga[i].title)
  <2> DEFINE x == d.manga[i].title
             id == d.manga[i].id
  <2>1. CASE id \in DOMAIN ids
    <3>1. i \in batch /\ restore'.idMap[id] = rows[x].id
      BY <1>12, <1>23, <1>25, <2>1
    <3>2. x \in Shelved(library') /\ library'.manga[x].id = rows[x].id
      BY <1>9, <1>15, <3>1
    <3>3. x \in TitleOf(library', rows[x].id)
      BY <3>2 DEF TitleOf
    <3>4. rows[x].id \in 1..lastId'.manga
      <4>1. rows[x] \in LibraryRow
        BY <1>4, <3>1
      <4>2. rows[x].id \in Nat \ {0}
        BY <4>1 DEF LibraryRow
      <4>3. rows[x].id <= lastId'.manga
        BY <1>13, <1>20, <3>2 DEF RowsSound
      <4> QED  BY <1>5, <1>6, <4>2, <4>3
    <3> QED  BY <3>1, <3>3, <3>4 DEF GivenIn, NamesRow
  <2>2. CASE id \notin DOMAIN ids
    <3>1. id \in DOMAIN restore.idMap /\ restore'.idMap[id] = restore.idMap[id]
      BY <1>12, <1>27, <2>2
    <3>2. GivenIn(library, lastId, restore.idMap[id], x)
      BY <1>1, <3>1
    <3>3. lastId.manga <= lastId'.manga /\ lastId'.manga \in Nat
      BY <1>5, <1>6
    <3> QED  BY <1>5, <1>19, <1>26, <3>1, <3>2, <3>3, GivenStays
  <2> QED  BY <2>1, <2>2
<1>28. DOMAIN restore'.idMap \subseteq {d.manga[i].id : i \in DOMAIN d.manga}
  BY <1>1, <1>2, <1>12, <1>24
<1>29. \A i \in WrittenEntries' : i \in DOMAIN d.manga /\ (i <= done \/ i \in batch)
  <2> TAKE i \in WrittenEntries'
  <2>1. restore'.doc = d
    BY <1>12
  <2>2. i \in DOMAIN d.manga /\ (restore'.phase = "manga" => i <= restore'.done)
    BY <2>1 DEF WrittenEntries
  <2>3. i \in Int /\ i <= Len(d.manga) /\ Batch \in Nat /\ done \in Nat
    BY <1>1, <1>3, <2>2, LibraryAssumption
  <2>4. i <= done + Batch
    BY <1>3, <1>12, <2>2, <2>3
  <2>5. i <= done \/ done < i
    BY <2>3
  <2> QED  BY <2>2, <2>4, <2>5 DEF batch, BatchOf
<1>30. ASSUME NEW i \in WrittenEntries'
       PROVE  d.manga[i].id \in DOMAIN restore'.idMap
  BY <1>1, <1>12, <1>23, <1>29
<1>31. ASSUME NEW i \in WrittenEntries', d.manga[i].title \notin edited'
       PROVE  Brought(d, i, mapping)'
  <2> DEFINE x == d.manga[i].title
  <2>1. /\ x \in Shelved(library')
        /\ d.manga[i].inLibrary => rows[x].inLibrary
        /\ \A c \in d.manga[i].categories \cap DOMAIN mapping :
              mapping[c] \in Ids(library) => <<mapping[c], x>> \in filed
    <3>1. CASE i \in batch
      BY <1>4, <1>15, <1>18, <3>1 DEF filed
    <3>2. CASE i \notin batch
      <4>1. Brought(d, i, mapping)
        BY <1>1, <1>8, <1>29, <1>31, <3>2
      <4>2. x \in Shelved(library) /\ (d.manga[i].inLibrary => library.manga[x].inLibrary)
            /\ \A c \in d.manga[i].categories \cap DOMAIN mapping :
                  mapping[c] \in Ids(library) => <<mapping[c], x>> \in library.filed
        BY <4>1 DEF Brought
      <4>3. d.manga[i].inLibrary => rows[x].inLibrary
        BY <1>4, <4>2
      <4> QED  BY <1>16, <4>2, <4>3 DEF filed
    <3> QED  BY <3>1, <3>2
  <2>2. restore'.doc = d /\ restore'.mapping = mapping
    BY <1>12
  <2>3. /\ x \in Shelved(library')
        /\ d.manga[i].inLibrary => library'.manga[x].inLibrary
        /\ \A c \in d.manga[i].categories \cap DOMAIN mapping :
              mapping[c] \in Ids(library') => <<mapping[c], x>> \in library'.filed
    BY <1>9, <2>1
  <2>4. Brought(d, i, mapping)' =
           (/\ restore'.doc.manga[i].title \in Shelved(library')
            /\ restore'.doc.manga[i].inLibrary
                  => library'.manga[restore'.doc.manga[i].title].inLibrary
            /\ \A c \in restore'.doc.manga[i].categories \cap DOMAIN restore'.mapping :
                  restore'.mapping[c] \in Ids(library')
                     => <<restore'.mapping[c], restore'.doc.manga[i].title>> \in library'.filed)
    BY DEF Brought, Shelved, Ids, d, mapping
  <2> QED  BY <2>2, <2>3, <2>4
<1>32. RestoreSound'
  <2>1. restore'.doc = d /\ restore'.mapping = mapping
        /\ restore' = [doc |-> restore'.doc, done |-> restore'.done, idMap |-> restore'.idMap,
                       mapping |-> restore'.mapping, phase |-> restore'.phase]
    BY <1>12
  <2>2. restore'.phase \in {"manga", "meta", "global", "settings"}
    BY <1>12
  <2>3. restore'.done \in Nat
    <3>1. done + Batch \in Nat
      BY <1>1, LibraryAssumption
    <3> QED  BY <1>12, <3>1
  <2>4. \A c \in DOMAIN mapping : mapping[c] \in 1..lastId'.category
    BY <1>1, <1>6
  <2>5. \A i \in WrittenEntries' : d.manga[i].title \notin edited' =>
            Brought(restore.doc, i, restore.mapping)'
    BY <1>31 DEF d, mapping
  <2>6. \A i \in DOMAIN restore'.doc.manga :
            restore'.doc.manga[i].id \in DOMAIN restore'.idMap =>
                GivenIn(library', lastId', restore'.idMap[restore'.doc.manga[i].id],
                        restore'.doc.manga[i].title)
    BY <1>27, <2>1
  <2>7. DOMAIN restore'.idMap \subseteq
            {restore'.doc.manga[i].id : i \in DOMAIN restore'.doc.manga}
    BY <1>28, <2>1
  <2>8. \A i \in WrittenEntries' :
            /\ restore'.doc.manga[i].id \in DOMAIN restore'.idMap
            /\ restore'.doc.manga[i].title \notin edited' =>
                  Brought(restore.doc, i, restore.mapping)'
    BY <1>30, <2>1, <2>5
  <2>9. restore'.doc \in Documents
        /\ \A c \in DOMAIN restore'.mapping : restore'.mapping[c] \in 1..lastId'.category
    BY <1>1, <2>1, <2>4
  <2> HIDE DEF d, mapping
  <2> QED  BY <2>1, <2>2, <2>3, <2>6, <2>7, <2>8, <2>9 DEF RestoreSound, Given
<1>33. ASSUME ReadingSound, edited' # Titles, NEW i \in WrittenEntries'
       PROVE  d.manga[i].title \in TitleOf(library', restore'.idMap[d.manga[i].id])
  <2> DEFINE x == d.manga[i].title
             id == d.manga[i].id
  <2>1. CASE i \in batch
    <3>1. restore'.idMap[id] = rows[x].id
      BY <1>12, <1>23, <2>1
    <3>2. x \in Shelved(library') /\ library'.manga[x].id = rows[x].id
      BY <1>9, <1>15, <2>1
    <3> QED  BY <3>1, <3>2 DEF TitleOf
  <2>2. CASE i \notin batch
    <3>1. i \in DOMAIN d.manga /\ i <= done
      BY <1>29, <2>2
    <3>2. i \in WrittenEntries
      BY <3>1 DEF WrittenEntries, d, done
    <3>3. x \in TitleOf(library, restore.idMap[id])
      BY <1>8, <1>33, <3>2 DEF ReadingSound, d
    <3>4. id \in DOMAIN restore.idMap /\ id \notin DOMAIN ids
      BY <1>1, <1>25, <2>2, <3>1
    <3>5. restore'.idMap[id] = restore.idMap[id]
      BY <1>12, <3>4
    <3>6. /\ x \in Shelved(library) /\ library.manga[x].id = restore.idMap[id]
          /\ rows[x] \in LibraryRow /\ rows[x].id = library.manga[x].id
      BY <1>4, <3>3 DEF TitleOf
    <3>7. x \in Titles /\ rows[x] # Absent
      BY <1>10, <1>11, <3>6
    <3>8. x \in Shelved(library') /\ library'.manga[x].id = rows[x].id
      BY <1>9, <3>7 DEF Shelved
    <3> QED  BY <3>5, <3>6, <3>8 DEF TitleOf
  <2> QED  BY <2>1, <2>2
<1>34. BoundEntries' = {}
  <2>1. /\ restore'.doc = d /\ restore'.phase \in {"manga", "meta"}
        /\ restore'.phase = "meta" => restore'.done = 0
    BY <1>12
  <2>2. \A i \in DOMAIN d.manga : ~(i <= 0)
    BY <1>3
  <2> QED  BY <2>1, <2>2 DEF BoundEntries
<1>35. ReadingSound => ReadingSound'
  <2>1. restore'.doc = d
    BY <1>12
  <2> QED  BY <1>33, <1>34, <2>1 DEF ReadingSound
<1> QED  BY <1>20, <1>21, <1>22, <1>32, <1>35 DEF LibrarySound

-----------------------------------------------------------------------------
\* The bindings and what follows them.

(* Once the titles are written, the later phases leave them alone.         *)
LEMMA RestoreGoesOn ==
  ASSUME LibrarySound, Running, restore.phase # "manga",
         NEW phase \in {"meta", "global", "settings"}, NEW done \in Nat,
         restore' = [doc |-> restore.doc, done |-> done, idMap |-> restore.idMap,
                     mapping |-> restore.mapping, phase |-> phase],
         UNCHANGED <<lastId, edited>>, library'.manga = library.manga,
         library'.category = library.category, library'.filed = library.filed
  PROVE  RestoreSound'
<1>1. /\ restore'.doc = restore.doc /\ restore'.done = done /\ restore'.phase = phase
      /\ restore'.idMap = restore.idMap /\ restore'.mapping = restore.mapping
  OBVIOUS
<1>2. RestoreSound
  BY DEF LibrarySound
<1>3. WrittenEntries = DOMAIN restore.doc.manga /\ WrittenEntries' = DOMAIN restore.doc.manga
  <2>1. restore'.phase # "manga"
    BY <1>1
  <2> QED  BY <1>1, <2>1 DEF WrittenEntries
<1>4. /\ Shelved(library') = Shelved(library) /\ Ids(library') = Ids(library)
      /\ \A id : TitleOf(library', id) = TitleOf(library, id)
  BY DEF Shelved, Ids, TitleOf
<1>5. \A id, y : GivenIn(library', lastId', id, y) <=> GivenIn(library, lastId, id, y)
  BY <1>4 DEF GivenIn, NamesRow
<1>6. ASSUME NEW i PROVE Brought(restore.doc, i, restore.mapping)'
                            <=> Brought(restore.doc, i, restore.mapping)
  <2>1. Shelved(library)' = Shelved(library) /\ Ids(library)' = Ids(library)
    BY DEF Shelved, Ids
  <2> QED  BY <1>1, <2>1 DEF Brought
<1>7. /\ restore.doc \in Documents
      /\ \A c \in DOMAIN restore.mapping : restore.mapping[c] \in 1..lastId.category
      /\ \A j \in DOMAIN restore.doc.manga :
            restore.doc.manga[j].id \in DOMAIN restore.idMap =>
                GivenIn(library, lastId, restore.idMap[restore.doc.manga[j].id],
                        restore.doc.manga[j].title)
      /\ DOMAIN restore.idMap \subseteq {restore.doc.manga[j].id : j \in DOMAIN restore.doc.manga}
      /\ \A j \in DOMAIN restore.doc.manga :
            /\ restore.doc.manga[j].id \in DOMAIN restore.idMap
            /\ restore.doc.manga[j].title \notin edited =>
                  Brought(restore.doc, j, restore.mapping)
  BY <1>2, <1>3 DEF RestoreSound, Given
<1>8. \A j \in DOMAIN restore'.doc.manga :
          restore'.doc.manga[j].id \in DOMAIN restore'.idMap =>
              GivenIn(library', lastId', restore'.idMap[restore'.doc.manga[j].id],
                      restore'.doc.manga[j].title)
  BY <1>1, <1>5, <1>7
<1>9. \A j \in WrittenEntries' :
          /\ restore'.doc.manga[j].id \in DOMAIN restore'.idMap
          /\ restore'.doc.manga[j].title \notin edited' =>
                Brought(restore.doc, j, restore.mapping)'
  BY <1>1, <1>3, <1>6, <1>7
<1>10. /\ restore' = [doc |-> restore'.doc, done |-> restore'.done, idMap |-> restore'.idMap,
                      mapping |-> restore'.mapping, phase |-> restore'.phase]
       /\ restore'.doc \in Documents /\ restore'.done \in Nat
       /\ restore'.phase \in {"manga", "meta", "global", "settings"}
       /\ \A c \in DOMAIN restore'.mapping : restore'.mapping[c] \in 1..lastId'.category
       /\ DOMAIN restore'.idMap \subseteq
             {restore'.doc.manga[j].id : j \in DOMAIN restore'.doc.manga}
  BY <1>1, <1>7
<1> QED  BY <1>8, <1>9, <1>10 DEF RestoreSound, Given

(* The transaction of a batch of bindings, committed.                      *)
Binds ==
    LET d       == restore.doc
        batch   == BatchOf(d, restore.done)
        written == {i \in batch : d.manga[i].binding \in DOMAIN restore.idMap}
        Rows(i) == TitleOf(library, restore.idMap[d.manga[i].id])
        target(i) == d.manga[CHOOSE j \in DOMAIN d.manga :
                                d.manga[j].id = d.manga[i].binding].title
    IN  /\ library' = [library EXCEPT !.binding =
                          BindingsRestored(library, d, batch, restore.idMap)]
        /\ meant' = [x \in Titles |->
                       IF \E i \in written : x \in Rows(i)
                       THEN target(CHOOSE i \in written : x \in Rows(i)) ELSE meant[x]]
        /\ restore' = After("meta", "global", restore.done + Batch)
        /\ UNCHANGED <<account, lastId, edited>>

LEMMA BindingsCommitted ==
  ASSUME LibrarySound, Running, restore.phase = "meta", Binds
  PROVE  LibrarySound' /\ (ReadingSound => ReadingSound')
<1> DEFINE d == restore.doc
           idMap == restore.idMap
           batch == BatchOf(d, restore.done)
           written == {i \in batch : d.manga[i].binding \in DOMAIN idMap}
           Rows(i) == TitleOf(library, idMap[d.manga[i].id])
           target(i) == d.manga[CHOOSE j \in DOMAIN d.manga :
                                   d.manga[j].id = d.manga[i].binding].title
           bound == BindingsRestored(library, d, batch, idMap)
           Rebound(x) == {i \in batch : /\ x \in TitleOf(library, idMap[d.manga[i].id])
                                        /\ d.manga[i].binding \in DOMAIN idMap}
           To(x) == IF Rebound(x) = {} THEN library.binding[x]
                    ELSE idMap[d.manga[CHOOSE i \in Rebound(x) : TRUE].binding]
<1>1. /\ d \in Documents /\ restore.done \in Nat
      /\ restore = [doc |-> d, done |-> restore.done, idMap |-> idMap,
                    mapping |-> restore.mapping, phase |-> restore.phase]
      /\ DOMAIN idMap \subseteq {d.manga[i].id : i \in DOMAIN d.manga}
      /\ \A i \in DOMAIN d.manga :
            /\ d.manga[i].id \in DOMAIN idMap
            /\ GivenIn(library, lastId, idMap[d.manga[i].id], d.manga[i].title)
  <2>1. WrittenEntries = DOMAIN d.manga
    BY DEF WrittenEntries
  <2> QED  BY <2>1 DEF LibrarySound, RestoreSound, Given
<1>2. /\ batch \in SUBSET DOMAIN d.manga
      /\ \A i \in DOMAIN d.manga : d.manga[i].title \in Titles
      /\ \A i, j \in DOMAIN d.manga : d.manga[i].title = d.manga[j].title => i = j
      /\ \A i, j \in DOMAIN d.manga : d.manga[i].id = d.manga[j].id => i = j
  BY <1>1, DocumentShape DEF BatchOf
<1>3. /\ library' = [manga |-> library.manga, category |-> library.category,
                     filed |-> library.filed, binding |-> bound]
      /\ meant' = [x \in Titles |-> IF \E i \in written : x \in Rows(i)
                                    THEN target(CHOOSE i \in written : x \in Rows(i))
                                    ELSE meant[x]]
      /\ restore' = After("meta", "global", restore.done + Batch)
      /\ UNCHANGED <<account, lastId, edited>>
  <2>1. library' = [library EXCEPT !.binding = bound]
    BY DEF Binds
  <2>2. library' = [manga |-> library.manga, category |-> library.category,
                    filed |-> library.filed, binding |-> bound]
    <3> HIDE DEF bound
    <3> QED  BY <2>1, BeforeEdit
  <2> QED  BY <2>2 DEF Binds
<1>4. bound = [x \in Titles |-> To(x)]
  <2> HIDE DEF d, batch, idMap
  <2> QED  BY DEF BindingsRestored
<1>5. bound = [x \in Titles |-> bound[x]] /\ \A x \in Titles : bound[x] = To(x)
  <2> HIDE DEF bound, To
  <2> QED  BY <1>4
<1>6. lastId.manga \in Nat /\ \A z \in Shelved(library) : library.manga[z].id \in Nat
  <2>1. lastId.manga \in Nat
    BY BeforeEdit
  <2> QED  BY <2>1, BeforeEdit, RowNumbers
<1>7. ASSUME NEW x \in Titles, NEW i \in Rebound(x) PROVE x = d.manga[i].title
  <2>1. x \in TitleOf(library, idMap[d.manga[i].id]) /\ i \in DOMAIN d.manga
    BY <1>2
  <2>2. x \in Shelved(library) /\ library.manga[x].id = idMap[d.manga[i].id]
    BY <2>1 DEF TitleOf
  <2>3. NamesRow(library, idMap[d.manga[i].id], d.manga[i].title)
    BY <1>1, <2>1 DEF GivenIn
  <2>4. CASE d.manga[i].title \in TitleOf(library, idMap[d.manga[i].id])
    BY <2>2, <2>4, BeforeEdit DEF TitleOf
  <2>5. CASE \A z \in Shelved(library) : idMap[d.manga[i].id] < library.manga[z].id
    BY <1>6, <2>2, <2>5
  <2> QED  BY <2>3, <2>4, <2>5 DEF NamesRow
<1>20. ASSUME NEW x \in Titles, NEW i \in Rebound(x)
       PROVE  bound[x] = idMap[d.manga[i].binding] /\ meant'[x] = target(i)
  <2>2. \A j \in Rebound(x) : j = i
    <3> TAKE j \in Rebound(x)
    <3>1. x = d.manga[i].title /\ x = d.manga[j].title
      BY <1>7
    <3>2. i \in DOMAIN d.manga /\ j \in DOMAIN d.manga
      BY <1>2
    <3> QED  BY <1>2, <3>1, <3>2
  <2>3. (CHOOSE j \in Rebound(x) : TRUE) = i
    BY <2>2
  <2>4. (CHOOSE j \in written : x \in Rows(j)) = i /\ \E j \in written : x \in Rows(j)
    BY <2>2
  <2>5. bound[x] = idMap[d.manga[i].binding] /\ meant'[x] = target(i)
    <3>1. bound[x] = To(x) /\ To(x) = idMap[d.manga[i].binding]
      <4> HIDE DEF bound, Rebound
      <4> QED  BY <1>5, <1>20, <2>3
    <3> HIDE DEF bound, target, written, Rows
    <3> QED  BY <1>3, <2>4, <3>1
  <2> QED  BY <2>5
<1>8. ASSUME NEW x \in Titles, Rebound(x) # {}
      PROVE  GivenIn(library, lastId, bound[x], meant'[x])
  <2>1. PICK i \in Rebound(x) : TRUE
    BY <1>8
  <2>5. bound[x] = idMap[d.manga[i].binding] /\ meant'[x] = target(i)
    BY <1>20
  <2>6. d.manga[i].binding \in DOMAIN idMap
    OBVIOUS
  <2>7. PICK j \in DOMAIN d.manga : d.manga[j].id = d.manga[i].binding
    BY <1>1, <2>6
  <2>8. (CHOOSE k \in DOMAIN d.manga : d.manga[k].id = d.manga[i].binding) = j
    BY <1>2, <2>7
  <2>9. target(i) = d.manga[j].title
    BY <2>8
  <2> QED  BY <1>1, <2>5, <2>7, <2>9
<1>9. ASSUME NEW x \in Titles, Rebound(x) = {}
      PROVE  bound[x] = library.binding[x] /\ meant'[x] = meant[x]
  <2>1. ~ \E i \in written : x \in Rows(i)
    BY <1>9
  <2>2. bound[x] = To(x) /\ To(x) = library.binding[x]
    <3> HIDE DEF bound, Rebound
    <3> QED  BY <1>5, <1>9
  <2> HIDE DEF bound, Rebound, To, written, Rows
  <2> QED  BY <1>3, <2>1, <2>2
<1>10. DOMAIN meant' = Titles
  BY <1>3
<1>11. \A x \in Titles : bound[x] \in Nat
  <2> TAKE x \in Titles
  <2>1. CASE Rebound(x) = {}
    BY <1>9, <2>1, BeforeEdit
  <2>2. CASE Rebound(x) # {}
    <3>1. bound[x] \in 1..lastId.manga
      BY <1>8, <2>2 DEF GivenIn
    <3> QED  BY <1>6, <3>1
  <2> QED  BY <2>1, <2>2
<1>12. Shelved(library) = {} => bound = library.binding
  <2> SUFFICES ASSUME Shelved(library) = {} PROVE bound = library.binding
    OBVIOUS
  <2>1. \A x \in Titles : Rebound(x) = {}
    BY DEF TitleOf
  <2>2. \A x \in Titles : bound[x] = library.binding[x]
    BY <1>9, <2>1
  <2>3. library.binding = [x \in Titles |-> library.binding[x]]
    BY BeforeEdit
  <2> HIDE DEF bound, To
  <2> QED  BY <1>5, <2>2, <2>3
<1>21. \A x \in Titles, i \in batch :
           /\ x \in TitleOf(library, idMap[d.manga[i].id])
           /\ d.manga[i].binding \in DOMAIN idMap
           => bound[x] = idMap[d.manga[i].binding]
  BY <1>20
<1>22. \A x \in Titles : (\A i \in batch : d.manga[i].title # x) => bound[x] = library.binding[x]
  BY <1>7, <1>9
<1> HIDE DEF bound, To, Rebound, d, idMap, batch, written, Rows, target
<1>13. /\ library'.manga = library.manga /\ library'.category = library.category
       /\ library'.filed = library.filed /\ library'.binding = bound
  BY <1>3
<1>14. /\ Shelved(library') = Shelved(library) /\ Ids(library') = Ids(library)
       /\ Shelved(library)' = Shelved(library') /\ Ids(library)' = Ids(library')
       /\ \A id : TitleOf(library', id) = TitleOf(library, id)
  BY <1>13 DEF Shelved, Ids, TitleOf
<1>15. RowsSound'
  <2>1. library' = [manga |-> library'.manga, category |-> library'.category,
                    filed |-> library'.filed, binding |-> library'.binding]
    BY <1>3, <1>13
  <2>2. library'.binding \in [Titles -> Nat]
    BY <1>5, <1>11, <1>13
  <2>3. /\ Ids(library') \subseteq 1..lastId'.category
        /\ \A c \in Ids(library') : library'.category[c] \in CategoryRow
        /\ account' \in BOOLEAN /\ edited' \subseteq Titles
    BY <1>3, <1>13, <1>14 DEF LibrarySound, RowsSound
  <2>4. account' = FALSE => library' = NoRows
    <3>1. account = FALSE => library = NoRows /\ Shelved(library) = {}
      BY NoRowsSound DEF LibrarySound, RowsSound
    <3>2. Shelved(library) = {} => library' = library
      BY <1>3, <1>12, BeforeEdit
    <3>3. account' = account
      BY <1>3
    <3> QED  BY <3>1, <3>2, <3>3
  <2>5. /\ library'.manga \in [Titles -> LibraryRow \cup {Absent}]
        /\ library'.filed \subseteq Ids(library') \X Shelved(library')
        /\ \A x, y \in Shelved(library') :
              library'.manga[x].id = library'.manga[y].id => x = y
        /\ \A x \in Shelved(library') : library'.manga[x].id <= lastId'.manga
        /\ lastId' \in [manga : Nat, category : Nat]
    BY <1>3, <1>13, <1>14, BeforeEdit
  <2> QED  BY <1>14, <2>1, <2>2, <2>3, <2>4, <2>5 DEF RowsSound
<1>16. CategoriesInOrder'
  BY <1>13 DEF LibrarySound, CategoriesInOrder, Ids
<1>17. BindingsSound'
  <2>1. \A id, y : GivenIn(library', lastId', id, y) <=> GivenIn(library, lastId, id, y)
    BY <1>3, <1>13, <1>14 DEF GivenIn, NamesRow
  <2>2. \A x \in Titles : library'.binding[x] # 0 =>
            \/ library'.binding[x] = library.binding[x] /\ meant'[x] = meant[x]
            \/ GivenIn(library', lastId', library'.binding[x], meant'[x])
    BY <1>8, <1>9, <1>13, <2>1
  <2>3. RowsStay(library, library', lastId)
    BY <1>13, <1>14 DEF RowsStay
  <2>4. lastId.manga <= lastId'.manga
    BY <1>3, <1>6
  <2> QED  BY <1>10, <1>15, <2>2, <2>3, <2>4, BindingsCarried
<1>18. RestoreSound'
  <2> DEFINE p == IF restore.done + Batch >= Len(d.manga) THEN "global" ELSE "meta"
             k == IF restore.done + Batch >= Len(d.manga) THEN 0 ELSE restore.done + Batch
  <2>1. restore' = [restore EXCEPT !.phase = p, !.done = k]
    BY <1>3 DEF After, d
  <2>2. p \in {"meta", "global", "settings"}
    OBVIOUS
  <2>3. k \in Nat
    <3>1. restore.done + Batch \in Nat
      BY <1>1, LibraryAssumption
    <3> QED  BY <3>1
  <2> HIDE DEF p, k
  <2>4. restore' = [doc |-> restore.doc, done |-> k, idMap |-> restore.idMap,
                    mapping |-> restore.mapping, phase |-> p]
    BY <1>1, <2>1 DEF d, idMap
  <2>5. UNCHANGED <<lastId, edited>> /\ restore.phase # "manga"
    BY <1>3
  <2> QED  BY <1>13, <2>2, <2>3, <2>4, <2>5, RestoreGoesOn
<1>19. ReadingSound => ReadingSound'
  <2> SUFFICES ASSUME ReadingSound, edited' # Titles
               PROVE  /\ \A i \in WrittenEntries' :
                            restore'.doc.manga[i].title \in
                                TitleOf(library', restore'.idMap[restore'.doc.manga[i].id])
                      /\ \A i \in BoundEntries' :
                            restore'.doc.manga[i].title \notin edited' =>
                                ReadFromTheSame(restore.doc, i)'
    BY DEF ReadingSound
  <2> DEFINE p == IF restore.done + Batch >= Len(d.manga) THEN "global" ELSE "meta"
             k == IF restore.done + Batch >= Len(d.manga) THEN 0 ELSE restore.done + Batch
  <2>1. restore' = [restore EXCEPT !.phase = p, !.done = k]
    BY <1>3 DEF After, d
  <2>2. /\ p \in {"meta", "global"} /\ edited' = edited
        /\ p = "meta" => k = restore.done + Batch
        /\ p = "global" => restore.done + Batch >= Len(d.manga)
    BY <1>3
  <2> HIDE DEF p, k
  <2>3. /\ restore'.doc = d /\ restore'.idMap = idMap
        /\ restore'.phase = p /\ restore'.done = k
    BY <1>1, <2>1 DEF d, idMap
  <2>4. \A i \in DOMAIN d.manga : d.manga[i].title \in TitleOf(library, idMap[d.manga[i].id])
    <3>1. WrittenEntries = DOMAIN d.manga
      BY DEF WrittenEntries, d
    <3> QED  BY <2>2, <3>1 DEF ReadingSound, d, idMap
  <2>5. ASSUME NEW i \in BoundEntries', d.manga[i].title \notin edited',
               NEW j \in DOMAIN d.manga, d.manga[j].id = d.manga[i].binding
        PROVE  d.manga[j].title \in TitleOf(library', bound[d.manga[i].title])
    <3> DEFINE x == d.manga[i].title
    <3>1. i \in DOMAIN d.manga /\ (p = "meta" => i <= k)
      BY <2>3 DEF BoundEntries
    <3>2. x \in Titles
      BY <1>2, <3>1
    <3>3. CASE i \in batch
      <4>1. d.manga[i].binding \in DOMAIN idMap
        BY <1>1, <2>5
      <4>2. bound[x] = idMap[d.manga[j].id]
        BY <1>21, <2>4, <2>5, <3>1, <3>2, <3>3, <4>1
      <4> QED  BY <1>14, <2>4, <4>2
    <3>4. CASE i \notin batch
      <4>1. \A m \in batch : d.manga[m].title # x
        BY <1>2, <3>1, <3>4
      <4>2. bound[x] = library.binding[x]
        BY <1>22, <3>2, <4>1
      <4>3. i <= restore.done
        <5>1. Len(d.manga) \in Nat /\ DOMAIN d.manga = 1..Len(d.manga)
          BY <1>1, DocumentShape
        <5>2. i \in 1..Len(d.manga) /\ ~(restore.done < i /\ i <= restore.done + Batch)
          BY <3>1, <3>4, <5>1 DEF batch, BatchOf
        <5>3. restore.done \in Nat /\ Batch \in Nat
          BY <1>1, LibraryAssumption
        <5>4. i <= restore.done + Batch
          BY <2>2, <3>1, <5>1, <5>2, <5>3
        <5> QED  BY <5>2, <5>3, <5>4
      <4>4. i \in BoundEntries
        BY <3>1, <4>3 DEF BoundEntries, d
      <4>5. ReadFromTheSame(d, i)
        BY <2>2, <2>5, <4>4 DEF ReadingSound, d
      <4>6. d.manga[j].title \in TitleOf(library, library.binding[x])
        BY <2>5, <4>5 DEF ReadFromTheSame
      <4> QED  BY <1>14, <4>2, <4>6
    <3> QED  BY <3>3, <3>4
  <2>6. ASSUME NEW i \in BoundEntries', d.manga[i].title \notin edited'
        PROVE  ReadFromTheSame(restore.doc, i)'
    <3>1. \A id : TitleOf(library, id)' = TitleOf(library', id)
      BY DEF TitleOf, Shelved
    <3> QED  BY <1>13, <2>3, <2>5, <2>6 DEF ReadFromTheSame, TitleOf, Shelved
  <2>7. ASSUME NEW i \in WrittenEntries'
        PROVE  d.manga[i].title \in TitleOf(library', idMap[d.manga[i].id])
    <3>1. i \in DOMAIN d.manga
      BY <2>3 DEF WrittenEntries
    <3> QED  BY <1>14, <2>4, <3>1
  <2> QED  BY <2>3, <2>6, <2>7
<1> QED  BY <1>15, <1>16, <1>17, <1>18, <1>19 DEF LibrarySound

-----------------------------------------------------------------------------
\* Every step.

LEMMA RestoreSteps ==
  ASSUME LibrarySound, RestoreStep
  PROVE  LibrarySound'
<1>1. ASSUME RestoreFails PROVE LibrarySound'
  BY <1>1, RestoreOver DEF RestoreFails
<1>2. CASE RestoreManga
  <2>1. Running /\ restore.phase = "manga"
    BY <1>2 DEF RestoreManga
  <2>2. Commits \/ RestoreFails
    BY <1>2 DEF RestoreManga, Commits
  <2> QED  BY <1>1, <2>1, <2>2, BatchCommitted
<1>3. CASE RestoreMeta
  <2>1. Running /\ restore.phase = "meta"
    BY <1>3 DEF RestoreMeta
  <2>2. Binds \/ RestoreFails
    BY <1>3 DEF RestoreMeta, Binds
  <2> QED  BY <1>1, <2>1, <2>2, BindingsCommitted
<1>4. CASE RestoreAccount
  <2>1. Running
    BY <1>4 DEF RestoreAccount
  <2>2. CASE /\ restore.phase = "global"
             /\ restore' = [restore EXCEPT !.phase = "settings"]
             /\ UNCHANGED <<account, library, lastId, meant, edited>>
    <3>1. /\ restore = [doc |-> restore.doc, done |-> restore.done, idMap |-> restore.idMap,
                        mapping |-> restore.mapping, phase |-> restore.phase]
          /\ restore.done \in Nat
      BY <2>1 DEF LibrarySound, RestoreSound
    <3>2. restore' = [doc |-> restore.doc, done |-> restore.done, idMap |-> restore.idMap,
                      mapping |-> restore.mapping, phase |-> "settings"]
      BY <2>2, <3>1
    <3>3. RestoreSound'
      BY <2>1, <2>2, <3>1, <3>2, RestoreGoesOn
    <3>4. account' \in BOOLEAN /\ (account' = FALSE => account = FALSE)
          /\ edited' \in SUBSET Titles
      BY <2>2 DEF LibrarySound, RowsSound
    <3> QED  BY <2>2, <3>3, <3>4, TablesUntouched DEF LibrarySound
  <2>3. CASE /\ restore' = JobEnded("SUCCESS") /\ edited' = {}
             /\ UNCHANGED <<account, library, lastId, meant>>
    BY <2>3, RestoreOver
  <2> QED  BY <1>1, <1>4, <2>2, <2>3 DEF RestoreAccount
<1> QED  BY <1>2, <1>3, <1>4 DEF RestoreStep

LEMMA AccountAdded ==
  ASSUME LibrarySound, AddAccount
  PROVE  LibrarySound'
<1>1. /\ account' = TRUE /\ UNCHANGED <<library, lastId, restore, meant, edited>>
  BY DEF AddAccount
<1>2. edited' \in SUBSET Titles
  BY <1>1 DEF LibrarySound, RowsSound
<1>3. RowsSound' /\ CategoriesInOrder' /\ BindingsSound'
  BY <1>1, <1>2, TablesUntouched
<1>4. RestoreSound'
  <2>1. lastId.manga <= lastId'.manga /\ lastId.category <= lastId'.category
    BY <1>1, BeforeEdit
  <2>2. RowsStay(library, library', lastId)
    BY <1>1 DEF RowsStay
  <2> QED  BY <1>1, <1>3, <2>1, <2>2, RestoreCarried
<1> QED  BY <1>3, <1>4 DEF LibrarySound

LEMMA LibrarySoundInit ==
  LibraryInit => LibrarySound
<1> SUFFICES ASSUME LibraryInit PROVE LibrarySound
  OBVIOUS
<1>1. /\ account = TRUE /\ library = NoRows /\ restore = Absent /\ edited = {}
      /\ lastId = [manga |-> 0, category |-> 0] /\ DOMAIN meant = Titles
  BY DEF LibraryInit
<1>2. RowsSound
  <2>1. lastId \in [manga : Nat, category : Nat]
    BY <1>1
  <2> QED  BY <1>1, <2>1, NoRowsSound DEF RowsSound
<1>3. CategoriesInOrder
  <2>1. 1..0 = {} /\ Cardinality({}) = 0
    BY FS_EmptySet
  <2>2. Ids(library) = {}
    BY <1>1, NoRowsSound
  <2>3. {library.category[c].ord : c \in Ids(library)} = {}
    BY <2>2
  <2>4. 1..Cardinality(Ids(library)) = {}
    BY <2>1, <2>2
  <2> QED  BY <2>3, <2>4 DEF CategoriesInOrder
<1>4. BindingsSound
  BY <1>1, NoRowsSound DEF BindingsSound
<1>5. RestoreSound
  BY <1>1 DEF RestoreSound, Running
<1> QED  BY <1>2, <1>3, <1>4, <1>5 DEF LibrarySound

LEMMA LibrarySoundNext ==
  LibrarySound /\ [LibraryNext]_libraryVars => LibrarySound'
<1> SUFFICES ASSUME LibrarySound, [LibraryNext]_libraryVars PROVE LibrarySound'
  OBVIOUS
<1>1. ASSUME NEW name \in Typed, CreateCategory(name) PROVE LibrarySound'
  BY <1>1, NewCategory
<1>2. ASSUME NEW c \in Ids(library), DeleteCategory(c) PROVE LibrarySound'
  BY <1>2, DroppedCategory
<1>3. ASSUME NEW c \in Ids(library), NEW name \in Typed, UpdateCategory(c, name)
      PROVE  LibrarySound'
  BY <1>3, RenamedCategory
<1>4. ASSUME NEW c \in Ids(library), NEW position \in 1..(Cardinality(Ids(library)) + 1),
             UpdateCategoryOrder(c, position)
      PROVE  LibrarySound'
  BY <1>4, MovedCategory
<1>5. ASSUME NEW xs \in SUBSET Titles, NEW clear, NEW remove, NEW add,
             UpdateMangasCategories(xs, clear, remove, add)
      PROVE  LibrarySound'
  BY <1>5, FiledTitles
<1>6. ASSUME NEW xs \in SUBSET Titles, NEW inLibrary \in BOOLEAN, UpdateMangas(xs, inLibrary)
      PROVE  LibrarySound'
  BY <1>6, MembershipSet
<1>7. ASSUME NEW x \in Titles, NEW inLibrary \in BOOLEAN, Discover(x, inLibrary)
      PROVE  LibrarySound'
  BY <1>7, TitleFound
<1>8. ASSUME NEW x \in Titles, NEW y \in Titles, SetBinding(x, y) PROVE LibrarySound'
  BY <1>8, TitleBound
<1>9. ASSUME NEW x \in Titles, DeleteBinding(x) PROVE LibrarySound'
  BY <1>9, TitleUnbound
<1>10. CASE RemoveAccount \/ AddAccount
  BY <1>10, AccountRemoved, AccountAdded
<1>11. ASSUME NEW d \in Documents, RestoreBackup(d) PROVE LibrarySound'
  BY <1>11, RestoreBegun
<1>12. CASE RestoreStep
  BY <1>12, RestoreSteps
<1>13. CASE Restart
  BY <1>13, RestoreOver DEF Restart
<1>14. CASE UNCHANGED libraryVars
  <2>1. UNCHANGED <<account, library, lastId, restore, meant, edited>>
    BY <1>14 DEF libraryVars
  <2>2. account' \in BOOLEAN /\ (account' = FALSE => account = FALSE)
        /\ edited' \in SUBSET Titles
    BY <2>1 DEF LibrarySound, RowsSound
  <2>3. RowsSound' /\ CategoriesInOrder' /\ BindingsSound'
    BY <2>1, <2>2, TablesUntouched
  <2>4. RestoreSound'
    <3>1. lastId.manga <= lastId'.manga /\ lastId.category <= lastId'.category
      BY <2>1, BeforeEdit
    <3>2. RowsStay(library, library', lastId)
      BY <2>1 DEF RowsStay
    <3> QED  BY <2>1, <2>3, <3>1, <3>2, RestoreCarried
  <2> QED  BY <2>3, <2>4 DEF LibrarySound
<1>15. \A x \in Titles : {x} \in SUBSET Titles
  OBVIOUS
<1>16. \A xs \in {{x} : x \in Titles} \cup {Titles} : xs \in SUBSET Titles
  OBVIOUS
<1>17. CASE \E xs \in {{x} : x \in Titles} \cup {Titles} :
                \/ \E add \in {{}} \cup {{c} : c \in Ids(library)} :
                      UpdateMangasCategories(xs, TRUE, {}, add)
                \/ \E inLibrary \in BOOLEAN : UpdateMangas(xs, inLibrary)
  BY <1>5, <1>6, <1>16, <1>17
<1>18. CASE \E x \in Titles :
                \/ \E c \in Ids(library), add \in {{}, Ids(library)} :
                      UpdateMangasCategories({x}, FALSE, {c}, add)
                \/ \E inLibrary \in BOOLEAN : Discover(x, inLibrary)
                \/ \E y \in Titles : SetBinding(x, y)
                \/ DeleteBinding(x)
  BY <1>5, <1>7, <1>8, <1>9, <1>15, <1>18
<1> QED  BY <1>1, <1>2, <1>3, <1>4, <1>10, <1>11, <1>12, <1>13, <1>14, <1>17, <1>18
        DEF LibraryNext

(* A restore reports SUCCESS from its last phase only.                     *)
LEMMA SuccessComesLast ==
  ASSUME LibrarySound, Running, [LibraryNext]_libraryVars, restore' = JobEnded("SUCCESS")
  PROVE  restore.phase = "settings"
<1>1. restore'.phase = "SUCCESS" /\ restore' # Absent
  BY LibraryAssumption DEF JobEnded
<1>2. restore.phase # "SUCCESS"
  BY DEF Running
<1>3. restore' # restore
  BY <1>1, <1>2
<1>4. ~RestoreFails
  BY <1>1 DEF RestoreFails, JobEnded
<1>5. /\ restore = [doc |-> restore.doc, done |-> restore.done, idMap |-> restore.idMap,
                    mapping |-> restore.mapping, phase |-> restore.phase]
  BY DEF LibrarySound, RestoreSound
<1>6. ASSUME NEW phase, NEW next, NEW done
      PROVE  /\ After(phase, next, done).phase \in {phase, next}
             /\ \A m : [After(phase, next, done) EXCEPT !.idMap = m].phase \in {phase, next}
  <2> DEFINE p == IF done >= Len(restore.doc.manga) THEN next ELSE phase
             k == IF done >= Len(restore.doc.manga) THEN 0 ELSE done
  <2>1. After(phase, next, done) = [restore EXCEPT !.phase = p, !.done = k]
    BY DEF After
  <2>2. p \in {phase, next}
    OBVIOUS
  <2> HIDE DEF p, k
  <2>3. After(phase, next, done) =
            [doc |-> restore.doc, done |-> k, idMap |-> restore.idMap,
             mapping |-> restore.mapping, phase |-> p]
    BY <1>5, <2>1
  <2>4. After(phase, next, done).phase = p
    BY <2>3
  <2>5. \A m : [After(phase, next, done) EXCEPT !.idMap = m].phase = p
    BY <2>3
  <2> QED  BY <2>2, <2>4, <2>5
<1>7. ~RestoreManga
  <2>1. ~Commits
    <3> SUFFICES ASSUME Commits PROVE FALSE
      OBVIOUS
    <3> DEFINE batch == BatchOf(restore.doc, restore.done)
               rows == MangaRestored(library, lastId, restore.doc, batch)
               ids == IdMap([library EXCEPT !.manga = rows], restore.doc, batch)
               m == [id \in DOMAIN restore.idMap \cup DOMAIN ids |->
                       IF id \in DOMAIN ids THEN ids[id] ELSE restore.idMap[id]]
    <3>1. restore' = [After("manga", "meta", restore.done + Batch) EXCEPT !.idMap = m]
      BY DEF Commits
    <3> DEFINE after == After("manga", "meta", restore.done + Batch)
    <3> HIDE DEF m
    <3>3. [after EXCEPT !.idMap = m].phase \in {"manga", "meta"}
      BY <1>6
    <3> HIDE DEF after
    <3>2. restore'.phase \in {"manga", "meta"}
      BY <3>1, <3>3 DEF after
    <3> QED  BY <1>1, <3>2
  <2> QED  BY <1>4, <2>1 DEF RestoreManga, Commits
<1>8. ~RestoreMeta
  <2>1. ~Binds
    <3> SUFFICES ASSUME Binds PROVE FALSE
      OBVIOUS
    <3>1. restore' = After("meta", "global", restore.done + Batch)
      BY DEF Binds
    <3>2. restore'.phase \in {"meta", "global"}
      BY <1>6, <3>1
    <3> QED  BY <1>1, <3>2
  <2> QED  BY <1>4, <2>1 DEF RestoreMeta, Binds
<1>9. CASE RestoreAccount
  <2>1. ~(restore.phase = "global" /\ restore' = [restore EXCEPT !.phase = "settings"])
    BY <1>1, <1>5
  <2> QED  BY <1>4, <1>9, <2>1 DEF RestoreAccount
<1>10. CASE UNCHANGED libraryVars
  BY <1>3, <1>10 DEF libraryVars
<1>11. ~Restart
  BY <1>1 DEF Restart
<1>12. \A d \in Documents : ~RestoreBackup(d)
  BY DEF RestoreBackup
<1>13. ~RemoveAccount /\ ~AddAccount
  BY <1>3 DEF RemoveAccount, AddAccount
<1>14. \A l, xs : ~Edit(l, xs)
  BY <1>3 DEF Edit
<1> QED  BY <1>7, <1>8, <1>9, <1>10, <1>11, <1>12, <1>13, <1>14
        DEF LibraryNext, RestoreStep, CreateCategory, DeleteCategory, UpdateCategory,
            UpdateCategoryOrder, UpdateMangasCategories, UpdateMangas, Discover,
            SetBinding, DeleteBinding

LEMMA LibrarySoundAlways == LibrarySpec => []LibrarySound
BY LibrarySoundInit, LibrarySoundNext, PTL DEF LibrarySpec

(* A step of the account beside a restore: rows keep their numbers, and a  *)
(* title it has not changed is read from what it was.                      *)
LEMMA ReadingCarried ==
  ASSUME LibrarySound, LibrarySound', ReadingSound, UNCHANGED restore,
         Running => edited \subseteq edited',
         Running /\ edited' # Titles =>
             /\ \A z \in Shelved(library) :
                   z \in Shelved(library') /\ library'.manga[z].id = library.manga[z].id
             /\ \A x \in Titles \ edited' : library'.binding[x] = library.binding[x]
  PROVE  ReadingSound'
<1> SUFFICES ASSUME Running, edited' # Titles PROVE ReadingSound'
  BY DEF ReadingSound, Running
<1>1. edited \subseteq Titles /\ edited' \subseteq Titles
  BY DEF LibrarySound, RowsSound
<1>2. edited # Titles
  BY <1>1
<1>3. \A id : TitleOf(library, id) \subseteq TitleOf(library', id)
  BY DEF TitleOf
<1>4. WrittenEntries' = WrittenEntries /\ BoundEntries' = BoundEntries
  BY DEF WrittenEntries, BoundEntries
<1>5. ASSUME NEW i \in BoundEntries, restore.doc.manga[i].title \notin edited'
      PROVE  ReadFromTheSame(restore.doc, i)'
  <2> DEFINE d == restore.doc
  <2>1. d \in Documents /\ i \in DOMAIN d.manga
    BY DEF BoundEntries, LibrarySound, RestoreSound
  <2>2. d.manga[i].title \in Titles
    BY <2>1, DocumentShape
  <2>3. ReadFromTheSame(d, i)
    BY <1>2, <1>5 DEF ReadingSound
  <2>4. library'.binding[d.manga[i].title] = library.binding[d.manga[i].title]
    BY <1>5, <2>2
  <2>5. \A j \in DOMAIN d.manga : d.manga[j].id = d.manga[i].binding =>
            d.manga[j].title \in TitleOf(library', library'.binding[d.manga[i].title])
    BY <1>3, <2>3, <2>4 DEF ReadFromTheSame
  <2> QED  BY <2>5 DEF ReadFromTheSame, TitleOf, Shelved
<1>6. \A i \in WrittenEntries :
          restore.doc.manga[i].title \in
              TitleOf(library', restore.idMap[restore.doc.manga[i].id])
  BY <1>2, <1>3 DEF ReadingSound
<1> QED  BY <1>4, <1>5, <1>6 DEF ReadingSound

(* The edits of an account: only the titles they are of are read anew.     *)
LEMMA ReadingEdited ==
  ASSUME LibrarySound, LibrarySound', ReadingSound, NEW l, NEW xs, Edit(l, xs),
         \A z \in Shelved(library) : z \in Shelved(l) /\ l.manga[z].id = library.manga[z].id,
         \A x \in Titles \ xs : l.binding[x] = library.binding[x]
  PROVE  ReadingSound'
<1>1. library' = l /\ UNCHANGED restore
  BY DEF Edit
<1>2. Running => edited' = edited \cup xs
  BY DEF Edit, Running
<1> QED  BY <1>1, <1>2, ReadingCarried

LEMMA ReadingSoundNext ==
  ASSUME LibrarySound, LibrarySound', ReadingSound, [LibraryNext]_libraryVars
  PROVE  ReadingSound'
<1> DEFINE SameRows(l) == l.manga = library.manga /\ l.binding = library.binding
<1>0. ASSUME NEW l, NEW xs, Edit(l, xs), SameRows(l) PROVE ReadingSound'
  <2>1. \A z \in Shelved(library) : z \in Shelved(l) /\ l.manga[z].id = library.manga[z].id
    BY <1>0 DEF Shelved
  <2> QED  BY <1>0, <2>1, ReadingEdited
<1>1. \A v : /\ SameRows([library EXCEPT !.category = v])
             /\ SameRows([library EXCEPT !.filed = v])
             /\ \A w : SameRows([library EXCEPT !.category = v, !.filed = w])
  BY BeforeEdit
<1>2. ASSUME NEW name \in Typed, CreateCategory(name) PROVE ReadingSound'
  <2>1. \E v : Edit([library EXCEPT !.category = v], {})
    BY <1>2 DEF CreateCategory
  <2> QED  BY <1>0, <1>1, <2>1
<1>3. ASSUME NEW c \in Ids(library), DeleteCategory(c) PROVE ReadingSound'
  <2>1. \E v, w : Edit([library EXCEPT !.category = v, !.filed = w], {})
    BY <1>3 DEF DeleteCategory, CategoryDeleted
  <2> QED  BY <1>0, <1>1, <2>1
<1>4. ASSUME NEW c \in Ids(library), NEW name \in Typed, UpdateCategory(c, name)
      PROVE  ReadingSound'
  <2>1. Edit([library EXCEPT !.category[c].name = name], {})
    BY <1>4 DEF UpdateCategory
  <2>2. SameRows([library EXCEPT !.category[c].name = name])
    BY BeforeEdit
  <2> QED  BY <1>0, <2>1, <2>2
<1>5. ASSUME NEW c \in Ids(library), NEW position, UpdateCategoryOrder(c, position)
      PROVE  ReadingSound'
  <2>1. \E v : Edit([library EXCEPT !.category = v], {})
    BY <1>5 DEF UpdateCategoryOrder, Moved
  <2> QED  BY <1>0, <1>1, <2>1
<1>6. ASSUME NEW xs, NEW clear, NEW remove, NEW add,
             UpdateMangasCategories(xs, clear, remove, add)
      PROVE  ReadingSound'
  <2>1. \E v : Edit([library EXCEPT !.filed = v], xs)
    BY <1>6 DEF UpdateMangasCategories, Filed
  <2> QED  BY <1>0, <1>1, <2>1
<1>7. ASSUME NEW xs, NEW inLibrary \in BOOLEAN, UpdateMangas(xs, inLibrary)
      PROVE  ReadingSound'
  <2> DEFINE manga == [x \in Titles |->
                IF x \in xs THEN [library.manga[x] EXCEPT !.inLibrary = inLibrary]
                ELSE library.manga[x]]
             l == [library EXCEPT !.manga = manga]
  <2>1. Edit(l, xs)
    BY <1>7 DEF UpdateMangas
  <2>2. l.manga = manga /\ l.binding = library.binding
    <3> HIDE DEF manga
    <3> QED  BY BeforeEdit
  <2>3. ASSUME NEW z \in Shelved(library)
        PROVE  z \in Shelved(l) /\ l.manga[z].id = library.manga[z].id
    <3>1. z \in Titles /\ library.manga[z] \in LibraryRow
      BY BeforeEdit DEF Shelved
    <3>2. /\ [library.manga[z] EXCEPT !.inLibrary = inLibrary] \in LibraryRow
          /\ [library.manga[z] EXCEPT !.inLibrary = inLibrary].id = library.manga[z].id
      BY <3>1 DEF LibraryRow
    <3>3. manga[z] \in LibraryRow /\ manga[z].id = library.manga[z].id
      BY <3>1, <3>2
    <3>4. manga[z] # Absent
      BY <3>3, LibraryAssumption
    <3> HIDE DEF manga
    <3> HIDE DEF l
    <3> QED  BY <2>2, <3>1, <3>3, <3>4 DEF Shelved
  <2> HIDE DEF l
  <2> QED  BY <2>1, <2>2, <2>3, ReadingEdited
<1>8. ASSUME NEW x \in Titles, NEW inLibrary \in BOOLEAN, Discover(x, inLibrary)
      PROVE  ReadingSound'
  <2> DEFINE row == [id |-> lastId'.manga, inLibrary |-> inLibrary]
             l == [library EXCEPT !.manga[x] = row]
  <2>1. Edit(l, {x}) /\ library.manga[x] = Absent
    BY <1>8 DEF Discover
  <2>2. \A z \in Titles : z # x => l.manga[z] = library.manga[z]
    <3> HIDE DEF row
    <3> QED  BY BeforeEdit
  <2>3. l.binding = library.binding
    <3> HIDE DEF row
    <3> QED  BY BeforeEdit
  <2> HIDE DEF l
  <2>4. \A z \in Shelved(library) : z \in Shelved(l) /\ l.manga[z].id = library.manga[z].id
    BY <2>1, <2>2 DEF Shelved
  <2> QED  BY <2>1, <2>3, <2>4, ReadingEdited
<1>9. ASSUME NEW x \in Titles, NEW k, Edit([library EXCEPT !.binding[x] = k], {x})
      PROVE  ReadingSound'
  <2> DEFINE l == [library EXCEPT !.binding[x] = k]
  <2>1. l.manga = library.manga /\ \A z \in Titles \ {x} : l.binding[z] = library.binding[z]
    BY BeforeEdit
  <2>2. Edit(l, {x})
    BY <1>9
  <2> HIDE DEF l
  <2>3. \A z \in Shelved(library) : z \in Shelved(l) /\ l.manga[z].id = library.manga[z].id
    BY <2>1 DEF Shelved
  <2> QED  BY <2>1, <2>2, <2>3, ReadingEdited
<1>10. ASSUME NEW x \in Titles, NEW y \in Titles, SetBinding(x, y) PROVE ReadingSound'
  BY <1>9, <1>10 DEF SetBinding
<1>11. ASSUME NEW x \in Titles, DeleteBinding(x) PROVE ReadingSound'
  BY <1>9, <1>11 DEF DeleteBinding
<1>12. CASE RemoveAccount
  <2>1. UNCHANGED restore /\ (Running => edited' = Titles)
    BY <1>12 DEF RemoveAccount, Running
  <2>2. Running => edited \subseteq edited'
    BY <2>1 DEF LibrarySound, RowsSound
  <2> QED  BY <2>1, <2>2, ReadingCarried
<1>13. CASE UNCHANGED <<library, restore, edited>>
  BY <1>13, ReadingCarried
<1>14. CASE AddAccount \/ UNCHANGED libraryVars
  BY <1>13, <1>14 DEF AddAccount, libraryVars
<1>15. CASE restore' = Absent \/ \E state \in {"SUCCESS", "FAILURE"} : restore' = JobEnded(state)
  <2>1. ~Running'
    BY <1>15 DEF Running, JobEnded
  <2> QED  BY <2>1 DEF ReadingSound
<1>16. ASSUME NEW d \in Documents, RestoreBackup(d) PROVE ReadingSound'
  <2>1. /\ restore'.doc = d /\ restore'.done = 0
        /\ restore'.phase = IF d.manga = <<>> THEN "global" ELSE "manga"
    BY <1>16 DEF RestoreBackup
  <2>2. DOMAIN d.manga = 1..Len(d.manga) /\ Len(d.manga) \in Nat
    BY DocumentShape
  <2>3. CASE d.manga = <<>>
    <3>1. DOMAIN d.manga = {}
      BY <2>3
    <3>2. WrittenEntries' = {} /\ BoundEntries' = {}
      BY <2>1, <3>1 DEF WrittenEntries, BoundEntries
    <3> QED  BY <3>2 DEF ReadingSound
  <2>4. CASE d.manga # <<>>
    <3>1. \A i \in DOMAIN d.manga : ~(i <= 0)
      BY <2>2
    <3>2. WrittenEntries' = {} /\ BoundEntries' = {}
      BY <2>1, <2>4, <3>1 DEF WrittenEntries, BoundEntries
    <3> QED  BY <3>2 DEF ReadingSound
  <2> QED  BY <2>3, <2>4
<1>17. CASE RestoreStep
  <2>1. CASE RestoreManga
    <3>1. Running /\ restore.phase = "manga" /\ (Commits \/ RestoreFails)
      BY <2>1 DEF RestoreManga, Commits
    <3> QED  BY <1>15, <3>1, BatchCommitted DEF RestoreFails
  <2>2. CASE RestoreMeta
    <3>1. Running /\ restore.phase = "meta" /\ (Binds \/ RestoreFails)
      BY <2>2 DEF RestoreMeta, Binds
    <3> QED  BY <1>15, <3>1, BindingsCommitted DEF RestoreFails
  <2>3. CASE RestoreAccount
    <3>1. CASE /\ restore.phase = "global" /\ Running
               /\ restore' = [restore EXCEPT !.phase = "settings"]
               /\ UNCHANGED <<library, edited>>
      <4>1. restore = [doc |-> restore.doc, done |-> restore.done, idMap |-> restore.idMap,
                       mapping |-> restore.mapping, phase |-> restore.phase]
        BY <3>1 DEF LibrarySound, RestoreSound
      <4>2. /\ restore'.doc = restore.doc /\ restore'.idMap = restore.idMap
            /\ restore'.phase = "settings"
        BY <3>1, <4>1
      <4>3. WrittenEntries' = WrittenEntries /\ BoundEntries' = BoundEntries
        BY <3>1, <4>2 DEF WrittenEntries, BoundEntries
      <4>4. \A i : ReadFromTheSame(restore.doc, i)' <=> ReadFromTheSame(restore.doc, i)
        BY <3>1, <4>2 DEF ReadFromTheSame, TitleOf, Shelved
      <4>5. \A id : TitleOf(library, id)' = TitleOf(library, id)
        BY <3>1 DEF TitleOf, Shelved
      <4> QED  BY <3>1, <4>2, <4>3, <4>4, <4>5 DEF ReadingSound
    <3> QED  BY <1>15, <2>3, <3>1 DEF RestoreAccount, RestoreFails
  <2> QED  BY <1>17, <2>1, <2>2, <2>3 DEF RestoreStep
<1>18. CASE Restart
  BY <1>15, <1>18 DEF Restart
<1> QED  BY <1>2, <1>3, <1>4, <1>5, <1>6, <1>7, <1>8, <1>10, <1>11, <1>12, <1>14, <1>16, <1>17,
            <1>18 DEF LibraryNext

LEMMA ReadingSoundAlways == LibrarySpec => []ReadingSound
<1>1. LibraryInit => ReadingSound
  BY DEF LibraryInit, ReadingSound, Running
<1>2. LibrarySound /\ LibrarySound' /\ ReadingSound /\ [LibraryNext]_libraryVars
          => ReadingSound'
  BY ReadingSoundNext
<1> QED  BY <1>1, <1>2, LibrarySoundAlways, PTL DEF LibrarySpec

LEMMA SuccessIsWhole ==
  LibrarySound /\ ReadingSound /\ [LibraryNext]_libraryVars => RestoreIsWhole
<1> SUFFICES ASSUME LibrarySound, ReadingSound, [LibraryNext]_libraryVars, Running,
                    restore' = JobEnded("SUCCESS")
             PROVE  \A i \in DOMAIN restore.doc.manga :
                        restore.doc.manga[i].title \notin edited =>
                            /\ Brought(restore.doc, i, restore.mapping)
                            /\ ReadFromTheSame(restore.doc, i)
  BY DEF RestoreIsWhole
<1>1. restore.phase = "settings"
  BY SuccessComesLast
<1>2. WrittenEntries = DOMAIN restore.doc.manga /\ BoundEntries = DOMAIN restore.doc.manga
  BY <1>1 DEF WrittenEntries, BoundEntries
<1>3. \A i \in DOMAIN restore.doc.manga : restore.doc.manga[i].title \in Titles
  BY DocumentShape DEF LibrarySound, RestoreSound
<1> QED  BY <1>2, <1>3 DEF LibrarySound, RestoreSound, ReadingSound

-----------------------------------------------------------------------------
(* Every reference from a row of the library finds the row it names: what  *)
(* the foreign keys of schema.sql promise, with the account's removal and  *)
(* a restore between any two steps.                                        *)
THEOREM LibraryHoldsTogether ==
  LibrarySpec => []LibraryTypeOK
<1>1. LibrarySound => LibraryTypeOK
  <2> SUFFICES ASSUME LibrarySound PROVE LibraryTypeOK
    OBVIOUS
  <2>1. \A c \in Ids(library) :
            c \in 1..lastId.category /\ library.category[c].name \in Names
    BY DEF LibrarySound, RowsSound, CategoryRow
  <2>2. /\ account \in BOOLEAN
        /\ ~account => library = NoRows
        /\ edited \subseteq Titles
    BY DEF LibrarySound, RowsSound
  <2> QED  BY <2>1, <2>2, BeforeEdit DEF LibraryTypeOK
<1> QED  BY <1>1, LibrarySoundInit, LibrarySoundNext, PTL DEF LibrarySpec

(* The categories stand at 1..n, each at a place of its own, whatever was  *)
(* made, moved, deleted or restored (category.ts:183).                     *)
THEOREM CategoriesStandInOrder ==
  LibrarySpec => []CategoriesInOrder
<1>1. LibrarySound => CategoriesInOrder
  BY DEF LibrarySound
<1> QED  BY <1>1, LibrarySoundInit, LibrarySoundNext, PTL DEF LibrarySpec

(* No title is read from another than the one it was bound to, whatever    *)
(* numbers the rows were given here and in the archive (apply.ts:316-318). *)
THEOREM BindingsStayRight ==
  LibrarySpec => []BindingsAreRight
<1>1. LibrarySound => BindingsAreRight
  BY DEF LibrarySound, BindingsSound, Given, GivenIn, BindingsAreRight
<1> QED  BY <1>1, LibrarySoundInit, LibrarySoundNext, PTL DEF LibrarySpec

(* A restore that reports SUCCESS has brought the whole archive, but for   *)
(* what the account changed itself meanwhile (apply.ts:370-457).           *)
THEOREM RestoresBringAll ==
  LibrarySpec => [][RestoreIsWhole]_libraryVars
<1>1. LibrarySound /\ ReadingSound /\ [LibraryNext]_libraryVars
          => [RestoreIsWhole]_libraryVars
  BY SuccessIsWhole
<1> QED  BY <1>1, LibrarySoundAlways, ReadingSoundAlways, PTL DEF LibrarySpec

-----------------------------------------------------------------------------
(* Days: what a remainder is, that it is the only one, and the next one.   *)
LEMMA DivMod ==
  ASSUME NEW L \in Nat \ {0}, NEW t \in Nat
  PROVE  /\ t \div L \in Nat /\ t % L \in 0..(L - 1)
         /\ t = L * (t \div L) + (t % L)
OBVIOUS

LEMMA ModOnce ==
  ASSUME NEW L \in Nat \ {0}, NEW q \in Nat, NEW p \in Nat,
         NEW r \in 0..(L - 1), NEW s \in 0..(L - 1), L * q + r = L * p + s
  PROVE  q = p /\ r = s
<1>1. ASSUME NEW a \in Nat, NEW b \in Nat, a < b PROVE L * a + L <= L * b
  <2>1. PICK d \in Nat : b = a + 1 + d
    <3>1. b - a - 1 \in Nat /\ b = a + 1 + (b - a - 1)
      BY <1>1
    <3> QED  BY <3>1
  <2>2. L * (a + 1 + d) = L * a + L + L * d /\ L * d \in Nat
    OBVIOUS
  <2>3. L * a \in Nat
    OBVIOUS
  <2> QED  BY <2>1, <2>2, <2>3
<1>2. ~ q < p
  BY <1>1
<1>3. ~ p < q
  BY <1>1
<1>4. q = p
  BY <1>2, <1>3
<1> QED  BY <1>4

LEMMA ModNext ==
  ASSUME NEW L \in Nat \ {0}, NEW t \in Nat
  PROVE  (t + 1) % L = IF t % L = L - 1 THEN 0 ELSE (t % L) + 1
<1> DEFINE r == t % L
           q == t \div L
           n == IF r = L - 1 THEN 0 ELSE r + 1
           p == IF r = L - 1 THEN q + 1 ELSE q
<1>1. q \in Nat /\ r \in 0..(L - 1) /\ t = L * q + r
  BY DivMod
<1>2. n \in 0..(L - 1) /\ p \in Nat
  BY <1>1
<1>3. t + 1 = L * p + n
  <2>1. L * (q + 1) = L * q + L
    BY <1>1
  <2>2. L * q \in Nat
    BY <1>1
  <2> QED  BY <1>1, <2>1, <2>2
<1>4. t + 1 \in Nat
  OBVIOUS
<1>5. /\ (t + 1) \div L \in Nat /\ (t + 1) % L \in 0..(L - 1)
      /\ t + 1 = L * ((t + 1) \div L) + ((t + 1) % L)
  BY <1>4, DivMod
<1> HIDE DEF n, p
<1>6. (t + 1) % L = n
  <2> DEFINE P == (t + 1) \div L
             m == (t + 1) % L
  <2>1. P \in Nat /\ m \in 0..(L - 1) /\ L * P + m = L * p + n
    BY <1>3, <1>5
  <2> HIDE DEF P, m
  <2>2. m = n
    BY <1>2, <2>1, ModOnce
  <2> QED  BY <2>2 DEF m
<1> QED  BY <1>6 DEF n

-----------------------------------------------------------------------------
(* The automated backup.                                                   *)

Since == IF lastRun \div 2 >= steady THEN lastRun \div 2 ELSE steady

(* A run that is later than its interval waits for its time of the day, if *)
(* that is one a check can be past,                                        *)
(* and has waited since midnight at most.                                  *)
Waits ==
    backingUp /\ settings.interval > 0 /\ SlotIsMet /\ tick - Since > settings.interval =>
        /\ tick % DayLength < settings.slot
        /\ tick - Since - settings.interval <= (tick % DayLength) + 1

ArchiveFile == [at : Nat, whole : BOOLEAN]

ScheduleSound ==
    /\ tick \in Nat /\ lastRun \in Nat /\ steady \in Nat
    /\ lastRun <= 2 * tick + 1 /\ steady <= tick
    /\ backingUp \in BOOLEAN /\ settings \in Settings
    /\ archives \in Seq(ArchiveFile)
    /\ \A i \in DOMAIN archives : archives[i].at <= tick
    /\ Waits

LEMMA SinceTyped ==
  ASSUME ScheduleSound
  PROVE  /\ Since \in Nat /\ Since <= tick /\ lastRun <= 2 * Since + 1
         /\ settings.interval \in Nat /\ settings.slot \in 0..DayLength
         /\ settings.ttl \in Nat
<1>1. lastRun \div 2 \in Nat /\ lastRun \div 2 <= tick /\ lastRun <= 2 * (lastRun \div 2) + 1
  BY DEF ScheduleSound
<1>2. /\ settings.interval \in Nat /\ settings.slot \in 0..DayLength
      /\ settings.ttl \in Nat
  BY BackupScheduleAssumption DEF ScheduleSound, Settings
<1> QED  BY <1>1, <1>2 DEF Since, ScheduleSound

LEMMA ScheduleSoundInit == ScheduleInit => ScheduleSound
<1> SUFFICES ASSUME ScheduleInit PROVE ScheduleSound
  OBVIOUS
<1>1. tick = 1 /\ lastRun = 0 /\ steady = 1 /\ settings \in Settings
  BY DEF ScheduleInit
<1>2. settings.interval \in Nat
  BY <1>1, BackupScheduleAssumption DEF Settings
<1>3. Since = 1
  BY <1>1 DEF Since
<1>4. Waits
  BY <1>1, <1>2, <1>3 DEF Waits
<1> QED  BY <1>4 DEF ScheduleInit, ScheduleSound

(* What is put first in the directory stands first in it, and the rest     *)
(* behind it.                                                              *)
LEMMA PutFirst ==
  ASSUME NEW s \in Seq(ArchiveFile), NEW f \in ArchiveFile
  PROVE  LET t == <<f>> \o s
         IN  /\ t \in Seq(ArchiveFile) /\ t # <<>>
             /\ 1 \in DOMAIN t /\ t[1] = f
             /\ \A i \in DOMAIN s : i + 1 \in DOMAIN t /\ t[i + 1] = s[i]
             /\ \A i \in DOMAIN t : i = 1 \/ (i - 1 \in DOMAIN s /\ t[i] = s[i - 1])
<1>1. <<f>> \in Seq(ArchiveFile) /\ Len(<<f>>) = 1 /\ <<f>>[1] = f
  OBVIOUS
<1>2. /\ <<f>> \o s \in Seq(ArchiveFile) /\ Len(<<f>> \o s) = 1 + Len(s)
      /\ \A i \in 1..(1 + Len(s)) :
            (<<f>> \o s)[i] = IF i <= 1 THEN <<f>>[i] ELSE s[i - 1]
  BY <1>1, ConcatProperties
<1>3. DOMAIN s = 1..Len(s) /\ DOMAIN (<<f>> \o s) = 1..(1 + Len(s)) /\ Len(s) \in Nat
  BY <1>2, LenProperties
<1> DEFINE t == <<f>> \o s
           n == Len(s)
<1>4. n \in Nat /\ DOMAIN t = 1..(1 + n) /\ t \in Seq(ArchiveFile)
  BY <1>2, <1>3
<1>5. t[1] = f /\ \A i \in 1..(1 + n) : i # 1 => t[i] = s[i - 1]
  BY <1>1, <1>2, <1>4
<1>6. DOMAIN s = 1..n
  BY <1>3
<1>7. t # <<>>
  BY <1>4
<1> HIDE DEF t, n
<1>8. \A i \in 1..n : i + 1 \in 1..(1 + n) /\ t[i + 1] = s[i]
  BY <1>4, <1>5
<1>9. \A i \in 1..(1 + n) : i = 1 \/ (i - 1 \in 1..n /\ t[i] = s[i - 1])
  BY <1>4, <1>5
<1>10. 1 \in DOMAIN t
  BY <1>4
<1> QED  BY <1>4, <1>5, <1>6, <1>7, <1>8, <1>9, <1>10 DEF t

(* What stays of a directory is of it, in its order, and its head stays    *)
(* unless it is taken itself.                                              *)
LEMMA HeadStays ==
  ASSUME NEW s \in Seq(ArchiveFile), NEW gone, 1 \in DOMAIN s, 1 \notin gone
  PROVE  /\ Without(s, gone) \in Seq(ArchiveFile)
         /\ 1 \in DOMAIN Without(s, gone) /\ Without(s, gone)[1] = s[1]
         /\ \A k \in DOMAIN Without(s, gone) : \E i \in DOMAIN s : Without(s, gone)[k] = s[i]
<1> DEFINE left == DOMAIN s \ gone
           n == Cardinality(left)
           R == {p \in left \X left : p[1] <= p[2]}
           Upto(i) == {j \in left : j <= i}
           at(k) == CHOOSE i \in left : Cardinality(Upto(i)) = k
           w == [k \in 1..n |-> s[at(k)]]
<1>1. DOMAIN s = 1..Len(s) /\ Len(s) \in Nat
  BY LenProperties
<1>2. left \subseteq 1..Len(s) /\ 1 \in left
  BY <1>1
<1>3. IsFiniteSet(left)
  <2>1. IsFiniteSet(1..Len(s))
    BY <1>1, FS_Interval
  <2> QED  BY <1>2, <2>1, FS_Subset
<1>4. \A i \in left : i \in Nat /\ i >= 1
  BY <1>1, <1>2
<1> HIDE DEF left
<1>5. TotallyOrders(left, R)
  BY <1>4 DEF TotallyOrders
<1>6. \A i \in left : Preceding(left, R, i) = Upto(i)
  BY DEF Preceding
<1>7. \A k \in 1..n : \E i \in left : Cardinality(Upto(i)) = k
  <2> HIDE DEF R, Upto
  <2>1. \A k \in 1..Cardinality(left) : \E u \in left : Standing(left, R)[u] = k
    BY <1>3, <1>5, StandingsAreDense
  <2>2. \A u \in left : Standing(left, R)[u] = Cardinality(Upto(u))
    BY <1>6 DEF Standing
  <2> QED  BY <2>1, <2>2
<1>8. \A k \in 1..n : at(k) \in left /\ Cardinality(Upto(at(k))) = k
  BY <1>7
<1>9. n \in Nat /\ n # 0
  BY <1>2, <1>3, FS_CardinalityType, FS_EmptySet
<1>10. \A k \in 1..n : w[k] = s[at(k)] /\ at(k) \in DOMAIN s
  <2> HIDE DEF at, n
  <2> QED  BY <1>1, <1>2, <1>8
<1>11. w \in Seq(ArchiveFile)
  <2>1. \A i \in DOMAIN s : s[i] \in ArchiveFile
    BY <1>1, ElementOfSeq
  <2>2. \A k \in 1..n : s[at(k)] \in ArchiveFile
    BY <1>10, <2>1
  <2> HIDE DEF at, n
  <2> QED  BY <1>9, <2>2, IsASeq
<1>12. at(1) = 1
  <2>1. 1 \in 1..n
    BY <1>9
  <2>2. at(1) \in left /\ Cardinality(Upto(at(1))) = 1
    BY <1>8, <2>1
  <2> DEFINE one == at(1)
  <2>0. one \in left /\ Cardinality(Upto(one)) = 1
    BY <2>2
  <2> HIDE DEF one
  <2>3. 1 \in Upto(one) /\ one \in Upto(one)
    BY <1>2, <1>4, <2>0
  <2>4. IsFiniteSet(Upto(one))
    BY <1>3, FS_Subset
  <2> HIDE DEF Upto
  <2>5. \E x : Upto(one) = {x}
    BY <2>0, <2>4, FS_Singleton
  <2>6. one = 1
    BY <2>3, <2>5
  <2> QED  BY <2>6 DEF one
<1>13. 1 \in DOMAIN w /\ w[1] = s[1]
  <2> HIDE DEF at, n
  <2>1. 1 \in 1..n /\ w[1] = s[at(1)]
    BY <1>9
  <2> QED  BY <1>12, <2>1
<1>14. \A k \in DOMAIN w : \E i \in DOMAIN s : w[k] = s[i]
  BY <1>10
<1>15. Without(s, gone) = w
  BY DEF Without, left
<1> HIDE DEF w
<1> QED  BY <1>11, <1>13, <1>14, <1>15

LEMMA ArchiveTyped ==
  ASSUME ScheduleSound, NEW i \in DOMAIN archives PROVE archives[i].at \in Nat
<1>1. archives \in Seq(ArchiveFile)
  BY DEF ScheduleSound
<1>2. archives[i] \in ArchiveFile
  BY <1>1, LenProperties
<1> QED  BY <1>2 DEF ArchiveFile

(* After a run the directory holds archives, none of them of the future;   *)
(* what is restored from is there if it was, and after a success anyway.   *)
LEMMA RunLeaves ==
  ASSUME ScheduleSound, BackedUp(tick + 1)
  PROVE  /\ archives' \in Seq(ArchiveFile)
         /\ \A i \in DOMAIN archives' : archives'[i].at <= tick + 1
         /\ \/ 1 \in DOMAIN archives' /\ archives'[1].whole
            \/ \A i \in DOMAIN archives : i + 1 \in DOMAIN archives' /\ archives'[i + 1] = archives[i]
<1> DEFINE now == tick + 1
           A(w) == Archive(now, w)
<1>1. /\ archives \in Seq(ArchiveFile) /\ tick \in Nat
      /\ \A i \in DOMAIN archives : archives[i].at <= tick
  BY DEF ScheduleSound
<1>2. ASSUME NEW w \in BOOLEAN PROVE A(w) \in ArchiveFile /\ A(w).at = now /\ A(w).whole = w
  BY <1>1 DEF Archive, ArchiveFile
<1>3. ASSUME NEW i \in DOMAIN archives PROVE archives[i].at \in Nat
  BY ArchiveTyped
<1>4. ASSUME NEW w \in BOOLEAN
      PROVE  \A i \in DOMAIN (<<A(w)>> \o archives) : (<<A(w)>> \o archives)[i].at <= now
  <2> HIDE DEF A
  <2>1. TAKE i \in DOMAIN (<<A(w)>> \o archives)
  <2>2. CASE i = 1
    BY <1>1, <1>2, <2>2, PutFirst
  <2>3. CASE i - 1 \in DOMAIN archives /\ (<<A(w)>> \o archives)[i] = archives[i - 1]
    BY <1>1, <1>3, <2>3
  <2> QED  BY <1>1, <1>2, <2>2, <2>3, PutFirst
<1>5. CASE \E w \in BOOLEAN : archives' = <<A(w)>> \o archives
  <2>1. PICK w \in BOOLEAN : archives' = <<A(w)>> \o archives
    BY <1>5
  <2> HIDE DEF A
  <2> QED  BY <1>1, <1>2, <1>4, <2>1, PutFirst
<1>6. CASE \E gone \in SUBSET Expired(<<A(TRUE)>> \o archives, now) :
             archives' = Without(<<A(TRUE)>> \o archives, gone)
  <2> DEFINE s == <<A(TRUE)>> \o archives
  <2>1. s \in Seq(ArchiveFile) /\ 1 \in DOMAIN s /\ s[1] = A(TRUE)
    <3>1. ASSUME NEW f \in ArchiveFile
          PROVE  /\ <<f>> \o archives \in Seq(ArchiveFile)
                 /\ 1 \in DOMAIN (<<f>> \o archives) /\ (<<f>> \o archives)[1] = f
      BY <1>1, PutFirst
    <3>2. A(TRUE) \in ArchiveFile
      BY <1>2
    <3> HIDE DEF A
    <3> QED  BY <3>1, <3>2 DEF s
  <2>2. \A i \in DOMAIN s : s[i].at <= now
    BY <1>4
  <2>3. PICK gone \in SUBSET Expired(s, now) : archives' = Without(s, gone)
    BY <1>6
  <2>4. 1 \notin gone
    BY <2>3 DEF Expired
  <2>5. A(TRUE).whole = TRUE
    BY <1>2
  <2> HIDE DEF s, A, now
  <2>6. /\ archives' \in Seq(ArchiveFile) /\ 1 \in DOMAIN archives' /\ archives'[1] = s[1]
        /\ \A k \in DOMAIN archives' : \E i \in DOMAIN s : archives'[k] = s[i]
    <3> HIDE DEF Without
    <3>1. s \in Seq(ArchiveFile) /\ 1 \in DOMAIN s /\ 1 \notin gone
      BY <2>1, <2>4
    <3>2. /\ Without(s, gone) \in Seq(ArchiveFile)
          /\ 1 \in DOMAIN Without(s, gone) /\ Without(s, gone)[1] = s[1]
          /\ \A k \in DOMAIN Without(s, gone) : \E i \in DOMAIN s : Without(s, gone)[k] = s[i]
      BY <3>1, HeadStays
    <3> QED  BY <2>3, <3>2
  <2>7. archives'[1].whole
    BY <2>1, <2>5, <2>6
  <2>8. \A k \in DOMAIN archives' : archives'[k].at <= now
    BY <2>2, <2>6
  <2> QED  BY <2>6, <2>7, <2>8 DEF now
<1> QED  BY <1>5, <1>6 DEF BackedUp

(* A check: the run is due, or it waits.                                   *)
LEMMA CheckSound == ASSUME ScheduleSound, Check PROVE ScheduleSound'
<1> DEFINE now == tick + 1
           I == settings.interval
<1>1. /\ Since \in Nat /\ Since <= tick /\ lastRun <= 2 * Since + 1
      /\ I \in Nat /\ settings.slot \in 0..DayLength
  BY SinceTyped
<1>2. /\ tick \in Nat /\ lastRun \in Nat /\ steady \in Nat /\ lastRun <= 2 * tick + 1
      /\ steady <= tick
  BY DEF ScheduleSound
<1>3. tick' = now /\ settings' = settings /\ settings \in Settings
  BY DEF Check, ScheduleSound
<1>4. DayLength \in Nat \ {0}
  BY BackupScheduleAssumption
<1>5. CASE backingUp /\ IsDue(now)
  <2>1. BackedUp(now)
    BY <1>5 DEF Check
  <2>2. /\ archives' \in Seq(ArchiveFile)
        /\ \A i \in DOMAIN archives' : archives'[i].at <= now
    BY <2>1, RunLeaves
  <2>3. backingUp' \in BOOLEAN
    BY <1>5, <2>1 DEF BackedUp, ScheduleSound
  <2>4. \/ lastRun' \in {2 * now, 2 * now + 1} /\ steady' = steady
        \/ lastRun' = lastRun /\ steady' = now
    BY <2>1 DEF BackedUp
  <2>5. /\ lastRun' \in Nat /\ steady' \in Nat /\ lastRun' <= 2 * now + 1 /\ steady' <= now
    BY <1>2, <2>4
  <2>6. Since' = now
    <3>1. CASE lastRun' \in {2 * now, 2 * now + 1} /\ steady' = steady
      <4>1. lastRun' \div 2 = now
        BY <1>2, <3>1
      <4>2. now >= steady'
        BY <1>2, <3>1
      <4> QED  BY <4>1, <4>2 DEF Since
    <3>2. CASE lastRun' = lastRun /\ steady' = now
      <4>1. lastRun \div 2 \in Nat /\ lastRun \div 2 <= tick
        BY <1>2
      <4> QED  BY <1>2, <3>2, <4>1 DEF Since
    <3> QED  BY <2>4, <3>1, <3>2
  <2>7. Waits'
    BY <1>1, <1>2, <1>3, <2>6 DEF Waits
  <2> QED  BY <1>2, <1>3, <2>2, <2>3, <2>5, <2>7 DEF ScheduleSound
<1>6. CASE ~(backingUp /\ IsDue(now))
  <2>1. /\ steady' = IF backingUp THEN steady ELSE now
        /\ backingUp' = backingUp /\ lastRun' = lastRun /\ archives' = archives
    BY <1>6 DEF Check
  <2>2. Waits'
    <3> SUFFICES ASSUME backingUp, I > 0, SlotIsMet, now - Since' > I
                 PROVE  /\ now % DayLength < settings.slot
                        /\ now - Since' - I <= (now % DayLength) + 1
      BY <1>3, <2>1 DEF Waits, SlotIsMet
    <3>0. backingUp /\ I > 0 /\ SlotIsMet
      OBVIOUS
    <3>1. Since' = Since
      BY <2>1 DEF Since
    <3>2. now % DayLength < settings.slot
      <4>1. lastRun # 0 => 2 * now - lastRun >= 2 * I
        BY <1>1, <1>2, <3>1
      <4>2. ~(now % DayLength >= settings.slot)
        BY <1>6, <4>1 DEF IsDue
      <4>3. now % DayLength \in Nat
        BY <1>2, <1>4
      <4> HIDE DEF now
      <4> QED  BY <1>1, <4>2, <4>3
    <3>4. settings.slot < DayLength
      <4>1. lastRun > 0 => 2 * now - lastRun >= 2 * I
        BY <1>1, <1>2, <3>1
      <4>2. ~(lastRun > 0 /\ I < DayLength)
        BY <1>2, <1>6, <4>1 DEF IsDue
      <4> QED  BY <4>2 DEF SlotIsMet
    <3>3. now - Since - I <= (now % DayLength) + 1
      <4>1. now % DayLength \in Nat
        BY <1>2, <1>4
      <4>2. CASE tick - Since > I
        <5>1. /\ tick % DayLength < settings.slot
              /\ tick - Since - I <= (tick % DayLength) + 1
          BY <3>0, <4>2 DEF ScheduleSound, Waits
        <5>2. tick % DayLength \in 0..(DayLength - 1)
          BY <1>2, <1>4
        <5>3. now % DayLength = IF tick % DayLength = DayLength - 1 THEN 0
                                ELSE (tick % DayLength) + 1
          BY <1>2, <1>4, ModNext
        <5>4. tick % DayLength # DayLength - 1
          BY <1>1, <1>4, <3>4, <5>1, <5>2
        <5>5. now % DayLength = (tick % DayLength) + 1
          BY <5>3, <5>4
        <5> QED  BY <1>1, <1>2, <5>1, <5>2, <5>5
      <4>3. CASE ~(tick - Since > I)
        <5>1. now - Since - I <= 1
          BY <1>1, <1>2, <4>3
        <5> HIDE DEF now
        <5> QED  BY <4>1, <5>1, <1>1, <1>2 DEF now
      <4> QED  BY <4>2, <4>3
    <3> QED  BY <3>1, <3>2, <3>3
  <2>3. steady' \in Nat /\ steady' <= now
    BY <1>2, <2>1
  <2>4. \A i \in DOMAIN archives' : archives'[i].at <= now
    <3>1. TAKE i \in DOMAIN archives'
    <3>2. archives[i].at \in Nat /\ archives[i].at <= tick
      BY <2>1, <3>1, ArchiveTyped DEF ScheduleSound
    <3> QED  BY <1>2, <2>1, <3>2
  <2> QED  BY <1>2, <1>3, <2>1, <2>2, <2>3, <2>4 DEF ScheduleSound
<1> QED  BY <1>5, <1>6

LEMMA ScheduleSoundNext ==
  ScheduleSound /\ [ScheduleNext]_scheduleVars => ScheduleSound'
<1> SUFFICES ASSUME ScheduleSound, [ScheduleNext]_scheduleVars PROVE ScheduleSound'
  OBVIOUS
<1>0. lastRun \div 2 \in Nat /\ lastRun \div 2 <= tick /\ tick \in Nat
  BY DEF ScheduleSound
<1>1. CASE Check
  BY <1>1, CheckSound
<1>2. CASE CreateArchive
  <2>1. PICK whole \in BOOLEAN : archives' = <<Archive(tick, whole)>> \o archives
    BY <1>2 DEF CreateArchive
  <2>2. /\ tick' = tick /\ backingUp' = backingUp /\ settings' = settings
        /\ lastRun' = lastRun /\ steady' = steady
    BY <1>2 DEF CreateArchive
  <2>3. Archive(tick, whole) \in ArchiveFile /\ Archive(tick, whole).at = tick
    BY DEF ScheduleSound, Archive, ArchiveFile
  <2>4. archives \in Seq(ArchiveFile) /\ tick \in Nat
    BY DEF ScheduleSound
  <2>5. archives' \in Seq(ArchiveFile)
    BY <2>1, <2>3, <2>4, PutFirst
  <2>6. \A i \in DOMAIN archives' : archives'[i].at <= tick
    <3>1. TAKE i \in DOMAIN archives'
    <3>2. \/ i = 1 /\ archives'[i] = Archive(tick, whole)
          \/ i - 1 \in DOMAIN archives /\ archives'[i] = archives[i - 1]
      BY <2>1, <2>3, <2>4, <3>1, PutFirst
    <3> QED  BY <2>3, <2>4, <3>2 DEF ScheduleSound
  <2>7. Waits'
    BY <2>2 DEF Waits, SlotIsMet, Since, ScheduleSound
  <2> QED  BY <2>2, <2>5, <2>6, <2>7 DEF ScheduleSound
<1>3. CASE \E s \in Settings : SetSettings(s)
  <2>1. PICK s \in Settings : SetSettings(s)
    BY <1>3
  <2>2. Since' = tick /\ s.interval \in Nat /\ tick \in Nat
    <3>1. s.interval \in Nat
      BY BackupScheduleAssumption DEF Settings
    <3>2. lastRun' = lastRun /\ steady' = tick
      BY <2>1 DEF SetSettings
    <3> QED  BY <1>0, <3>1, <3>2 DEF Since
  <2>3. Waits'
    BY <2>1, <2>2 DEF Waits, SetSettings
  <2> QED  BY <2>1, <2>3 DEF ScheduleSound, SetSettings
<1>4. CASE StopServer
  BY <1>4 DEF StopServer, ScheduleSound, Waits, SlotIsMet
<1>5. CASE StartServer
  <2>2. Since' = tick /\ settings.interval \in Nat /\ tick \in Nat
    <3>1. settings.interval \in Nat
      BY SinceTyped
    <3>2. lastRun' = lastRun /\ steady' = tick
      BY <1>5 DEF StartServer
    <3> QED  BY <1>0, <3>1, <3>2 DEF Since
  <2>3. Waits'
    BY <1>5, <2>2 DEF Waits, StartServer
  <2> QED  BY <1>5, <2>3 DEF ScheduleSound, StartServer
<1>6. CASE UNCHANGED scheduleVars
  BY <1>6 DEF scheduleVars, ScheduleSound, Waits, SlotIsMet, Since
<1> QED  BY <1>1, <1>2, <1>3, <1>4, <1>5, <1>6 DEF ScheduleNext

LEMMA ScheduleSoundAlways == ScheduleSpec => []ScheduleSound
BY ScheduleSoundInit, ScheduleSoundNext, PTL DEF ScheduleSpec

(* While the server is up and nothing fails, no archive is further than    *)
(* its interval and a day behind the one before, for any day, intervals    *)
(* and stamps that round up, and any time of the day that some check of    *)
(* the day is past (schedule.ts:83-103).                                   *)
THEOREM ArchivesKeepComing == ScheduleSpec => []NoLongGap
<1>1. ScheduleSound => NoLongGap
  <2> SUFFICES ASSUME ScheduleSound, backingUp, settings.interval > 0, SlotIsMet
               PROVE  tick - Since <= settings.interval + DayLength
    BY DEF NoLongGap, Since
  <2>1. Since \in Nat /\ settings.interval \in Nat /\ tick \in Nat
    BY SinceTyped DEF ScheduleSound
  <2>2. DayLength \in Nat \ {0}
    BY BackupScheduleAssumption
  <2>3. tick % DayLength \in 0..(DayLength - 1)
    BY <2>1, <2>2
  <2>4. tick - Since > settings.interval
            => tick - Since - settings.interval <= (tick % DayLength) + 1
    BY DEF ScheduleSound, Waits
  <2> QED  BY <2>1, <2>2, <2>3, <2>4
<1> QED  BY <1>1, ScheduleSoundAlways, PTL

LEMMA RestorableNext ==
  ScheduleSound /\ [ScheduleNext]_scheduleVars => SomethingToRestore
<1> SUFFICES ASSUME ScheduleSound, [ScheduleNext]_scheduleVars,
                    NEW k \in DOMAIN archives, archives[k].whole
             PROVE  WholeBackups' # {}
  BY DEF SomethingToRestore, WholeBackups
<1>1. CASE archives' = archives
  BY <1>1 DEF WholeBackups
<1>2. CASE \/ 1 \in DOMAIN archives' /\ archives'[1].whole
           \/ \A i \in DOMAIN archives : i + 1 \in DOMAIN archives' /\ archives'[i + 1] = archives[i]
  BY <1>2 DEF WholeBackups
<1>3. CASE Check
  <2>1. CASE backingUp /\ IsDue(tick + 1)
    BY <1>2, <1>3, <2>1, RunLeaves DEF Check
  <2> QED  BY <1>1, <1>3, <2>1 DEF Check
<1>4. CASE CreateArchive
  <2>1. PICK whole \in BOOLEAN : archives' = <<Archive(tick, whole)>> \o archives
    BY <1>4 DEF CreateArchive
  <2>2. Archive(tick, whole) \in ArchiveFile /\ archives \in Seq(ArchiveFile)
    BY DEF ScheduleSound, Archive, ArchiveFile
  <2> QED  BY <1>2, <2>1, <2>2, PutFirst
<1>5. CASE (\E s \in Settings : SetSettings(s)) \/ StopServer \/ StartServer
           \/ UNCHANGED scheduleVars
  BY <1>1, <1>5 DEF SetSettings, StopServer, StartServer, scheduleVars
<1> QED  BY <1>3, <1>4, <1>5 DEF ScheduleNext

(* Once there is an archive to restore from there is always one: what is   *)
(* deleted is the end of the list and only after a new one is whole, for   *)
(* any lifetime of archives and any failures (schedule.ts:104-137).        *)
THEOREM SomethingStaysToRestore == ScheduleSpec => [][SomethingToRestore]_scheduleVars
BY ScheduleSoundAlways, RestorableNext, PTL DEF ScheduleSpec

-----------------------------------------------------------------------------
(* Signing in.                                                             *)

SignIns == [at : {"app", "away", "callback", "exchange", "viewer", "done", "failed", "refused"},
            service : Services, account : Holders \cup {"none"}, challenge : Nat,
            verifier : Nat, first : BOOLEAN]
TabStates == [stash : [Services -> Nat], left : SUBSET [service : Services, challenge : Nat],
              latest : [Services -> Nat], signIn : SignIns]

(* A tab that came back from MyAnimeList for the sign-in it started last   *)
(* still holds its verifier, or has handed it over; a sign-in that waits   *)
(* for its profile has an account.                                         *)
TabSound(b) ==
    /\ b.latest[MyAnimeList] # 0 => b.stash[MyAnimeList] = b.latest[MyAnimeList]
    /\ \A g \in b.left : g.service = MyAnimeList => g.challenge # 0
    /\ b.signIn.at = "viewer" => b.signIn.account \in Holders
    /\ b.signIn.at = "refused" => ~b.signIn.first
    /\ b.signIn.service = MyAnimeList =>
          /\ b.signIn.at \notin {"app", "away"} => b.latest[MyAnimeList] = 0
          /\ b.signIn.at = "callback" /\ b.signIn.first
                => b.stash[MyAnimeList] = b.signIn.challenge
          /\ b.signIn.at = "exchange" /\ b.signIn.first
                => b.signIn.verifier = b.signIn.challenge

Grants == [token : Holders, until : Nat, profile : Holders]

SignInSound ==
    /\ instant \in Nat /\ starts \in Nat
    /\ grant \in [Services -> Grants \cup {NoGrant}]
    /\ \A t \in Services : grant[t] # NoGrant => grant[t].profile = grant[t].token
    /\ tab \in [Tabs -> TabStates]
    /\ \A x \in Tabs : TabSound(tab[x])

LEMMA TwoServices == MyAnimeList \in Services /\ AniList \in Services /\ MyAnimeList # AniList
BY DEF Services, MyAnimeList, AniList

LEMMA SignInSoundInit == ServicesInit => SignInSound
<1> SUFFICES ASSUME ServicesInit PROVE SignInSound
  OBVIOUS
<1>1. SignIn("app") \in SignIns /\ SignIn("app").at = "app"
  BY TwoServices DEF SignIn, SignIns
<1>2. \A x \in Tabs : tab[x] = [stash |-> [t \in Services |-> 0], left |-> {},
                              latest |-> [t \in Services |-> 0], signIn |-> SignIn("app")]
  BY DEF ServicesInit
<1>3. \A x \in Tabs : tab[x] \in TabStates /\ TabSound(tab[x])
  <2> TAKE x \in Tabs
  <2>1. /\ tab[x].stash = [t \in Services |-> 0] /\ tab[x].left = {}
        /\ tab[x].latest = [t \in Services |-> 0] /\ tab[x].signIn = SignIn("app")
    BY <1>2
  <2>2. tab[x] \in TabStates
    BY <1>1, <1>2 DEF TabStates
  <2>3. TabSound(tab[x])
    BY <1>1, <2>1, TwoServices DEF TabSound
  <2> QED  BY <2>2, <2>3
<1> QED  BY <1>3 DEF ServicesInit, SignInSound

(* One tab moves.                                                          *)
LEMMA OneTabMoves ==
  ASSUME SignInSound, NEW x \in Tabs, NEW b \in TabStates, TabSound(b),
         tab' = [tab EXCEPT ![x] = b]
  PROVE  tab' \in [Tabs -> TabStates] /\ \A y \in Tabs : TabSound(tab'[y])
BY DEF SignInSound

LEMMA StartSignInSound ==
  ASSUME SignInSound, NEW x \in Tabs, NEW t \in Services, StartTrackerLogin(x, t)
  PROVE  SignInSound'
<1> DEFINE verifier == IF AuthRequiresVerifier(t) THEN starts + 1 ELSE 0
           old == tab[x]
           held == IF verifier = 0 THEN tab[x].stash[t] ELSE verifier
           b == [old EXCEPT
                   !.stash = [@ EXCEPT ![t] = held],
                   !.left = @ \cup {[service |-> t, challenge |-> verifier]},
                   !.latest = [@ EXCEPT ![t] = verifier],
                   !.signIn = SignIn("away")]
<1>1. tab' = [tab EXCEPT ![x] = b]
  <2>1. tab' = [tab EXCEPT
              ![x].stash[t] = held,
              ![x].left = @ \cup {[service |-> t, challenge |-> verifier]},
              ![x].latest[t] = verifier,
              ![x].signIn = SignIn("away")]
    BY DEF StartTrackerLogin, KeyFor
  <2> HIDE DEF held, verifier
  <2> QED  BY <2>1
<1>2. old \in TabStates /\ TabSound(old) /\ starts \in Nat
  BY DEF SignInSound
<1>3. /\ verifier \in Nat
      /\ t = MyAnimeList => verifier # 0 /\ held = verifier
      /\ t # MyAnimeList => held = old.stash[t]
  BY <1>2 DEF AuthRequiresVerifier
<1>4. SignIn("away") \in SignIns /\ SignIn("away").at = "away"
  BY TwoServices DEF SignIn, SignIns
<1> HIDE DEF verifier, held
<1>5. held \in Nat
  BY <1>2, <1>3 DEF TabStates
<1>6. b \in TabStates
  <2> DEFINE stash == [old.stash EXCEPT ![t] = held]
             left == old.left \cup {[service |-> t, challenge |-> verifier]}
             latest == [old.latest EXCEPT ![t] = verifier]
             signIn == SignIn("away")
  <2>1. stash \in [Services -> Nat]
    BY <1>2, <1>5 DEF TabStates
  <2>2. left \in SUBSET [service : Services, challenge : Nat]
    BY <1>2, <1>3 DEF TabStates
  <2>3. latest \in [Services -> Nat]
    BY <1>2, <1>3 DEF TabStates
  <2>4. b = [stash |-> stash, left |-> left, latest |-> latest, signIn |-> signIn]
    <3>1. PICK o1, o2, o3, o4 : old = [stash |-> o1, left |-> o2, latest |-> o3, signIn |-> o4]
      BY <1>2 DEF TabStates
    <3>2. b = [old EXCEPT !.stash = stash, !.left = left, !.latest = latest, !.signIn = signIn]
      OBVIOUS
    <3> HIDE DEF old, b, stash, left, latest, signIn
    <3> QED  BY <3>1, <3>2
  <2> HIDE DEF stash, left, latest, signIn, b
  <2>5. signIn \in SignIns
    BY <1>4 DEF signIn
  <2> QED  BY <2>1, <2>2, <2>3, <2>4, <2>5 DEF TabStates
<1>8. TabSound(b)
  <2>1. /\ b.stash = [old.stash EXCEPT ![t] = held] /\ b.latest = [old.latest EXCEPT ![t] = verifier]
        /\ b.left = old.left \cup {[service |-> t, challenge |-> verifier]}
        /\ b.signIn = SignIn("away")
    BY <1>2 DEF TabStates
  <2>2. /\ b.stash[MyAnimeList] = IF t = MyAnimeList THEN held ELSE old.stash[MyAnimeList]
        /\ b.latest[MyAnimeList] = IF t = MyAnimeList THEN verifier ELSE old.latest[MyAnimeList]
    BY <1>2, <2>1, TwoServices DEF TabStates
  <2> HIDE DEF b, old
  <2>3. b.signIn.at = "away"
    BY <1>4, <2>1
  <2> QED  BY <1>2, <1>3, <2>1, <2>2, <2>3 DEF TabSound
<1>7. UNCHANGED <<grant, instant>> /\ starts' \in Nat
  BY <1>2 DEF StartTrackerLogin, Elsewhere
<1> HIDE DEF b
<1> QED  BY <1>1, <1>6, <1>7, <1>8, OneTabMoves DEF SignInSound

LEMMA AuthorizedSound ==
  ASSUME SignInSound, NEW x \in Tabs, Authorized(x)
  PROVE  SignInSound'
<1> DEFINE old == tab[x]
           s(g, holder) ==
             [SignIn("callback") EXCEPT
                  !.service = g.service, !.challenge = g.challenge, !.account = holder,
                  !.first = (old.latest[g.service] = g.challenge)]
           b(g, holder) ==
             [old EXCEPT !.left = @ \ {g}, !.signIn = s(g, holder),
                         !.latest = [@ EXCEPT ![g.service] = 0]]
<1>1. PICK g \in old.left, holder \in Holders \cup {"none"} :
         tab' = [tab EXCEPT
              ![x].left = @ \ {g},
              ![x].signIn = s(g, holder),
              ![x].latest[g.service] = 0]
  BY DEF Authorized
<1>2. old \in TabStates /\ TabSound(old)
  BY DEF SignInSound
<1>3. g.service \in Services /\ g.challenge \in Nat
  BY <1>2 DEF TabStates
<1>4. tab' = [tab EXCEPT ![x] = b(g, holder)]
  BY <1>1
<1>5. /\ s(g, holder) \in SignIns /\ s(g, holder).at = "callback"
      /\ s(g, holder).service = g.service /\ s(g, holder).challenge = g.challenge
      /\ s(g, holder).first = (old.latest[g.service] = g.challenge)
  BY <1>3, TwoServices DEF SignIn, SignIns
<1> HIDE DEF s
<1>6. b(g, holder) \in TabStates
  BY <1>2, <1>3, <1>5 DEF TabStates
<1>7. TabSound(b(g, holder))
  <2>1. /\ b(g, holder).stash = old.stash /\ b(g, holder).signIn = s(g, holder)
        /\ b(g, holder).left \subseteq old.left
        /\ b(g, holder).latest = [old.latest EXCEPT ![g.service] = 0]
    BY <1>2 DEF TabStates
  <2>2. b(g, holder).latest[MyAnimeList] =
            IF g.service = MyAnimeList THEN 0 ELSE old.latest[MyAnimeList]
    BY <1>2, <1>3, <2>1, TwoServices DEF TabStates
  <2>3. g.service = MyAnimeList => g.challenge # 0
    BY <1>2 DEF TabSound
  <2> HIDE DEF b, old
  <2>4. /\ b(g, holder).signIn.at = "callback"
        /\ b(g, holder).signIn.service = g.service
        /\ b(g, holder).signIn.challenge = g.challenge
        /\ b(g, holder).signIn.first = (old.latest[g.service] = g.challenge)
    BY <1>5, <2>1
  <2> QED  BY <1>2, <2>1, <2>2, <2>3, <2>4 DEF TabSound
<1>8. UNCHANGED <<grant, instant, starts>>
  BY DEF Authorized, Elsewhere
<1> HIDE DEF b
<1> QED  BY <1>4, <1>6, <1>7, <1>8, OneTabMoves DEF SignInSound

LEMMA TakeVerifierSound ==
  ASSUME SignInSound, NEW x \in Tabs, TakeVerifier(x)
  PROVE  SignInSound'
<1> DEFINE old == tab[x]
           t == old.signIn.service
           s == [old.signIn EXCEPT !.verifier = old.stash[t], !.at = "exchange"]
           b == [old EXCEPT !.signIn = s, !.stash = [@ EXCEPT ![t] = 0]]
<1>1. old \in TabStates /\ TabSound(old) /\ old.signIn.at = "callback" /\ old.signIn \in SignIns
  BY DEF SignInSound, TakeVerifier, TabStates
<1>2. tab' = [tab EXCEPT ![x] = b]
  BY DEF TakeVerifier, KeyFor
<1>3. t \in Services
  BY <1>1 DEF SignIns
<1>4. old.stash[t] \in Nat
  BY <1>1, <1>3 DEF TabStates
<1>5. /\ s \in SignIns /\ s.at = "exchange" /\ s.service = t /\ s.verifier = old.stash[t]
      /\ s.challenge = old.signIn.challenge /\ s.first = old.signIn.first
  BY <1>1, <1>4 DEF SignIns
<1> HIDE DEF s
<1>6. b \in TabStates
  BY <1>1, <1>3, <1>5 DEF TabStates
<1>7. TabSound(b)
  BY <1>1, <1>3, <1>5, TwoServices DEF TabStates, TabSound
<1>8. UNCHANGED <<grant, instant, starts>>
  BY DEF TakeVerifier, Elsewhere
<1> HIDE DEF b
<1> QED  BY <1>2, <1>6, <1>7, <1>8, OneTabMoves DEF SignInSound

(* The steps that only move the sign-in of a tab.                          *)
LEMMA EnterSound ==
  ASSUME SignInSound, NEW x \in Tabs, NEW s \in SignIns, Enter(x, s),
         s.at = "viewer" => s.account \in Holders,
         s.at = "refused" => ~s.first,
         s.at = "callback" => ~s.first,
         s.at # "exchange", s.at \notin {"app", "away"},
         s.service = tab[x].signIn.service, tab[x].signIn.at \notin {"app", "away"}
  PROVE  tab' \in [Tabs -> TabStates] /\ \A y \in Tabs : TabSound(tab'[y])
<1> DEFINE b == [tab[x] EXCEPT !.signIn = s]
<1>1. tab[x] \in TabStates /\ TabSound(tab[x])
  BY DEF SignInSound
<1>2. tab' = [tab EXCEPT ![x] = b]
  BY DEF Enter
<1>3. b \in TabStates /\ TabSound(b)
  BY <1>1 DEF TabStates, TabSound
<1> HIDE DEF b
<1> QED  BY <1>2, <1>3, OneTabMoves

LEMMA GrantMoves ==
  ASSUME SignInSound, NEW t \in Services, NEW holder \in Holders,
         grant' = [grant EXCEPT ![t] = SignedInAs(@, holder)]
  PROVE  /\ grant' \in [Services -> Grants \cup {NoGrant}]
         /\ \A u \in Services : grant'[u] # NoGrant => grant'[u].profile = grant'[u].token
<1> DEFINE row == SaveCredential(grant[t], holder)
<1>1. /\ row.token = holder /\ row.until \in Nat
      /\ row = [token |-> holder, until |-> row.until, profile |-> row.profile]
  BY TrackerServicesAssumption DEF SaveCredential, SignInSound
<1>2. row # NoGrant
  BY <1>1, TrackerServicesAssumption DEF NoGrant
<1>3. SignedInAs(grant[t], holder) = [row EXCEPT !.profile = holder]
  BY <1>2 DEF SignedInAs, SaveProfile
<1> HIDE DEF row
<1>4. /\ SignedInAs(grant[t], holder) \in Grants
      /\ SignedInAs(grant[t], holder).profile = SignedInAs(grant[t], holder).token
  BY <1>1, <1>3 DEF Grants
<1> HIDE DEF SignedInAs
<1> QED  BY <1>4 DEF SignInSound

(* The sign-ins keep all this whatever the reader does and the services    *)
(* answer, in as many tabs as there are.                                   *)
LEMMA SignInSoundNext == SignInSound /\ [ServicesNext]_serviceVars => SignInSound'
<1> SUFFICES ASSUME SignInSound, [ServicesNext]_serviceVars PROVE SignInSound'
  OBVIOUS
<1>0. ASSUME NEW x \in Tabs PROVE tab[x].signIn \in SignIns /\ TabSound(tab[x])
  BY DEF SignInSound, TabStates
<1>1. CASE UNCHANGED <<instant, starts, grant, tab>>
  BY <1>1 DEF SignInSound
<1>2. ASSUME NEW x \in Tabs, Reload(x) PROVE SignInSound'
  <2> DEFINE s == [tab[x].signIn EXCEPT !.at = "callback", !.first = FALSE, !.verifier = 0]
  <2>1. s \in SignIns /\ s.at = "callback" /\ s.first = FALSE /\ s.service = tab[x].signIn.service
    BY <1>0 DEF SignIns
  <2>2. Enter(x, s) /\ tab[x].signIn.at \notin {"app", "away"} /\ UNCHANGED <<grant, instant, starts>>
    BY <1>2 DEF Reload, Elsewhere
  <2> HIDE DEF s
  <2> QED  BY <2>1, <2>2, EnterSound DEF SignInSound
<1>3. ASSUME NEW x \in Tabs, NEW at \in {"viewer", "done", "failed", "refused"},
             Enter(x, [tab[x].signIn EXCEPT !.at = at]),
             at = "viewer" => tab[x].signIn.account # "none",
             at = "refused" => ~tab[x].signIn.first,
             tab[x].signIn.at \notin {"app", "away"}
      PROVE  tab' \in [Tabs -> TabStates] /\ \A y \in Tabs : TabSound(tab'[y])
  <2> DEFINE s == [tab[x].signIn EXCEPT !.at = at]
  <2>1. /\ s \in SignIns /\ s.at = at /\ s.first = tab[x].signIn.first
        /\ s.service = tab[x].signIn.service /\ s.account = tab[x].signIn.account
    BY <1>0 DEF SignIns
  <2>2. s.account \in Holders \cup {"none"}
    BY <2>1 DEF SignIns
  <2>3. Enter(x, s)
    BY <1>3
  <2> HIDE DEF s
  <2> QED  BY <1>3, <2>1, <2>2, <2>3, EnterSound
<1>4. ASSUME NEW x \in Tabs, TokenFromCallback(x) PROVE SignInSound'
  <2>1. /\ tab[x].signIn.at = "exchange"
        /\ \/ tab[x].signIn.account # "none" /\ Enter(x, [tab[x].signIn EXCEPT !.at = "viewer"])
           \/ Enter(x, [tab[x].signIn EXCEPT !.at = "failed"])
        /\ UNCHANGED <<grant, instant, starts>>
    BY <1>4 DEF TokenFromCallback, Elsewhere
  <2> QED  BY <1>3, <2>1 DEF SignInSound
<1>5. ASSUME NEW x \in Tabs, ExchangeCode(x) PROVE SignInSound'
  <2>1. /\ tab[x].signIn.at = "exchange" /\ tab[x].signIn.service = MyAnimeList
        /\ \/ tab[x].signIn.account # "none" /\ Enter(x, [tab[x].signIn EXCEPT !.at = "viewer"])
           \/ Enter(x, [tab[x].signIn EXCEPT !.at = "failed"])
           \/ /\ tab[x].signIn.verifier # tab[x].signIn.challenge
              /\ Enter(x, [tab[x].signIn EXCEPT !.at = "refused"])
        /\ UNCHANGED <<grant, instant, starts>>
    BY <1>5 DEF ExchangeCode, Elsewhere
  <2>2. tab[x].signIn.verifier # tab[x].signIn.challenge => ~tab[x].signIn.first
    BY <1>0, <2>1 DEF TabSound, SignIns
  <2> QED  BY <1>3, <2>1, <2>2 DEF SignInSound
<1>6. ASSUME NEW x \in Tabs, LoginTrackerOAuth(x) PROVE SignInSound'
  <2> DEFINE s == tab[x].signIn
  <2>1. s.at = "viewer" /\ s.account \in Holders /\ s.service \in Services
    BY <1>0, <1>6 DEF LoginTrackerOAuth, TabSound, SignIns
  <2>2. UNCHANGED <<instant, starts>>
    BY <1>6 DEF LoginTrackerOAuth, Elsewhere
  <2>3. \/ /\ grant' = [grant EXCEPT ![s.service] = SignedInAs(@, s.account)]
           /\ Enter(x, [s EXCEPT !.at = "done"])
        \/ Enter(x, [s EXCEPT !.at = "failed"]) /\ UNCHANGED grant
    BY <1>6 DEF LoginTrackerOAuth
  <2>4. tab' \in [Tabs -> TabStates] /\ \A y \in Tabs : TabSound(tab'[y])
    BY <1>3, <2>1, <2>3
  <2>5. /\ grant' \in [Services -> Grants \cup {NoGrant}]
        /\ \A u \in Services : grant'[u] # NoGrant => grant'[u].profile = grant'[u].token
    BY <2>1, <2>3, GrantMoves DEF SignInSound
  <2> QED  BY <2>2, <2>4, <2>5 DEF SignInSound
<1>7. ASSUME NEW t \in Services, DeleteCredential(t) PROVE SignInSound'
  BY <1>7 DEF DeleteCredential, Elsewhere, SignInSound
<1>8. CASE TimeGoesOn
  BY <1>8 DEF TimeGoesOn, SignInSound
<1>9. CASE CallService \/ AniListRequest \/ MyAnimeListRequest \/ ListCollection
           \/ UNCHANGED serviceVars
  BY <1>1, <1>9 DEF CallService, AniListRequest, MyAnimeListRequest, ListCollection, serviceVars
<1> QED  BY <1>2, <1>4, <1>5, <1>6, <1>7, <1>8, <1>9, StartSignInSound, AuthorizedSound,
            TakeVerifierSound DEF ServicesNext

LEMMA SignInSoundMeans == SignInSound => ConnectedIsVerified /\ VerifierComesBack
<1> SUFFICES ASSUME SignInSound PROVE ConnectedIsVerified /\ VerifierComesBack
  OBVIOUS
<1>1. VerifierComesBack
  BY DEF SignInSound, TabSound, VerifierComesBack
<1>2. ASSUME NEW t \in Services, TrackerView(t).isLoggedIn
      PROVE  RequireCredential(t) /\ TrackerView(t).user \in Holders
  BY <1>2 DEF TrackerView, RequireCredential, SignInSound, Grants
<1> QED  BY <1>1, <1>2 DEF ConnectedIsVerified, SignInSound

-----------------------------------------------------------------------------
Words == {"", "CURRENT", "COMPLETED", "PAUSED", "DROPPED", "PLANNING", "REPEATING",
          "reading", "completed", "on_hold", "dropped", "plan_to_read"}
ListEntries == [listed : BOOLEAN, word : Words, again : BOOLEAN, progress : Nat]
Views == [status : Nat, last : Nat]

(* The word of a shelf and the shelf of a word.                            *)
LEMMA WordOfShelf ==
  ASSUME NEW n \in 1..6
  PROVE  /\ StatusFromNumber(AniList, n) =
              CASE n = 1 -> "CURRENT" [] n = 2 -> "COMPLETED" [] n = 3 -> "PAUSED"
                [] n = 4 -> "DROPPED" [] n = 5 -> "PLANNING" [] n = 6 -> "REPEATING"
         /\ StatusFromNumber(MyAnimeList, n) =
              CASE n = 1 -> "reading" [] n = 2 -> "completed" [] n = 3 -> "on_hold"
                [] n = 4 -> "dropped" [] n = 5 -> "plan_to_read" [] n = 6 -> "reading"
<1>1. n \in {1, 2, 3, 4, 5, 6}
  OBVIOUS
<1>2. DOMAIN AniListWords = 1..6 /\ DOMAIN MyAnimeListWords = 1..6
  BY DEF AniListWords, MyAnimeListWords
<1>3. /\ StatusFromNumber(AniList, n) = AniListWords[n]
      /\ StatusFromNumber(MyAnimeList, n) = MyAnimeListWords[n]
  BY <1>2, TwoServices DEF StatusFromNumber
<1>4. /\ AniListWords[1] = "CURRENT" /\ AniListWords[2] = "COMPLETED"
      /\ AniListWords[3] = "PAUSED" /\ AniListWords[4] = "DROPPED"
      /\ AniListWords[5] = "PLANNING" /\ AniListWords[6] = "REPEATING"
  BY DEF AniListWords
<1>5. /\ MyAnimeListWords[1] = "reading" /\ MyAnimeListWords[2] = "completed"
      /\ MyAnimeListWords[3] = "on_hold" /\ MyAnimeListWords[4] = "dropped"
      /\ MyAnimeListWords[5] = "plan_to_read" /\ MyAnimeListWords[6] = "reading"
  BY DEF MyAnimeListWords
<1> QED  BY <1>1, <1>3, <1>4, <1>5

LEMMA NoWordOfZero == StatusFromNumber(AniList, 0) = ""
BY DEF StatusFromNumber, AniListWords

LEMMA WordsTyped ==
  ASSUME NEW n \in 0..6
  PROVE  /\ StatusFromNumber(AniList, n) \in Words
         /\ StatusFromNumber(MyAnimeList, n) \in Words
         /\ n # 0 => StatusFromNumber(AniList, n) # ""
<1>1. CASE n = 0
  BY <1>1 DEF StatusFromNumber, AniListWords, MyAnimeListWords, Words
<1>2. CASE n # 0
  <2>1. n \in 1..6 /\ n \in {1, 2, 3, 4, 5, 6}
    BY <1>2
  <2>2. CASE n = 1  BY <2>1, <2>2, WordOfShelf DEF Words
  <2>3. CASE n = 2  BY <2>1, <2>3, WordOfShelf DEF Words
  <2>4. CASE n = 3  BY <2>1, <2>4, WordOfShelf DEF Words
  <2>5. CASE n = 4  BY <2>1, <2>5, WordOfShelf DEF Words
  <2>6. CASE n = 5  BY <2>1, <2>6, WordOfShelf DEF Words
  <2>7. CASE n = 6  BY <2>1, <2>7, WordOfShelf DEF Words
  <2> QED  BY <2>1, <2>2, <2>3, <2>4, <2>5, <2>6, <2>7
<1> QED  BY <1>1, <1>2

Numbers(t, word) == {n \in 1..6 : StatusFromNumber(t, n) = word}

LEMMA StatusTyped ==
  ASSUME NEW t, NEW word PROVE StatusToNumber(t, word) \in Nat
<1>1. CASE Numbers(t, word) = {}
  BY <1>1 DEF StatusToNumber, Numbers
<1>2. CASE Numbers(t, word) # {}
  <2>1. \E n \in Numbers(t, word) : \A k \in Numbers(t, word) : n <= k
    <3>1. CASE 1 \in Numbers(t, word)  BY <3>1 DEF Numbers
    <3>2. CASE 1 \notin Numbers(t, word) /\ 2 \in Numbers(t, word)  BY <3>2 DEF Numbers
    <3>3. CASE {1, 2} \cap Numbers(t, word) = {} /\ 3 \in Numbers(t, word)  BY <3>3 DEF Numbers
    <3>4. CASE {1, 2, 3} \cap Numbers(t, word) = {} /\ 4 \in Numbers(t, word)  BY <3>4 DEF Numbers
    <3>5. CASE {1, 2, 3, 4} \cap Numbers(t, word) = {} /\ 5 \in Numbers(t, word)  BY <3>5 DEF Numbers
    <3>6. CASE {1, 2, 3, 4, 5} \cap Numbers(t, word) = {}  BY <1>2, <3>6 DEF Numbers
    <3> QED  BY <3>1, <3>2, <3>3, <3>4, <3>5, <3>6
  <2>2. StatusToNumber(t, word) = CHOOSE n \in Numbers(t, word) : \A k \in Numbers(t, word) : n <= k
    BY <1>2 DEF StatusToNumber, Numbers
  <2>3. StatusToNumber(t, word) \in Numbers(t, word)
    BY <2>1, <2>2
  <2> QED  BY <2>3 DEF Numbers
<1> QED  BY <1>1, <1>2

LEMMA ShelfOfWord ==
  ASSUME NEW n \in 1..6
  PROVE  /\ StatusToNumber(AniList, StatusFromNumber(AniList, n)) = n
         /\ StatusToNumber(MyAnimeList, StatusFromNumber(MyAnimeList, n)) =
              IF n = 6 THEN 1 ELSE n
<1>1. ASSUME NEW t, NEW word, NEW m \in 1..6, Numbers(t, word) = {m}
      PROVE  StatusToNumber(t, word) = m
  <2>1. Numbers(t, word) # {}
    BY <1>1
  <2>2. StatusToNumber(t, word) = CHOOSE k \in Numbers(t, word) : \A j \in Numbers(t, word) : k <= j
    BY <2>1 DEF StatusToNumber, Numbers
  <2>3. m <= m
    OBVIOUS
  <2> QED  BY <1>1, <2>2, <2>3
<1>2. StatusToNumber(AniList, StatusFromNumber(AniList, n)) = n
  <2>1. Numbers(AniList, StatusFromNumber(AniList, n)) = {n}
    BY WordOfShelf DEF Numbers
  <2> QED  BY <1>1, <2>1
<1>3. CASE n \in 2..5
  <2>1. Numbers(MyAnimeList, StatusFromNumber(MyAnimeList, n)) = {n}
    BY <1>3, WordOfShelf DEF Numbers
  <2> QED  BY <1>1, <1>2, <1>3, <2>1
<1>4. CASE n \in {1, 6}
  <2> DEFINE S == Numbers(MyAnimeList, StatusFromNumber(MyAnimeList, n))
  <2>1. S = {1, 6}
    BY <1>4, WordOfShelf DEF Numbers
  <2>2. StatusToNumber(MyAnimeList, StatusFromNumber(MyAnimeList, n)) =
            CHOOSE k \in S : \A j \in S : k <= j
    BY <2>1 DEF StatusToNumber, Numbers
  <2> HIDE DEF S
  <2>3. (CHOOSE k \in S : \A j \in S : k <= j) = 1
    BY <2>1
  <2> QED  BY <1>2, <1>4, <2>2, <2>3
<1> QED  BY <1>2, <1>3, <1>4

LEMMA EntryTyped ==
  ASSUME NEW t \in Services, NEW e \in ListEntries PROVE EntryFrom(t, e) \in Views
<1>1. e.progress \in Nat
  BY DEF ListEntries
<1> QED  BY <1>1, StatusTyped DEF EntryFrom, AniListEntry, MyAnimeListEntry, Views

(* What an update leaves at the service is what it reported.               *)
LEMMA AniListUpdated ==
  ASSUME NEW e \in ListEntries, NEW halves \in Nat, NEW shelf \in 0..6
  PROVE  LET u == AniListUpdate(e, halves, shelf)
         IN  /\ u \in ListEntries /\ u.listed
             /\ EntryFrom(AniList, u).last = halves \div 2
             /\ shelf # 0 => EntryFrom(AniList, u).status = shelf
             /\ shelf = 0 /\ e.listed => EntryFrom(AniList, u).status = EntryFrom(AniList, e).status
<1> DEFINE word == IF StatusFromNumber(AniList, shelf) # "" THEN StatusFromNumber(AniList, shelf)
                   ELSE IF e.listed THEN e.word ELSE "CURRENT"
           u == AniListUpdate(e, halves, shelf)
<1>1. u = [listed |-> TRUE, again |-> FALSE, progress |-> halves \div 2, word |-> word]
  BY DEF AniListUpdate, WholeChapters
<1>2. word \in Words
  <2>1. StatusFromNumber(AniList, shelf) \in Words
    BY WordsTyped
  <2>2. e.word \in Words /\ "CURRENT" \in Words
    BY DEF ListEntries, Words
  <2> QED  BY <2>1, <2>2
<1>3. halves \div 2 \in Nat
  OBVIOUS
<1>4. /\ shelf # 0 => word = StatusFromNumber(AniList, shelf)
      /\ shelf = 0 /\ e.listed => word = e.word
  <2>1. shelf # 0 => StatusFromNumber(AniList, shelf) # ""
    BY WordsTyped
  <2>2. shelf = 0 => StatusFromNumber(AniList, shelf) = ""
    BY NoWordOfZero
  <2> QED  BY <2>1, <2>2
<1> HIDE DEF word
<1>5. u \in ListEntries /\ u.listed
  BY <1>1, <1>2, <1>3 DEF ListEntries
<1>6. EntryFrom(AniList, u) = [status |-> StatusToNumber(AniList, word), last |-> halves \div 2]
  BY <1>1 DEF EntryFrom, AniListEntry
<1>7. EntryFrom(AniList, e).status = StatusToNumber(AniList, e.word)
  BY DEF EntryFrom, AniListEntry
<1> HIDE DEF u
<1>8. shelf # 0 => StatusToNumber(AniList, word) = shelf
  BY <1>4, ShelfOfWord
<1> QED  BY <1>4, <1>5, <1>6, <1>7, <1>8 DEF u

LEMMA MyAnimeListUpdated ==
  ASSUME NEW e \in ListEntries, NEW halves \in Nat, NEW shelf \in 0..6
  PROVE  LET u == MyAnimeListUpdate(e, halves, shelf)
         IN  /\ u \in ListEntries /\ u.listed
             /\ EntryFrom(MyAnimeList, u).last = halves \div 2
             /\ shelf # 0 => EntryFrom(MyAnimeList, u).status = shelf
             /\ shelf = 0 /\ e.listed =>
                   EntryFrom(MyAnimeList, u).status = EntryFrom(MyAnimeList, e).status
<1> DEFINE word == IF shelf # 0 THEN StatusFromNumber(MyAnimeList, shelf)
                   ELSE IF e.listed THEN e.word ELSE "reading"
           again == IF shelf = 0 THEN e.again ELSE shelf = 6
           u == MyAnimeListUpdate(e, halves, shelf)
<1>1. u = [listed |-> TRUE, progress |-> halves \div 2, again |-> again, word |-> word]
  BY DEF MyAnimeListUpdate, WholeChapters, Again
<1>2. word \in Words /\ again \in BOOLEAN
  <2>1. StatusFromNumber(MyAnimeList, shelf) \in Words
    BY WordsTyped
  <2>2. e.word \in Words /\ "reading" \in Words /\ e.again \in BOOLEAN
    BY DEF ListEntries, Words
  <2> QED  BY <2>1, <2>2
<1>3. halves \div 2 \in Nat
  OBVIOUS
<1>4. /\ shelf # 0 => word = StatusFromNumber(MyAnimeList, shelf) /\ (again <=> shelf = 6)
      /\ shelf = 0 /\ e.listed => word = e.word /\ again = e.again
  OBVIOUS
<1> HIDE DEF word, again
<1>5. u \in ListEntries /\ u.listed
  BY <1>1, <1>2, <1>3 DEF ListEntries
<1> DEFINE status(w, a) == LET s == StatusToNumber(MyAnimeList, w)
                           IN  IF s = 1 /\ a THEN 6 ELSE s
<1>6. EntryFrom(MyAnimeList, u) = [status |-> status(word, again), last |-> halves \div 2]
  BY <1>1, TwoServices DEF EntryFrom, MyAnimeListEntry
<1>7. EntryFrom(MyAnimeList, e).status = status(e.word, e.again)
  BY TwoServices DEF EntryFrom, MyAnimeListEntry
<1> HIDE DEF u
<1>8. shelf # 0 => status(word, again) = shelf
  BY <1>4, ShelfOfWord
<1> HIDE DEF status
<1> QED  BY <1>4, <1>5, <1>6, <1>7, <1>8 DEF u

-----------------------------------------------------------------------------
(* The calls.                                                              *)

Inquiries == [op : {"find", "delete", "update"}, service : Services, at : {"sent", "answered"},
              step : {1, 2}, attempt : Nat, slept : Nat, halves : Nat, shelf : 0..6,
              before : ListEntries, did : Nat, lost : BOOLEAN,
              result : {"none", "error", "true", "false", "null", "entry"}, entry : Views]

(* Until it is answered a call has changed nothing; when it is, it says    *)
(* what became of it.                                                      *)
CallsSound ==
    /\ kept \in [Services -> ListEntries]
    /\ \A t \in Services : kept[t].listed \/ kept[t] = Unlisted
    /\ \/ inquiry = NoInquiry
       \/ inquiry.op = "import" /\ inquiry.at = "answered"
       \/ inquiry \in Inquiries
    /\ inquiry \in Inquiries /\ inquiry.at = "sent" =>
          /\ inquiry.did = 0 /\ kept[inquiry.service] = inquiry.before
          /\ inquiry.op = "find" /\ inquiry.step = 2 => ~inquiry.before.listed \/ inquiry.lost
    /\ CallsDoWhatTheySay

LEMMA UnlistedTyped == Unlisted \in ListEntries /\ ~Unlisted.listed
BY DEF Unlisted, ListEntries, Words

LEMMA CallsSoundInit == ServicesInit => CallsSound
<1> SUFFICES ASSUME ServicesInit PROVE CallsSound
  OBVIOUS
<1>1. inquiry = NoInquiry /\ kept = [t \in Services |-> Unlisted]
  BY DEF ServicesInit
<1>2. inquiry.op = "none"
  BY <1>1 DEF NoInquiry
<1>3. inquiry \notin Inquiries
  BY <1>2 DEF Inquiries
<1> QED  BY <1>1, <1>2, <1>3, UnlistedTyped DEF CallsSound, CallsDoWhatTheySay

(* How a call ends: its outcome agrees with what is kept.                  *)
LEMMA CallAnswered ==
  ASSUME CallsSound, inquiry \in Inquiries, NEW c \in Inquiries, inquiry' = c,
         kept' \in [Services -> ListEntries],
         \A t \in Services : kept'[t].listed \/ kept'[t] = Unlisted,
         c.at = "answered",
         LET now == kept'[c.service]
             shown == EntryFrom(c.service, now)
             was == EntryFrom(c.service, c.before)
         IN  /\ c.did <= 1
             /\ c.did = 0 => now = c.before
             /\ c.op = "update" /\ c.result = "true" /\ ~(c.service = MyAnimeList /\ c.did = 0) =>
                   /\ shown.last = c.halves \div 2
                   /\ c.shelf # 0 => shown.status = c.shelf
                   /\ c.shelf = 0 /\ c.before.listed => shown.status = was.status
             /\ c.op = "delete" /\ c.result \in {"true", "false"} => ~now.listed \/ c.lost
             /\ c.result = "entry" => c.entry = shown \/ c.lost
  PROVE  CallsSound'
BY DEF CallsSound, CallsDoWhatTheySay, Missed

LEMMA CallGoesOn ==
  ASSUME CallsSound, NEW c \in Inquiries, inquiry' = c, UNCHANGED kept,
         c.at = "sent", c.did = 0, kept[c.service] = c.before,
         c.op = "find" /\ c.step = 2 => ~c.before.listed \/ c.lost
  PROVE  CallsSound'
BY DEF CallsSound, CallsDoWhatTheySay, Missed

LEMMA SentTyped ==
  ASSUME CallsSound, NEW t \in Services, Sent(t)
  PROVE  /\ inquiry \in Inquiries /\ inquiry.at = "sent" /\ inquiry.service = t
         /\ inquiry.did = 0 /\ inquiry.before = kept[t] /\ kept[t] \in ListEntries
         /\ kept[t].listed \/ kept[t] = Unlisted
         /\ inquiry.op = "find" /\ inquiry.step = 2 => ~kept[t].listed \/ inquiry.lost
BY DEF CallsSound, Sent

(* A call that comes to nothing: an error, or no entry to be had.          *)
LEMMA ResultSound ==
  ASSUME CallsSound, NEW t \in Services, Sent(t), UNCHANGED kept,
         NEW r \in {"error", "null"}, Result(r)
  PROVE  CallsSound'
<1> DEFINE c == [inquiry EXCEPT !.at = "answered", !.result = r]
<1>1. inquiry \in Inquiries /\ inquiry.did = 0 /\ inquiry.before = kept[t] /\ inquiry.service = t
  BY SentTyped
<1>2. /\ c \in Inquiries /\ c.at = "answered" /\ c.result = r /\ c.did = 0
      /\ c.before = kept[t] /\ c.service = t
  BY <1>1 DEF Inquiries
<1>3. inquiry' = c
  BY DEF Result
<1> HIDE DEF c
<1> QED  BY <1>1, <1>2, <1>3, CallAnswered DEF CallsSound

LEMMA FoundSound ==
  ASSUME CallsSound, NEW t \in Services, Sent(t), UNCHANGED kept, NEW e \in ListEntries,
         Found(e), e = kept[t] \/ inquiry.lost, inquiry.op = "find"
  PROVE  CallsSound'
<1> DEFINE v == EntryFrom(inquiry.service, e)
           c == [inquiry EXCEPT !.at = "answered", !.result = "entry", !.entry = v]
<1>1. inquiry \in Inquiries /\ inquiry.did = 0 /\ inquiry.before = kept[t] /\ inquiry.service = t
  BY SentTyped
<1>2. v \in Views
  BY <1>1, EntryTyped
<1>3. inquiry' = c
  BY DEF Found
<1> HIDE DEF v
<1>4. /\ c \in Inquiries /\ c.at = "answered" /\ c.result = "entry" /\ c.entry = v /\ c.did = 0
      /\ c.before = kept[t] /\ c.service = t /\ c.lost = inquiry.lost /\ c.op = "find"
  BY <1>1, <1>2 DEF Inquiries
<1> HIDE DEF c
<1> QED  BY <1>1, <1>3, <1>4, CallAnswered DEF CallsSound, v

(* A change the service made, whether or not its answer arrives.           *)
Reported(t, e) ==
    /\ inquiry.op = "delete" => ~e.listed
    /\ inquiry.op = "update" =>
          /\ EntryFrom(t, e).last = inquiry.halves \div 2
          /\ inquiry.shelf # 0 => EntryFrom(t, e).status = inquiry.shelf
          /\ inquiry.shelf = 0 /\ kept[t].listed =>
                EntryFrom(t, e).status = EntryFrom(t, kept[t]).status

LEMMA ChangeSound ==
  ASSUME CallsSound, NEW t \in Services, Sent(t), NEW e \in ListEntries,
         e.listed \/ e = Unlisted, kept' = [kept EXCEPT ![t] = e], Reported(t, e),
         NEW r \in {"true", "error"},
         inquiry' = [inquiry EXCEPT !.at = "answered", !.did = @ + 1, !.result = r]
  PROVE  CallsSound'
<1> DEFINE c == [inquiry EXCEPT !.at = "answered", !.did = 1, !.result = r]
<1>1. inquiry \in Inquiries /\ inquiry.did = 0 /\ inquiry.before = kept[t] /\ inquiry.service = t
  BY SentTyped
<1>0. inquiry' = c
  <2>1. inquiry.did + 1 = 1
    BY <1>1
  <2> QED  BY <2>1
<1>2. /\ c \in Inquiries /\ c.at = "answered" /\ c.result = r /\ c.did = 1
      /\ c.before = kept[t] /\ c.service = t /\ c.op = inquiry.op
      /\ c.halves = inquiry.halves /\ c.shelf = inquiry.shelf
  BY <1>1 DEF Inquiries
<1>3. /\ kept' \in [Services -> ListEntries] /\ kept'[t] = e
      /\ \A u \in Services : kept'[u].listed \/ kept'[u] = Unlisted
  BY DEF CallsSound
<1> HIDE DEF c
<1>4. /\ c.did <= 1 /\ c.did # 0 /\ c.result # "entry"
      /\ kept'[c.service] = e /\ EntryFrom(c.service, c.before) = EntryFrom(t, kept[t])
  BY <1>2, <1>3
<1>5. /\ c.op = "delete" => ~e.listed
      /\ c.op = "update" =>
            /\ EntryFrom(c.service, e).last = c.halves \div 2
            /\ c.shelf # 0 => EntryFrom(c.service, e).status = c.shelf
            /\ c.shelf = 0 /\ c.before.listed =>
                  EntryFrom(c.service, e).status = EntryFrom(c.service, c.before).status
  BY <1>2 DEF Reported
<1> QED  BY <1>0, <1>1, <1>2, <1>3, <1>4, <1>5, CallAnswered

LEMMA WrittenSound ==
  ASSUME CallsSound, NEW t \in Services, Sent(t), NEW e \in ListEntries,
         e.listed \/ e = Unlisted, Written(t, e), Reported(t, e)
  PROVE  CallsSound'
BY ChangeSound DEF Written

LEMMA LostSound ==
  ASSUME CallsSound, NEW t \in Services, Sent(t), NEW e \in ListEntries,
         e.listed \/ e = Unlisted, AnswerLost, kept' = [kept EXCEPT ![t] = e], Reported(t, e)
  PROVE  CallsSound'
<1>1. inquiry' = [inquiry EXCEPT !.at = "answered", !.did = @ + 1, !.result = "error"]
  <2>1. inquiry \in Inquiries
    BY SentTyped
  <2> QED  BY <2>1 DEF AnswerLost, Inquiries
<1>2. "error" \in {"true", "error"}
  OBVIOUS
<1>3. kept' = [kept EXCEPT ![t] = e] /\ (e.listed \/ e = Unlisted) /\ Reported(t, e)
  OBVIOUS
<1> HIDE DEF ListEntries
<1> QED  BY ONLY CallsSound, t \in Services, Sent(t), e \in ListEntries, <1>1, <1>2, <1>3, ChangeSound

(* An error of AniList's: the call ends, or the title itself is asked for. *)
LEMMA FailsSound ==
  ASSUME CallsSound, Sent(AniList), UNCHANGED kept, NEW unreached \in BOOLEAN,
         AniListFails(unreached), unreached \/ ~kept[AniList].listed
  PROVE  CallsSound'
<1>1. /\ inquiry \in Inquiries /\ inquiry.did = 0 /\ inquiry.before = kept[AniList]
      /\ inquiry.service = AniList /\ inquiry.at = "sent" /\ AniList \in Services
  BY SentTyped, TwoServices
<1>2. CASE inquiry.step = 1 /\ inquiry.op = "find"
  <2> DEFINE lost == inquiry.lost \/ unreached
             c == [inquiry EXCEPT !.step = 2, !.attempt = 1, !.lost = lost]
  <2>1. inquiry' = c
    BY <1>2 DEF AniListFails
  <2>3. lost \in BOOLEAN
    OBVIOUS
  <2> HIDE DEF lost
  <2>2. /\ c \in Inquiries /\ c.at = "sent" /\ c.did = 0 /\ c.before = kept[AniList]
        /\ c.service = AniList /\ c.lost = lost
    BY <1>1, <2>3 DEF Inquiries
  <2> HIDE DEF c
  <2> QED  BY <1>1, <2>1, <2>2, CallGoesOn DEF lost
<1>3. CASE inquiry.step = 1 /\ inquiry.op = "delete"
  <2> DEFINE c == [inquiry EXCEPT !.at = "answered", !.result = "false", !.lost = unreached]
  <2>1. inquiry' = c
    BY <1>3 DEF AniListFails
  <2>2. /\ c \in Inquiries /\ c.at = "answered" /\ c.did = 0 /\ c.before = kept[AniList]
        /\ c.service = AniList /\ c.lost = unreached /\ c.op = "delete" /\ c.result = "false"
    BY <1>1, <1>3 DEF Inquiries
  <2> HIDE DEF c
  <2> QED  BY <1>1, <2>1, <2>2, CallAnswered DEF CallsSound
<1>4. CASE ~(inquiry.step = 1 /\ inquiry.op \in {"find", "delete"})
  <2>1. Result("error")
    BY <1>4 DEF AniListFails
  <2> QED  BY <1>1, <2>1, ResultSound
<1> QED  BY <1>2, <1>3, <1>4

LEMMA LimitedSound ==
  ASSUME CallsSound, Sent(AniList), UNCHANGED kept, RateLimited
  PROVE  CallsSound'
<1>1. /\ inquiry \in Inquiries /\ inquiry.did = 0 /\ inquiry.before = kept[AniList]
      /\ inquiry.service = AniList /\ inquiry.at = "sent"
      /\ inquiry.op = "find" /\ inquiry.step = 2 => ~kept[AniList].listed \/ inquiry.lost
  BY SentTyped, TwoServices
<1>2. CASE AniListFails(TRUE)
  BY <1>2, FailsSound
<1>3. ASSUME NEW said \in Pauses,
             inquiry' = [inquiry EXCEPT !.attempt = @ + 1,
                                        !.slept = @ + (IF said > 0 THEN said ELSE FallbackPause)]
      PROVE  CallsSound'
  <2> DEFINE pause == IF said > 0 THEN said ELSE FallbackPause
             c == [inquiry EXCEPT !.attempt = @ + 1, !.slept = @ + pause]
  <2>1. pause \in Nat
    BY TrackerServicesAssumption
  <2>2. inquiry' = c
    BY <1>3
  <2> HIDE DEF pause
  <2>3. inquiry.attempt + 1 \in Nat /\ inquiry.slept + pause \in Nat
    BY <1>1, <2>1 DEF Inquiries
  <2>4. /\ c \in Inquiries /\ c.at = "sent" /\ c.did = 0 /\ c.before = kept[AniList]
        /\ c.service = AniList /\ c.op = inquiry.op /\ c.step = inquiry.step
        /\ c.lost = inquiry.lost
    BY <1>1, <2>3 DEF Inquiries
  <2> HIDE DEF c
  <2> QED  BY <1>1, <2>2, <2>4, CallGoesOn
<1> QED  BY <1>2, <1>3 DEF RateLimited

LEMMA AniListRequestSound == ASSUME CallsSound, AniListRequest PROVE CallsSound'
<1> DEFINE e == kept[AniList]
<1>1. /\ Sent(AniList) /\ AniList \in Services
      /\ inquiry \in Inquiries /\ inquiry.did = 0 /\ inquiry.before = e
      /\ inquiry.service = AniList /\ inquiry.at = "sent" /\ e \in ListEntries
      /\ e.listed \/ e = Unlisted
      /\ inquiry.op = "find" /\ inquiry.step = 2 => ~e.listed \/ inquiry.lost
  BY SentTyped, TwoServices DEF AniListRequest
<1>2. inquiry.halves \in Nat /\ inquiry.shelf \in 0..6
  BY <1>1 DEF Inquiries
<1>3. CASE (RateLimited \/ AniListFails(TRUE)) /\ UNCHANGED kept
  BY <1>1, <1>3, LimitedSound, FailsSound
<1>4. CASE inquiry.op = "find" /\ AniListFindEntry(e)
  <2>1. UNCHANGED kept
    BY <1>4 DEF AniListFindEntry
  <2>2. CASE inquiry.step = 1 /\ ~e.listed /\ AniListFails(FALSE)
    BY <1>1, <2>1, <2>2, FailsSound
  <2>3. CASE Found(e)
    BY <1>1, <1>4, <2>1, <2>3, FoundSound
  <2>4. CASE inquiry.step = 2 /\ Found(Unlisted)
    <3>1. Unlisted = e \/ inquiry.lost
      BY <1>1, <1>4, <2>4
    <3> QED  BY <1>1, <1>4, <2>1, <2>4, <3>1, FoundSound, UnlistedTyped
  <2> QED  BY <1>4, <2>2, <2>3, <2>4 DEF AniListFindEntry
<1>5. CASE inquiry.op = "delete" /\ AniListDeleteEntry(e)
  <2>1. Reported(AniList, Unlisted)
    BY <1>5, UnlistedTyped DEF Reported
  <2>2. CASE inquiry.step = 1 /\ ~e.listed /\ AniListFails(FALSE) /\ UNCHANGED kept
    BY <1>1, <2>2, FailsSound
  <2>3. CASE inquiry' = [inquiry EXCEPT !.step = 2, !.attempt = 1] /\ UNCHANGED kept
    <3> DEFINE c == [inquiry EXCEPT !.step = 2, !.attempt = 1]
    <3>1. /\ c \in Inquiries /\ c.at = "sent" /\ c.did = 0 /\ c.before = e
          /\ c.service = AniList /\ c.op = "delete"
      BY <1>1, <1>5 DEF Inquiries
    <3>2. inquiry' = c
      BY <2>3
    <3> HIDE DEF c
    <3> QED  BY <2>3, <3>1, <3>2, CallGoesOn
  <2>4. CASE Written(AniList, Unlisted)
    BY <1>1, <2>1, <2>4, UnlistedTyped, WrittenSound
  <2>5. CASE AnswerLost /\ kept' = [kept EXCEPT ![AniList] = Unlisted]
    BY <1>1, <2>1, <2>5, UnlistedTyped, LostSound
  <2> QED  BY <1>5, <2>2, <2>3, <2>4, <2>5 DEF AniListDeleteEntry
<1>6. CASE inquiry.op = "update" /\ AniListUpdateProgress(e)
  <2> DEFINE u == AniListUpdate(e, inquiry.halves, inquiry.shelf)
  <2>1. /\ u \in ListEntries /\ u.listed
        /\ EntryFrom(AniList, u).last = inquiry.halves \div 2
        /\ inquiry.shelf # 0 => EntryFrom(AniList, u).status = inquiry.shelf
        /\ inquiry.shelf = 0 /\ e.listed => EntryFrom(AniList, u).status = EntryFrom(AniList, e).status
    <3> DEFINE h == inquiry.halves
               s == inquiry.shelf
    <3>1. h \in Nat /\ s \in 0..6 /\ e \in ListEntries
      BY <1>1, <1>2
    <3> HIDE DEF h, s, e
    <3>2. LET w == AniListUpdate(e, h, s)
          IN  /\ w \in ListEntries /\ w.listed
              /\ EntryFrom(AniList, w).last = h \div 2
              /\ s # 0 => EntryFrom(AniList, w).status = s
              /\ s = 0 /\ e.listed => EntryFrom(AniList, w).status = EntryFrom(AniList, e).status
      BY <3>1, AniListUpdated
    <3> QED  BY <3>2 DEF h, s
  <2>2. \/ Written(AniList, u)
        \/ AnswerLost /\ kept' = [kept EXCEPT ![AniList] = u]
    BY <1>6 DEF AniListUpdateProgress
  <2> HIDE DEF u
  <2>3. Reported(AniList, u)
    BY <1>6, <2>1 DEF Reported
  <2> QED  BY <1>1, <2>1, <2>2, <2>3, WrittenSound, LostSound
<1> QED  BY <1>3, <1>4, <1>5, <1>6 DEF AniListRequest

LEMMA MyAnimeListRequestSound == ASSUME CallsSound, MyAnimeListRequest PROVE CallsSound'
<1> DEFINE e == kept[MyAnimeList]
<1>1. /\ Sent(MyAnimeList) /\ MyAnimeList \in Services
      /\ inquiry \in Inquiries /\ inquiry.did = 0 /\ inquiry.before = e
      /\ inquiry.service = MyAnimeList /\ inquiry.at = "sent" /\ e \in ListEntries
  BY SentTyped, TwoServices DEF MyAnimeListRequest
<1>2. inquiry.halves \in Nat /\ inquiry.shelf \in 0..6
  BY <1>1 DEF Inquiries
<1>3. CASE inquiry.op = "find" /\ MyAnimeListFindEntry(e)
  BY <1>1, <1>3, FoundSound, ResultSound DEF MyAnimeListFindEntry
<1>4. CASE inquiry.op = "delete" /\ MyAnimeListDeleteEntry(e)
  <2>1. CASE Written(MyAnimeList, Unlisted)
    <3>1. Reported(MyAnimeList, Unlisted)
      BY <1>4, UnlistedTyped DEF Reported
    <3> QED  BY <1>1, <2>1, <3>1, UnlistedTyped, WrittenSound
  <2>2. CASE ~e.listed /\ Result("false") /\ UNCHANGED kept
    <3> DEFINE c == [inquiry EXCEPT !.at = "answered", !.result = "false"]
    <3>1. inquiry' = c
      BY <2>2 DEF Result
    <3>2. /\ c \in Inquiries /\ c.at = "answered" /\ c.did = 0 /\ c.before = e
          /\ c.service = MyAnimeList /\ c.op = "delete" /\ c.result = "false"
      BY <1>1, <1>4 DEF Inquiries
    <3> HIDE DEF c
    <3> QED  BY <1>1, <2>2, <3>1, <3>2, CallAnswered DEF CallsSound
  <2> QED  BY <1>4, <2>1, <2>2 DEF MyAnimeListDeleteEntry
<1>5. CASE /\ inquiry.op = "update"
           /\ Written(MyAnimeList, MyAnimeListUpdate(e, inquiry.halves, inquiry.shelf))
  <2> DEFINE u == MyAnimeListUpdate(e, inquiry.halves, inquiry.shelf)
  <2>1. /\ u \in ListEntries /\ u.listed
        /\ EntryFrom(MyAnimeList, u).last = inquiry.halves \div 2
        /\ inquiry.shelf # 0 => EntryFrom(MyAnimeList, u).status = inquiry.shelf
        /\ inquiry.shelf = 0 /\ e.listed =>
              EntryFrom(MyAnimeList, u).status = EntryFrom(MyAnimeList, e).status
    <3> DEFINE h == inquiry.halves
               s == inquiry.shelf
    <3>1. h \in Nat /\ s \in 0..6 /\ e \in ListEntries
      BY <1>1, <1>2
    <3> HIDE DEF h, s, e
    <3>2. LET w == MyAnimeListUpdate(e, h, s)
          IN  /\ w \in ListEntries /\ w.listed
              /\ EntryFrom(MyAnimeList, w).last = h \div 2
              /\ s # 0 => EntryFrom(MyAnimeList, w).status = s
              /\ s = 0 /\ e.listed => EntryFrom(MyAnimeList, w).status = EntryFrom(MyAnimeList, e).status
      BY <3>1, MyAnimeListUpdated
    <3> QED  BY <3>2 DEF h, s
  <2>2. Written(MyAnimeList, u)
    BY <1>5
  <2> HIDE DEF u
  <2>3. Reported(MyAnimeList, u)
    BY <1>5, <2>1 DEF Reported
  <2> QED  BY <1>1, <2>1, <2>2, <2>3, WrittenSound
<1>7. CASE inquiry.op = "update" /\ Result("true") /\ UNCHANGED kept
  <2> DEFINE c == [inquiry EXCEPT !.at = "answered", !.result = "true"]
  <2>1. inquiry' = c
    BY <1>7 DEF Result
  <2>2. /\ c \in Inquiries /\ c.at = "answered" /\ c.did = 0 /\ c.before = e
        /\ c.service = MyAnimeList /\ c.op = "update" /\ c.result = "true"
    BY <1>1, <1>7 DEF Inquiries
  <2> HIDE DEF c
  <2> QED  BY <1>1, <1>7, <2>1, <2>2, CallAnswered DEF CallsSound
<1>6. CASE Result("error") /\ UNCHANGED kept
  BY <1>1, <1>6, ResultSound
<1> QED  BY <1>3, <1>4, <1>5, <1>6, <1>7 DEF MyAnimeListRequest, MyAnimeListUpdateProgress

LEMMA CallServiceSound == ASSUME CallsSound, CallService PROVE CallsSound'
<1>1. ASSUME NEW t \in Services, NEW op \in {"find", "delete", "update"},
             NEW halves \in Nat, NEW shelf \in 0..6, Inquire(t, op, halves, shelf)
      PROVE  CallsSound'
  <2> DEFINE v == EntryFrom(t, Unlisted)
             c == [op |-> op, service |-> t, at |-> "sent", step |-> 1, attempt |-> 1,
                   slept |-> 0, halves |-> halves, shelf |-> shelf, before |-> kept[t],
                   did |-> 0, lost |-> FALSE, result |-> "none", entry |-> v]
  <2>1. kept[t] \in ListEntries /\ v \in Views
    BY UnlistedTyped, EntryTyped DEF CallsSound
  <2>2. inquiry' = c
    BY <1>1 DEF Inquire
  <2>3. UNCHANGED kept
    BY DEF CallService
  <2> HIDE DEF v
  <2>4. c \in Inquiries
    BY <2>1 DEF Inquiries
  <2>5. /\ c.at = "sent" /\ c.did = 0 /\ c.before = kept[t] /\ c.service = t /\ c.step = 1
    OBVIOUS
  <2> HIDE DEF c
  <2>6. c.step # 2
    BY <2>5
  <2> QED  BY <2>2, <2>3, <2>4, <2>5, <2>6, CallGoesOn
<1>2. \E t \in Services, op \in {"find", "delete", "update"}, halves \in Nat, shelf \in 0..6 :
         Inquire(t, op, halves, shelf)
  <2>1. 0 \in Nat /\ 0 \in 0..6 /\ Halves \subseteq Nat
    BY TrackerServicesAssumption
  <2> QED  BY <2>1 DEF CallService
<1> QED  BY <1>1, <1>2

(* Calls to the services keep all this, whatever they answer and in        *)
(* whatever order, with any pauses and any number of attempts.             *)
LEMMA CallsSoundNext == CallsSound /\ [ServicesNext]_serviceVars => CallsSound'
<1> SUFFICES ASSUME CallsSound, [ServicesNext]_serviceVars PROVE CallsSound'
  OBVIOUS
<1>1. CASE UNCHANGED <<kept, inquiry>>
  BY <1>1 DEF CallsSound, CallsDoWhatTheySay, Missed
<1>2. CASE ListCollection
  <2>1. kept' = kept /\ inquiry'.op = "import" /\ inquiry'.at = "answered"
    BY <1>2 DEF ListCollection
  <2>2. inquiry' \notin Inquiries
    BY <2>1 DEF Inquiries
  <2> QED  BY <2>1, <2>2 DEF CallsSound, CallsDoWhatTheySay
<1>3. ASSUME NEW x \in Tabs, \/ \E t \in Services : StartTrackerLogin(x, t)
                            \/ Authorized(x) \/ TakeVerifier(x) \/ Reload(x)
                            \/ TokenFromCallback(x) \/ ExchangeCode(x) \/ LoginTrackerOAuth(x)
      PROVE  CallsSound'
  BY <1>1, <1>3 DEF StartTrackerLogin, Authorized, TakeVerifier, Reload, TokenFromCallback,
     ExchangeCode, LoginTrackerOAuth, Elsewhere
<1>4. CASE (\E t \in Services : DeleteCredential(t)) \/ TimeGoesOn \/ UNCHANGED serviceVars
  BY <1>1, <1>4 DEF DeleteCredential, Elsewhere, TimeGoesOn, serviceVars
<1> QED  BY <1>2, <1>3, <1>4, CallServiceSound, AniListRequestSound, MyAnimeListRequestSound
         DEF ServicesNext

(* "Connected" means a token that works, shown under the name of the       *)
(* account it belongs to, for any tabs, accounts and sign-ins that overlap *)
(* (track.ts:149-152, credentials.ts).                                     *)
THEOREM ConnectedStaysVerified == ServicesSpec => []ConnectedIsVerified
<1> QED  BY SignInSoundInit, SignInSoundNext, SignInSoundMeans, PTL DEF ServicesSpec

(* Who comes back from MyAnimeList for the sign-in started last in a tab   *)
(* finds its verifier, whatever was signed in to between (oauth.ts:5-11).  *)
THEOREM VerifiersComeBack == ServicesSpec => []VerifierComesBack
<1> QED  BY SignInSoundInit, SignInSoundNext, SignInSoundMeans, PTL DEF ServicesSpec

(* A service changes what it keeps once a call at most and what is         *)
(* answered is what became of it, for any pauses and number of attempts,   *)
(* wherever an answer is lost (anilist.ts, myanimelist.ts).                *)
THEOREM CallsStayTrue == ServicesSpec => []CallsDoWhatTheySay
<1>1. CallsSound => CallsDoWhatTheySay
  BY DEF CallsSound
<1> QED  BY <1>1, CallsSoundInit, CallsSoundNext, PTL DEF ServicesSpec

(* The three together are an account's use of the services.                *)
THEOREM ServicesWellUsed == ServicesSpec => []ServicesAreUsed
<1>1. ConnectedIsVerified /\ VerifierComesBack /\ CallsDoWhatTheySay => ServicesAreUsed
  BY DEF ServicesAreUsed
<1> QED  BY <1>1, ConnectedStaysVerified, VerifiersComeBack, CallsStayTrue, PTL

-----------------------------------------------------------------------------
(* The types of the services.                                              *)

(* What is kept of a title is what one of the reports said of it, and a    *)
(* call has waited for the attempts it has behind it, of both its steps.   *)
Progress == {0} \cup {WholeChapters(n) : n \in Halves}
Waited(step, attempt) ==
    (IF step = 2 THEN (Tries - 1) * LongestPause ELSE 0) + (attempt - 1) * LongestPause
ServicesTyped ==
    /\ instant \in 0..LastInstant /\ starts \in 0..MaxStarts
    /\ \A x \in Tabs, t \in Services : tab[x].stash[t] <= MaxStarts
    /\ \A t \in Services : kept[t].progress \in Progress
    /\ inquiry \in Inquiries =>
          /\ inquiry.attempt \in 1..Tries
          /\ inquiry.slept <= Waited(inquiry.step, inquiry.attempt)
          /\ inquiry.op = "update" => inquiry.halves \in Halves

LEMMA ServicesTypedInit == ServicesInit => ServicesTyped
<1> SUFFICES ASSUME ServicesInit PROVE ServicesTyped
  OBVIOUS
<1>1. inquiry \notin Inquiries
  BY DEF ServicesInit, NoInquiry, Inquiries
<1>2. \A x \in Tabs, t \in Services : tab[x].stash[t] = 0
  BY DEF ServicesInit
<1>3. \A t \in Services : kept[t].progress = 0
  BY DEF ServicesInit, Unlisted
<1> QED  BY <1>1, <1>2, <1>3, TrackerServicesAssumption DEF ServicesInit, ServicesTyped, Progress

LEMMA StashesTyped ==
  ASSUME SignInSound, ServicesTyped, [ServicesNext]_serviceVars
  PROVE  \A x \in Tabs, t \in Services : tab'[x].stash[t] <= MaxStarts
<1>0. \A x \in Tabs : tab[x] \in TabStates /\ tab[x].stash \in [Services -> Nat]
  BY DEF SignInSound, TabStates
<1>1. CASE UNCHANGED tab
  BY <1>1 DEF ServicesTyped
<1>2. ASSUME NEW x \in Tabs, NEW t \in Services, StartTrackerLogin(x, t)
      PROVE  \A y \in Tabs, u \in Services : tab'[y].stash[u] <= MaxStarts
  <2> DEFINE verifier == IF AuthRequiresVerifier(t) THEN starts + 1 ELSE 0
             held == IF verifier = 0 THEN tab[x].stash[t] ELSE verifier
  <2>1. held <= MaxStarts
    BY <1>2, TrackerServicesAssumption DEF ServicesTyped, StartTrackerLogin
  <2>2. tab' = [tab EXCEPT
              ![x].stash[t] = held,
              ![x].left = @ \cup {[service |-> t, challenge |-> verifier]},
              ![x].latest[t] = verifier,
              ![x].signIn = SignIn("away")]
    BY <1>2 DEF StartTrackerLogin, KeyFor
  <2> HIDE DEF held, verifier
  <2>3. tab'[x].stash = [tab[x].stash EXCEPT ![t] = held]
    BY <1>0, <2>2 DEF TabStates, SignInSound
  <2>4. \A y \in Tabs \ {x} : tab'[y] = tab[y]
    BY <2>2 DEF SignInSound
  <2> QED  BY <1>0, <2>1, <2>3, <2>4 DEF ServicesTyped
<1>3. ASSUME NEW x \in Tabs, TakeVerifier(x)
      PROVE  \A y \in Tabs, u \in Services : tab'[y].stash[u] <= MaxStarts
  <2> DEFINE t == tab[x].signIn.service
  <2>1. tab' = [tab EXCEPT ![x].signIn.verifier = tab[x].stash[t],
                           ![x].stash[t] = 0, ![x].signIn.at = "exchange"]
    BY <1>3 DEF TakeVerifier, KeyFor
  <2> HIDE DEF t
  <2>2. tab'[x].stash = [tab[x].stash EXCEPT ![t] = 0]
    BY <1>0, <2>1 DEF TabStates, SignInSound
  <2>3. \A y \in Tabs \ {x} : tab'[y] = tab[y]
    BY <2>1 DEF SignInSound
  <2> QED  BY <1>0, <2>2, <2>3, TrackerServicesAssumption DEF ServicesTyped
<1>4. ASSUME NEW x \in Tabs, \/ Authorized(x) \/ Reload(x) \/ TokenFromCallback(x)
                            \/ ExchangeCode(x) \/ LoginTrackerOAuth(x)
      PROVE  \A y \in Tabs : tab'[y].stash = tab[y].stash
  <2>1. CASE Authorized(x)
    BY <1>0, <2>1 DEF Authorized, SignInSound, TabStates
  <2>2. CASE \E s : Enter(x, s)
    BY <1>0, <2>2 DEF Enter, SignInSound, TabStates
  <2> QED  BY <1>4, <2>1, <2>2 DEF Reload, TokenFromCallback, ExchangeCode, LoginTrackerOAuth
<1>5. CASE \/ \E t \in Services : DeleteCredential(t)
           \/ TimeGoesOn \/ CallService \/ AniListRequest \/ MyAnimeListRequest \/ ListCollection
           \/ UNCHANGED serviceVars
  BY <1>1, <1>5 DEF DeleteCredential, TimeGoesOn, CallService, AniListRequest, MyAnimeListRequest,
     ListCollection, serviceVars
<1> QED
  <2>1. ASSUME NEW x \in Tabs, \/ Authorized(x) \/ Reload(x) \/ TokenFromCallback(x)
                              \/ ExchangeCode(x) \/ LoginTrackerOAuth(x)
        PROVE  \A y \in Tabs, u \in Services : tab'[y].stash[u] <= MaxStarts
    BY <1>4, <2>1 DEF ServicesTyped
  <2> QED  BY <1>2, <1>3, <1>5, <2>1 DEF ServicesNext

LEMMA ProgressTyped ==
  ASSUME CallsSound, ServicesTyped, [ServicesNext]_serviceVars
  PROVE  \A t \in Services : kept'[t].progress \in Progress
<1>1. ASSUME NEW t \in Services, NEW e, e.progress \in Progress, kept' = [kept EXCEPT ![t] = e]
      PROVE  \A u \in Services : kept'[u].progress \in Progress
  BY <1>1 DEF CallsSound, ServicesTyped
<1>2. Unlisted.progress \in Progress
  BY DEF Unlisted, Progress
<1>3. CASE UNCHANGED kept
  BY <1>3 DEF ServicesTyped
<1>4. CASE AniListRequest
  <2>1. inquiry \in Inquiries /\ AniList \in Services
    BY <1>4, SentTyped, TwoServices DEF AniListRequest
  <2> DEFINE u == AniListUpdate(kept[AniList], inquiry.halves, inquiry.shelf)
  <2>2. inquiry.op = "update" => u.progress \in Progress
    BY <2>1 DEF ServicesTyped, AniListUpdate, Progress
  <2> HIDE DEF u
  <2>3. \/ UNCHANGED kept \/ kept' = [kept EXCEPT ![AniList] = Unlisted]
        \/ inquiry.op = "update" /\ kept' = [kept EXCEPT ![AniList] = u]
    BY <1>4 DEF AniListRequest, AniListFindEntry, AniListDeleteEntry, AniListUpdateProgress, Written, u
  <2> QED  BY <1>1, <1>2, <1>3, <2>1, <2>2, <2>3
<1>5. CASE MyAnimeListRequest
  <2>1. inquiry \in Inquiries /\ MyAnimeList \in Services
    BY <1>5, SentTyped, TwoServices DEF MyAnimeListRequest
  <2> DEFINE u == MyAnimeListUpdate(kept[MyAnimeList], inquiry.halves, inquiry.shelf)
  <2>2. inquiry.op = "update" => u.progress \in Progress
    BY <2>1 DEF ServicesTyped, MyAnimeListUpdate, Progress
  <2> HIDE DEF u
  <2>3. \/ UNCHANGED kept \/ kept' = [kept EXCEPT ![MyAnimeList] = Unlisted]
        \/ inquiry.op = "update" /\ kept' = [kept EXCEPT ![MyAnimeList] = u]
    BY <1>5 DEF MyAnimeListRequest, MyAnimeListFindEntry, MyAnimeListDeleteEntry, MyAnimeListUpdateProgress, Written, u
  <2> QED  BY <1>1, <1>2, <1>3, <2>1, <2>2, <2>3
<1>6. ASSUME NEW x \in Tabs, \/ \E t \in Services : StartTrackerLogin(x, t)
                            \/ Authorized(x) \/ TakeVerifier(x) \/ Reload(x)
                            \/ TokenFromCallback(x) \/ ExchangeCode(x) \/ LoginTrackerOAuth(x)
      PROVE  UNCHANGED kept
  BY <1>6 DEF StartTrackerLogin, Authorized, TakeVerifier, Reload, TokenFromCallback,
     ExchangeCode, LoginTrackerOAuth, Elsewhere
<1>7. CASE \/ \E t \in Services : DeleteCredential(t)
           \/ TimeGoesOn \/ CallService \/ ListCollection \/ UNCHANGED serviceVars
  BY <1>3, <1>7 DEF DeleteCredential, Elsewhere, TimeGoesOn, CallService, ListCollection, serviceVars
<1> QED  BY <1>3, <1>4, <1>5, <1>6, <1>7 DEF ServicesNext

(* A request leaves the count of attempts and the time waited as they are, *)
(* begins the second step, or waits and tries again.                       *)
LEMMA RequestCounts ==
  ASSUME CallsSound, ServicesTyped, AniListRequest \/ MyAnimeListRequest
  PROVE  /\ inquiry \in Inquiries
         /\ inquiry'.op = inquiry.op /\ inquiry'.halves = inquiry.halves
         /\ \/ /\ inquiry'.step = inquiry.step /\ inquiry'.attempt = inquiry.attempt
               /\ inquiry'.slept = inquiry.slept
            \/ /\ inquiry.step = 1 /\ inquiry'.step = 2 /\ inquiry'.attempt = 1
               /\ inquiry'.slept = inquiry.slept
            \/ /\ inquiry'.step = inquiry.step /\ inquiry.attempt # Tries
               /\ inquiry'.attempt = inquiry.attempt + 1
               /\ \E pause \in 0..LongestPause : inquiry'.slept = inquiry.slept + pause
<1> DEFINE Counted ==
             /\ inquiry'.op = inquiry.op /\ inquiry'.halves = inquiry.halves
             /\ \/ /\ inquiry'.step = inquiry.step /\ inquiry'.attempt = inquiry.attempt
                   /\ inquiry'.slept = inquiry.slept
                \/ /\ inquiry.step = 1 /\ inquiry'.step = 2 /\ inquiry'.attempt = 1
                   /\ inquiry'.slept = inquiry.slept
                \/ /\ inquiry'.step = inquiry.step /\ inquiry.attempt # Tries
                   /\ inquiry'.attempt = inquiry.attempt + 1
                   /\ \E pause \in 0..LongestPause : inquiry'.slept = inquiry.slept + pause
<1>1. inquiry \in Inquiries
  BY SentTyped, TwoServices DEF AniListRequest, MyAnimeListRequest
<1> SUFFICES Counted
  BY <1>1
<1>2. ASSUME NEW lost \in BOOLEAN, AniListFails(lost) PROVE Counted
  BY <1>1, <1>2 DEF AniListFails, Result, Inquiries
<1>3. CASE RateLimited
  <2>1. PICK said \in Pauses :
           LET pause == IF said > 0 THEN said ELSE FallbackPause
           IN  IF pause > LongestPause \/ inquiry.attempt = Tries THEN AniListFails(TRUE)
               ELSE inquiry' = [inquiry EXCEPT !.attempt = @ + 1, !.slept = @ + pause]
    BY <1>3 DEF RateLimited
  <2> DEFINE pause == IF said > 0 THEN said ELSE FallbackPause
  <2>2. pause \in Nat /\ LongestPause \in Nat
    <3>1. said \in Nat /\ FallbackPause \in Nat /\ LongestPause \in Nat
      BY TrackerServicesAssumption
    <3> QED  BY <3>1
  <2>3. CASE AniListFails(TRUE)
    BY <1>2, <2>3
  <2>4. CASE /\ ~(pause > LongestPause) /\ inquiry.attempt # Tries
             /\ inquiry' = [inquiry EXCEPT !.attempt = @ + 1, !.slept = @ + pause]
    <3>1. pause \in 0..LongestPause
      BY <2>2, <2>4
    <3> HIDE DEF pause
    <3> QED  BY <1>1, <2>4, <3>1 DEF Inquiries
  <2> QED  BY <2>1, <2>3, <2>4
<1>4. ASSUME NEW r, Result(r) PROVE Counted
  BY <1>1, <1>4 DEF Result, Inquiries
<1>5. ASSUME NEW e, Found(e) PROVE Counted
  BY <1>1, <1>5 DEF Found, Inquiries
<1>6. ASSUME NEW t, NEW e, Written(t, e) PROVE Counted
  BY <1>1, <1>6 DEF Written, Inquiries
<1>7. CASE AnswerLost
  BY <1>1, <1>7 DEF AnswerLost, Inquiries
<1>8. CASE inquiry.step = 1 /\ inquiry' = [inquiry EXCEPT !.step = 2, !.attempt = 1]
  BY <1>1, <1>8 DEF Inquiries
<1> HIDE DEF Counted
<1>9. CASE AniListRequest
  <2> DEFINE e == kept[AniList]
             u == AniListUpdate(e, inquiry.halves, inquiry.shelf)
  <2>1. \/ RateLimited \/ AniListFails(TRUE)
        \/ AniListFindEntry(e) \/ AniListDeleteEntry(e) \/ AniListUpdateProgress(e)
    BY <1>9 DEF AniListRequest
  <2>2. CASE AniListFindEntry(e)
    BY <1>2, <1>5, <2>2 DEF AniListFindEntry
  <2>3. CASE AniListDeleteEntry(e)
    BY <1>2, <1>6, <1>7, <1>8, <2>3 DEF AniListDeleteEntry
  <2>4. CASE AniListUpdateProgress(e)
    <3>1. Written(AniList, u) \/ AnswerLost
      BY <2>4 DEF AniListUpdateProgress
    <3> HIDE DEF e, u
    <3> QED  BY <1>6, <1>7, <3>1
  <2> QED  BY <1>2, <1>3, <2>1, <2>2, <2>3, <2>4
<1>10. CASE MyAnimeListRequest
  <2> DEFINE e == kept[MyAnimeList]
             u == MyAnimeListUpdate(e, inquiry.halves, inquiry.shelf)
  <2>1. \/ Found(e) \/ Result("null") \/ Result("false") \/ Result("true")
        \/ Result("error")
        \/ Written(MyAnimeList, Unlisted) \/ Written(MyAnimeList, u)
    BY <1>10 DEF MyAnimeListRequest, MyAnimeListFindEntry, MyAnimeListDeleteEntry,
               MyAnimeListUpdateProgress
  <2> HIDE DEF e, u
  <2> QED  BY <1>4, <1>5, <1>6, <2>1
<1> QED  BY <1>9, <1>10

LEMMA WaitsTyped ==
  ASSUME CallsSound, ServicesTyped, [ServicesNext]_serviceVars, inquiry' \in Inquiries
  PROVE  /\ inquiry'.attempt \in 1..Tries
         /\ inquiry'.slept <= Waited(inquiry'.step, inquiry'.attempt)
         /\ inquiry'.op = "update" => inquiry'.halves \in Halves
<1> DEFINE M == (Tries - 1) * LongestPause
<1>1. CASE UNCHANGED inquiry
  BY <1>1 DEF ServicesTyped
<1>2. CASE CallService
  <2>1. inquiry'.attempt = 1 /\ inquiry'.slept = 0 /\ inquiry'.step = 1
    BY <1>2 DEF CallService, Inquire
  <2>2. inquiry'.op = "update" => inquiry'.halves \in Halves
    BY <1>2 DEF CallService, Inquire
  <2> QED  BY <2>1, <2>2, TrackerServicesAssumption DEF Waited
<1>3. CASE AniListRequest \/ MyAnimeListRequest
  <2>1. /\ inquiry \in Inquiries /\ inquiry.attempt \in 1..Tries /\ inquiry.slept \in Nat
        /\ inquiry.slept <= Waited(inquiry.step, inquiry.attempt) /\ inquiry.step \in {1, 2}
        /\ inquiry.op = "update" => inquiry.halves \in Halves
        /\ inquiry'.op = inquiry.op /\ inquiry'.halves = inquiry.halves
    BY <1>3, RequestCounts DEF ServicesTyped, Inquiries
  <2>2. /\ LongestPause \in Nat /\ Tries \in Nat \ {0} /\ M \in Nat
        /\ (inquiry.attempt - 1) * LongestPause \in Nat
        /\ (inquiry.attempt - 1) * LongestPause <= M
        /\ (inquiry.attempt + 1 - 1) * LongestPause = (inquiry.attempt - 1) * LongestPause + LongestPause
        /\ (1 - 1) * LongestPause = 0
    BY <2>1, TrackerServicesAssumption
  <2>3. CASE /\ inquiry'.step = inquiry.step /\ inquiry'.attempt = inquiry.attempt
             /\ inquiry'.slept = inquiry.slept
    BY <2>1, <2>3
  <2>4. CASE /\ inquiry.step = 1 /\ inquiry'.step = 2 /\ inquiry'.attempt = 1
             /\ inquiry'.slept = inquiry.slept
    <3>1. /\ Waited(1, inquiry.attempt) = (inquiry.attempt - 1) * LongestPause
          /\ Waited(2, 1) = M + (1 - 1) * LongestPause
      BY <2>1, <2>2 DEF Waited
    <3> HIDE DEF M
    <3> QED  BY <2>1, <2>2, <2>4, <3>1
  <2>5. CASE /\ inquiry'.step = inquiry.step /\ inquiry.attempt # Tries
             /\ inquiry'.attempt = inquiry.attempt + 1
             /\ \E pause \in 0..LongestPause : inquiry'.slept = inquiry.slept + pause
    <3>1. /\ Waited(inquiry.step, inquiry.attempt + 1)
              = (IF inquiry.step = 2 THEN M ELSE 0) + ((inquiry.attempt - 1) * LongestPause + LongestPause)
          /\ Waited(inquiry.step, inquiry.attempt)
              = (IF inquiry.step = 2 THEN M ELSE 0) + (inquiry.attempt - 1) * LongestPause
      BY <2>1, <2>2 DEF Waited
    <3> HIDE DEF M
    <3>2. inquiry.slept + LongestPause <= Waited(inquiry.step, inquiry.attempt + 1)
      BY <2>1, <2>2, <3>1
    <3>3. inquiry'.slept <= inquiry.slept + LongestPause /\ inquiry'.slept \in Nat
      <4>1. PICK pause \in 0..LongestPause : inquiry'.slept = inquiry.slept + pause
        BY <2>5
      <4>2. inquiry.slept \in Nat /\ LongestPause \in Nat
        BY <2>1, <2>2
      <4> QED  BY <4>1, <4>2
    <3>4. inquiry.attempt + 1 \in 1..Tries
      <4>1. inquiry.attempt \in 1..Tries /\ inquiry.attempt # Tries /\ Tries \in Nat
        BY <2>1, <2>2, <2>5
      <4> QED  BY <4>1
    <3>5. Waited(inquiry.step, inquiry.attempt + 1) \in Nat
      BY <2>1, <2>2, <3>1
    <3>6. inquiry'.slept <= Waited(inquiry.step, inquiry.attempt + 1)
      BY <2>1, <2>2, <3>2, <3>3, <3>5
    <3> QED  BY <2>1, <2>5, <3>4, <3>6
  <2> QED  BY <1>3, <2>3, <2>4, <2>5, RequestCounts
<1>4. CASE ListCollection
  <2>1. inquiry'.op = "import"
    BY <1>4 DEF ListCollection
  <2> QED  BY <2>1 DEF Inquiries
<1>5. ASSUME NEW x \in Tabs, \/ \E t \in Services : StartTrackerLogin(x, t)
                            \/ Authorized(x) \/ TakeVerifier(x) \/ Reload(x)
                            \/ TokenFromCallback(x) \/ ExchangeCode(x) \/ LoginTrackerOAuth(x)
      PROVE  UNCHANGED inquiry
  BY <1>5 DEF StartTrackerLogin, Authorized, TakeVerifier, Reload, TokenFromCallback,
     ExchangeCode, LoginTrackerOAuth, Elsewhere
<1>6. CASE (\E t \in Services : DeleteCredential(t)) \/ TimeGoesOn \/ UNCHANGED serviceVars
  BY <1>1, <1>6 DEF DeleteCredential, Elsewhere, TimeGoesOn, serviceVars
<1> QED  BY <1>1, <1>2, <1>3, <1>4, <1>5, <1>6 DEF ServicesNext

LEMMA ServicesTypedNext ==
  ASSUME SignInSound, CallsSound, ServicesTyped, [ServicesNext]_serviceVars
  PROVE  ServicesTyped'
<1>1. instant' \in 0..LastInstant /\ starts' \in 0..MaxStarts
  <2>1. CASE UNCHANGED <<instant, starts>>
    BY <2>1 DEF ServicesTyped
  <2>2. CASE TimeGoesOn
    BY <2>2, TrackerServicesAssumption DEF TimeGoesOn, ServicesTyped
  <2>3. CASE \E x \in Tabs, t \in Services : StartTrackerLogin(x, t)
    BY <2>3, TrackerServicesAssumption DEF StartTrackerLogin, Elsewhere, ServicesTyped
  <2>4. CASE \/ \E x \in Tabs : \/ Authorized(x) \/ TakeVerifier(x) \/ Reload(x)
                            \/ TokenFromCallback(x) \/ ExchangeCode(x) \/ LoginTrackerOAuth(x)
             \/ \E t \in Services : DeleteCredential(t)
             \/ CallService \/ AniListRequest \/ MyAnimeListRequest \/ ListCollection
             \/ UNCHANGED serviceVars
    <3>1. UNCHANGED <<instant, starts>>
      BY <2>4 DEF Authorized, TakeVerifier, Reload, TokenFromCallback, ExchangeCode, LoginTrackerOAuth,
         Elsewhere, DeleteCredential, CallService, AniListRequest, MyAnimeListRequest, ListCollection,
         serviceVars
    <3> QED  BY <2>1, <3>1
  <2> QED  BY <2>2, <2>3, <2>4 DEF ServicesNext
<1>3. inquiry' \in Inquiries =>
          /\ inquiry'.attempt \in 1..Tries
          /\ inquiry'.slept <= Waited(inquiry'.step, inquiry'.attempt)
          /\ inquiry'.op = "update" => inquiry'.halves \in Halves
  BY WaitsTyped
<1>4. /\ Progress' = Progress /\ Inquiries' = Inquiries
      /\ Waited(inquiry'.step, inquiry'.attempt) = Waited(inquiry.step, inquiry.attempt)'
  BY DEF Progress, Inquiries, Waited, WholeChapters, Services, ListEntries, Views
<1> QED  BY <1>1, <1>3, <1>4, StashesTyped, ProgressTyped DEF ServicesTyped

LEMMA ServicesTypes == ServicesSpec => []ServicesTypeOK
<1>1. SignInSound /\ CallsSound /\ ServicesTyped => ServicesTypeOK
  <2> SUFFICES ASSUME SignInSound, CallsSound, ServicesTyped PROVE ServicesTypeOK
    OBVIOUS
  <2>1. \A t \in Services : grant[t] = NoGrant \/ grant[t].token \in Holders
    BY DEF SignInSound, Grants
  <2>2. \A x \in Tabs : tab[x].stash \in [Services -> 0..MaxStarts]
    <3> TAKE x \in Tabs
    <3>1. tab[x].stash \in [Services -> Nat]
      BY DEF SignInSound, TabStates
    <3>2. \A t \in Services : tab[x].stash[t] \in 0..MaxStarts
      BY <3>1, TrackerServicesAssumption DEF ServicesTyped
    <3> QED  BY <3>1, <3>2
  <2>3. ASSUME inquiry.op \in {"find", "update", "delete"}
        PROVE  inquiry.attempt <= Tries /\ inquiry.slept <= 2 * (Tries - 1) * LongestPause
    <3>1. inquiry \in Inquiries
      BY <2>3 DEF CallsSound, NoInquiry
    <3>2. /\ inquiry.attempt \in 1..Tries /\ inquiry.slept \in Nat /\ inquiry.step \in {1, 2}
          /\ inquiry.slept <= Waited(inquiry.step, inquiry.attempt)
      BY <3>1 DEF ServicesTyped, Inquiries
    <3> DEFINE M == (Tries - 1) * LongestPause
               N == (inquiry.attempt - 1) * LongestPause
    <3>3. M \in Nat /\ N \in Nat /\ N <= M /\ 2 * (Tries - 1) * LongestPause = M + M
      BY <3>2, TrackerServicesAssumption
    <3>4. Waited(inquiry.step, inquiry.attempt) = (IF inquiry.step = 2 THEN M ELSE 0) + N
      BY <3>2 DEF Waited
    <3> HIDE DEF M, N
    <3> QED  BY <3>2, <3>3, <3>4, TrackerServicesAssumption
  <2> QED  BY <2>1, <2>2, <2>3 DEF ServicesTyped, ServicesTypeOK, Progress
<1>2. SignInSound /\ CallsSound /\ ServicesTyped /\ [ServicesNext]_serviceVars => ServicesTyped'
  BY ServicesTypedNext
<1> QED  BY <1>1, <1>2, ServicesTypedInit, SignInSoundInit, SignInSoundNext,
            CallsSoundInit, CallsSoundNext, PTL DEF ServicesSpec

===============================================================================
