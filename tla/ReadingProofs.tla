---------------------------- MODULE ReadingProofs ----------------------------
(***************************************************************************)
(* A title's chapters and their pages.  The first part is about the        *)
(* chapters, for any lists the source answers with: rows keep their type,  *)
(* refreshes give every chapter an order of its own, nothing that was read *)
(* is lost and the latest reading leads.  The second is about the pages,   *)
(* for any editions and overlapping requests: a request is answered with   *)
(* the page it asked for.                                                  *)
(***************************************************************************)
EXTENDS Reader, FiniteOrders

(***************************************************************************)
(* Lists and tables.                                                       *)
(***************************************************************************)

\* A list names each of its chapters at one place.
LEMMA PlaceIsThere ==
    ASSUME NEW l \in Listings
    PROVE  /\ Len(l) \in Nat
           /\ Listed(l) \subseteq Urls
           /\ \A u \in Listed(l) : Place(l, u) \in 1..Len(l) /\ l[Place(l, u)] = u
           /\ \A i \in 1..Len(l) : l[i] \in Listed(l) /\ Place(l, l[i]) = i
<1>1. /\ l \in Seq(Urls) /\ Len(l) \in Nat
      /\ \A i \in 1..Len(l) : l[i] \in Urls
      /\ \A i, j \in 1..Len(l) : l[i] = l[j] => i = j
  BY ChapterListAssumption
<1>2. Listed(l) \subseteq Urls
  BY <1>1 DEF Listed
<1>3. ASSUME NEW u \in Listed(l)
      PROVE  Place(l, u) \in 1..Len(l) /\ l[Place(l, u)] = u
  <2>1. \E i \in 1..Len(l) : l[i] = u
    BY DEF Listed
  <2> QED BY <2>1 DEF Place
<1>4. ASSUME NEW i \in 1..Len(l)
      PROVE  l[i] \in Listed(l) /\ Place(l, l[i]) = i
  <2>1. l[i] \in Listed(l)
    BY DEF Listed
  <2> QED BY <2>1, <1>3, <1>1
<1> QED BY <1>1, <1>2, <1>3, <1>4

\* A list has as many chapters as it has places.
LEMMA ListedSize ==
    ASSUME NEW l \in Listings
    PROVE  IsFiniteSet(Listed(l)) /\ Cardinality(Listed(l)) = Len(l)
<1> DEFINE f == [i \in 1..Len(l) |-> l[i]]
<1>1. Len(l) \in Nat
  BY PlaceIsThere
<1>2. /\ IsFiniteSet(1..Len(l))
      /\ Cardinality(1..Len(l)) = Len(l)
  <2>1. /\ IsFiniteSet(1..Len(l))
        /\ Cardinality(1..Len(l)) = IF 1 > Len(l) THEN 0 ELSE Len(l) - 1 + 1
    BY <1>1, FS_Interval
  <2> QED BY <2>1, <1>1
<1>3. f \in [1..Len(l) -> Listed(l)]
  BY PlaceIsThere
<1>4. f \in Surjection(1..Len(l), Listed(l))
  BY <1>3 DEF Surjection, Listed
<1>5. f \in Injection(1..Len(l), Listed(l))
  BY <1>3, PlaceIsThere DEF Injection, IsInjective
<1>6. /\ IsFiniteSet(Listed(l))
      /\ Cardinality(Listed(l)) = Cardinality(1..Len(l)) <=> f \in Injection(1..Len(l), Listed(l))
  BY <1>2, <1>4, FS_Surjection
<1> QED BY <1>2, <1>5, <1>6

\* Every set of chapters is finite and can be counted.
LEMMA SubsetsAreCounted ==
    ASSUME NEW S \in SUBSET Urls
    PROVE  IsFiniteSet(S) /\ Cardinality(S) \in Nat
BY ChapterListAssumption, FS_Subset, FS_CardinalityType

\* Ids are those an AUTOINCREMENT key gave to the rows there are.
IdsGiven(rows) ==
    /\ \A u \in Present(rows) : rows[u].id <= Cardinality(Present(rows))
    /\ \A u, v \in Present(rows) : rows[u].id = rows[v].id => u = v

ByPlace(S, l) == {p \in S \X S : Place(l, p[1]) <= Place(l, p[2])}
ByOrder(S, rows) == {p \in S \X S : Before(rows, p[1], p[2])}

\* The places in a list order its chapters totally.
LEMMA PlacesOrder ==
    ASSUME NEW l \in Listings, NEW S \in SUBSET Listed(l)
    PROVE  TotallyOrders(S, ByPlace(S, l))
<1>1. \A u \in S : Place(l, u) \in Nat /\ l[Place(l, u)] = u
  BY PlaceIsThere
<1>2. \A u, v \in S : Place(l, u) = Place(l, v) => u = v
  BY <1>1
<1>3. \A u, v \in S : <<u, v>> \in ByPlace(S, l) <=> Place(l, u) <= Place(l, v)
  BY DEF ByPlace
<1> QED BY <1>1, <1>2, <1>3 DEF TotallyOrders

\* So do the order columns of a table, once equal ones are told apart by id.
LEMMA RowsOrder ==
    ASSUME NEW rows \in Table, IdsGiven(rows), NEW S \in SUBSET Present(rows)
    PROVE  TotallyOrders(S, ByOrder(S, rows))
<1>1. \A u \in S : rows[u].order \in Nat /\ rows[u].id \in Nat
  BY DEF Table, Row, Present
<1>2. \A u, v \in S : rows[u].id = rows[v].id => u = v
  BY DEF IdsGiven
<1>3. \A u, v \in S : <<u, v>> \in ByOrder(S, rows) <=> Before(rows, u, v)
  BY DEF ByOrder
<1>4. \A u, v \in S : Before(rows, u, v) \/ Before(rows, v, u)
  BY <1>1 DEF Before
<1>5. \A u, v \in S : Before(rows, u, v) /\ Before(rows, v, u) => u = v
  BY <1>1, <1>2 DEF Before
<1>6. \A u, v, w \in S : Before(rows, u, v) /\ Before(rows, v, w) => Before(rows, u, w)
  BY <1>1 DEF Before
<1>7. \A u \in S : Before(rows, u, u)
  BY <1>1 DEF Before
<1> QED BY <1>3, <1>4, <1>5, <1>6, <1>7 DEF TotallyOrders
\* Chapters added to some make the set larger by those not there yet.
LEMMA UnionSize ==
    ASSUME NEW A \in SUBSET Urls, NEW B \in SUBSET Urls
    PROVE  Cardinality(A \cup B) = Cardinality(A) + Cardinality(B \ A)
<1>1. /\ IsFiniteSet(A) /\ IsFiniteSet(B) /\ IsFiniteSet(B \ A)
      /\ Cardinality(A) \in Nat /\ Cardinality(B \ A) \in Nat
  BY SubsetsAreCounted
<1>2. A \cup B = A \cup (B \ A) /\ A \cap (B \ A) = {}
  OBVIOUS
<1>3. Cardinality(A \cup (B \ A)) =
        Cardinality(A) + Cardinality(B \ A) - Cardinality(A \cap (B \ A))
  BY <1>1, FS_Union
<1>4. Cardinality(A \cap (B \ A)) = 0
  BY <1>2, FS_EmptySet
<1>5. Cardinality(A \cup (B \ A)) = Cardinality(A) + Cardinality(B \ A)
  BY <1>1, <1>3, <1>4
<1> QED BY <1>2, <1>5

\* The ids of rows inserted in turn: those after the rows there were.
LEMMA InsertedIds ==
    ASSUME NEW rows \in Table, NEW N \in SUBSET Urls, N \cap Present(rows) = {},
           NEW R, TotallyOrders(N, R)
    PROVE  /\ \A u \in N : /\ NextId(rows, Preceding(N, R, u)) \in Nat \ {0}
                           /\ NextId(rows, Preceding(N, R, u)) > Cardinality(Present(rows))
                           /\ NextId(rows, Preceding(N, R, u)) <= Cardinality(Present(rows) \cup N)
           /\ \A u, v \in N :
                 NextId(rows, Preceding(N, R, u)) = NextId(rows, Preceding(N, R, v)) => u = v
<1> DEFINE P == Present(rows)
           rank == Standing(N, R)
<1>1. P \in SUBSET Urls
  BY DEF Present
<1>2. /\ \A u \in N : rank[u] \in 1..Cardinality(N)
      /\ \A u, v \in N : rank[u] = rank[v] => u = v
  BY StandingsAreDense, SubsetsAreCounted
<1>3. Cardinality(P) \in Nat /\ Cardinality(N) \in Nat
  BY <1>1, SubsetsAreCounted
<1>4. Cardinality(P \cup N) = Cardinality(P) + Cardinality(N)
  <2>1. N \ P = N
    OBVIOUS
  <2> QED BY <2>1, <1>1, UnionSize
<1>5. \A u \in N : NextId(rows, Preceding(N, R, u)) = Cardinality(P) + rank[u]
  BY DEF NextId, Standing
<1> HIDE DEF P, rank
<1>6. /\ \A u \in N : /\ Cardinality(P) + rank[u] \in Nat \ {0}
                      /\ Cardinality(P) + rank[u] > Cardinality(P)
                      /\ Cardinality(P) + rank[u] <= Cardinality(P \cup N)
      /\ \A u, v \in N : Cardinality(P) + rank[u] = Cardinality(P) + rank[v] => u = v
  BY <1>2, <1>3, <1>4
<1>7. P = Present(rows)
  BY DEF P
<1> QED BY <1>5, <1>6, <1>7

(***************************************************************************)
(* What a refresh makes of a table.                                        *)
(***************************************************************************)

\* A row made by a refresh, and one moved by it.
LEMMA MadeAndMoved ==
    ASSUME NEW o \in Nat \ {0}
    PROVE  /\ \A i \in Nat \ {0} :
                 /\ Unread(i, o) \in Row /\ Unread(i, o).id = i
                 /\ Unread(i, o).order = o /\ Unread(i, o).readAt = 0
           /\ \A row \in Row :
                 LET moved == [row EXCEPT !.order = o]
                 IN  /\ moved \in Row /\ moved.order = o
                     /\ moved.id = row.id /\ moved.read = row.read
                     /\ moved.last = row.last /\ moved.readAt = row.readAt
<1>1. ASSUME NEW i \in Nat \ {0}
      PROVE  /\ Unread(i, o) \in Row /\ Unread(i, o).id = i
             /\ Unread(i, o).order = o /\ Unread(i, o).readAt = 0
  <2>1. 0 \in 0..LastPage /\ 0 \in 0..MaxClock
    BY ChapterListAssumption
  <2> QED BY <2>1 DEF Unread, Row
<1>2. ASSUME NEW row \in Row
      PROVE  LET moved == [row EXCEPT !.order = o]
             IN  /\ moved \in Row /\ moved.order = o
                 /\ moved.id = row.id /\ moved.read = row.read
                 /\ moved.last = row.last /\ moved.readAt = row.readAt
  BY DEF Row
<1> QED BY <1>1, <1>2

\* A refresh keeps every row there was, adds the chapters that are new, unread,
\* and gives each row an order of its own.
LEMMA Reconciling ==
    ASSUME NEW rows \in Table, IdsGiven(rows), NEW l \in Listings
    PROVE  /\ Reconciled(rows, l) \in Table
           /\ IdsGiven(Reconciled(rows, l))
           /\ InOrder(Reconciled(rows, l))
           /\ \A u \in Present(rows) :
                 /\ KeepsReading(rows[u], Reconciled(rows, l)[u])
                 /\ Reconciled(rows, l)[u].readAt = rows[u].readAt
           /\ \A u \in Present(Reconciled(rows, l)) \ Present(rows) :
                 Reconciled(rows, l)[u].readAt = 0
<1> DEFINE P == Present(rows)
           L == Listed(l)
           N == L \ P
           G == P \ L
           next == Reconciled(rows, l)
           nid(u) == NextId(rows, Preceding(N, ByPlace(N, l), u))
           rank == Standing(G, ByOrder(G, rows))
<1>1. /\ P \in SUBSET Urls /\ L \in SUBSET Urls
      /\ N \in SUBSET Urls /\ G \in SUBSET Urls
  BY PlaceIsThere DEF Present
<1>2. /\ Len(l) \in Nat
      /\ \A u \in L : Place(l, u) \in 1..Len(l) /\ l[Place(l, u)] = u
      /\ \A i \in 1..Len(l) : l[i] \in L /\ Place(l, l[i]) = i
  BY PlaceIsThere
<1>3. /\ \A u \in N : /\ nid(u) \in Nat \ {0}
                      /\ nid(u) > Cardinality(P)
                      /\ nid(u) <= Cardinality(P \cup N)
      /\ \A u, v \in N : nid(u) = nid(v) => u = v
  <2>1. TotallyOrders(N, ByPlace(N, l))
    BY PlacesOrder
  <2>2. N \cap Present(rows) = {}
    OBVIOUS
  <2> HIDE DEF N
  <2> QED BY <2>1, <2>2, <1>1, InsertedIds
<1>4. /\ \A u \in G : rank[u] \in 1..Cardinality(G)
      /\ {rank[u] : u \in G} = 1..Cardinality(G)
  <2>1. TotallyOrders(G, ByOrder(G, rows))
    BY RowsOrder
  <2> HIDE DEF G
  <2> QED BY <2>1, <1>1, StandingsAreDense, SubsetsAreCounted
<1>5. \A u \in P : rows[u] \in Row
  BY DEF Table, Present
<1>6. \A u \in N : next[u] = Unread(nid(u), Place(l, u))
  <2> TAKE u \in N
  <2>1. u \in Urls /\ u \in L /\ rows[u] = Absent
    BY <1>1 DEF Present
  <2>2. Preceding(N, ByPlace(N, l), u) = {v \in L \ P : Place(l, v) <= Place(l, u)}
    BY DEF Preceding, ByPlace
  <2> QED BY <2>1, <2>2 DEF Reconciled, Survivor
<1>7. \A u \in P \cap L : next[u] = [rows[u] EXCEPT !.order = Place(l, u)]
  BY <1>1 DEF Reconciled, Survivor, Present
<1>8. \A u \in G : next[u] = [rows[u] EXCEPT !.order = Len(l) + rank[u]]
  <2> TAKE u \in G
  <2>1. u \in Urls /\ u \notin L /\ rows[u] # Absent
    BY <1>1 DEF Present
  <2>2. Preceding(G, ByOrder(G, rows), u) = {v \in P \ L : Before(rows, v, u)}
    BY DEF Preceding, ByOrder
  <2>3. rank[u] = Cardinality({v \in P \ L : Before(rows, v, u)})
    BY <2>2 DEF Standing
  <2> QED BY <2>1, <2>3 DEF Reconciled, Vanished
<1>9. \A u \in Urls \ (P \cup L) : next[u] = Absent
  BY DEF Reconciled, Present
<1>10. next = [u \in Urls |-> next[u]]
  BY DEF Reconciled
<1>11. Cardinality(P) \in Nat /\ Cardinality(G) \in Nat /\ Cardinality(P \cup L) \in Nat
  BY <1>1, SubsetsAreCounted
<1>12. Cardinality(P \cup L) = Len(l) + Cardinality(G)
  <2>1. Cardinality(L \cup P) = Cardinality(L) + Cardinality(P \ L)
    BY <1>1, UnionSize
  <2>2. L \cup P = P \cup L
    OBVIOUS
  <2> QED BY <2>1, <2>2, ListedSize
<1>13. P \cup N = P \cup L
  OBVIOUS
<1> HIDE DEF nid, rank, next
<1>14. \A u \in N : next[u] \in Row /\ next[u].id = nid(u) /\ next[u].readAt = 0
                    /\ next[u].order = Place(l, u)
  <2> TAKE u \in N
  <2>1. Place(l, u) \in Nat \ {0}
    BY <1>2
  <2>2. next[u] = Unread(nid(u), Place(l, u)) /\ nid(u) \in Nat \ {0}
    BY <1>3, <1>6
  <2> QED BY <2>1, <2>2, MadeAndMoved
<1>15. \A u \in P \cap L :
          /\ next[u] \in Row /\ next[u].id = rows[u].id /\ next[u].order = Place(l, u)
          /\ next[u].read = rows[u].read /\ next[u].last = rows[u].last
          /\ next[u].readAt = rows[u].readAt
  <2> TAKE u \in P \cap L
  <2>1. Place(l, u) \in Nat \ {0}
    BY <1>2
  <2>2. next[u] = [rows[u] EXCEPT !.order = Place(l, u)] /\ rows[u] \in Row
    BY <1>5, <1>7
  <2> QED BY <2>1, <2>2, MadeAndMoved
<1>16. \A u \in G :
          /\ next[u] \in Row /\ next[u].id = rows[u].id /\ next[u].order = Len(l) + rank[u]
          /\ next[u].read = rows[u].read /\ next[u].last = rows[u].last
          /\ next[u].readAt = rows[u].readAt
  <2>1. \A u \in G : Len(l) + rank[u] \in Nat \ {0}
    BY <1>2, <1>4, <1>11
  <2> TAKE u \in G
  <2>2. next[u] = [rows[u] EXCEPT !.order = Len(l) + rank[u]] /\ rows[u] \in Row
    BY <1>5, <1>8
  <2> QED BY <2>1, <2>2, MadeAndMoved
<1>17. next \in Table
  BY <1>9, <1>10, <1>14, <1>15, <1>16 DEF Table
<1>18. Present(next) = P \cup L
  BY <1>1, <1>9, <1>14, <1>15, <1>16, ChapterListAssumption DEF Present
<1>19. IdsGiven(next)
  <2>1. \A u \in P : next[u].id = rows[u].id
    BY <1>15, <1>16
  <2>2. /\ \A u \in P : rows[u].id <= Cardinality(P) /\ rows[u].id \in Nat
        /\ \A u, v \in P : rows[u].id = rows[v].id => u = v
    BY <1>5 DEF IdsGiven, Row
  <2>3. Cardinality(P) <= Cardinality(P \cup L)
    <3>1. Cardinality(P \cup L) = Cardinality(P) + Cardinality(L \ P)
      BY <1>1, UnionSize
    <3>2. Cardinality(L \ P) \in Nat
      BY <1>1, SubsetsAreCounted
    <3> QED BY <3>1, <3>2, <1>11
  <2>4. \A u \in N : next[u].id = nid(u)
    BY <1>14
  <2>5. \A u \in P \cup L : u \in P \/ u \in N
    OBVIOUS
  <2> HIDE DEF P, L, N, G
  <2>6. \A u \in P \cup L : next[u].id <= Cardinality(P \cup L)
    <3> TAKE u \in P \cup L
    <3>1. CASE u \in P
      <4>1. next[u].id = rows[u].id /\ rows[u].id <= Cardinality(P) /\ rows[u].id \in Nat
        BY <3>1, <2>1, <2>2
      <4> QED BY <4>1, <2>3, <1>11
    <3>2. CASE u \in N
      BY <3>2, <2>4, <1>3, <1>13
    <3> QED BY <3>1, <3>2, <2>5
  <2>7. \A u, v \in P \cup L : next[u].id = next[v].id => u = v
    BY <2>1, <2>2, <2>4, <2>5, <1>3, <1>11
  <2> QED BY <2>6, <2>7, <1>18 DEF IdsGiven
<1>20. InOrder(next)
  <2>1. \A u \in P \cup L : next[u].order \in 1..(Len(l) + Cardinality(G))
    <3>1. \A u \in L : next[u].order \in 1..Len(l)
      BY <1>2, <1>14, <1>15
    <3>2. \A u \in G : next[u].order \in 1..(Len(l) + Cardinality(G))
      <4> TAKE u \in G
      <4>1. next[u].order = Len(l) + rank[u] /\ rank[u] \in 1..Cardinality(G)
        BY <1>4, <1>16
      <4> HIDE DEF G
      <4> QED BY <4>1, <1>2, <1>11
    <3>3. \A i \in 1..Len(l) : i \in 1..(Len(l) + Cardinality(G))
      BY <1>2, <1>11
    <3> QED BY <3>1, <3>2, <3>3
  <2>2. ASSUME NEW o \in 1..(Len(l) + Cardinality(G))
        PROVE  \E u \in P \cup L : next[u].order = o
    <3>1. CASE o <= Len(l)
      <4>1. o \in 1..Len(l)
        BY <3>1
      <4>2. l[o] \in L /\ Place(l, l[o]) = o
        BY <4>1, <1>2
      <4>3. next[l[o]].order = o
        BY <4>2, <1>14, <1>15
      <4> QED BY <4>2, <4>3
    <3>2. CASE o > Len(l)
      <4>1. o - Len(l) \in 1..Cardinality(G)
        BY <3>2, <1>2, <1>11
      <4>2. PICK u \in G : rank[u] = o - Len(l)
        BY <4>1, <1>4
      <4>3. next[u].order = Len(l) + (o - Len(l))
        BY <4>2, <1>16
      <4>4. Len(l) + (o - Len(l)) = o
        BY <1>2, <1>11
      <4> QED BY <4>2, <4>3, <4>4
    <3> QED BY <3>1, <3>2, <1>2, <1>11
  <2>3. {next[u].order : u \in P \cup L} = 1..(Len(l) + Cardinality(G))
    BY <2>1, <2>2
  <2> QED BY <2>3, <1>12, <1>18 DEF InOrder
<1>21. \A u \in P : KeepsReading(rows[u], next[u]) /\ next[u].readAt = rows[u].readAt
  <2>1. \A u \in P : /\ next[u] \in Row /\ next[u].id = rows[u].id
                     /\ next[u].read = rows[u].read /\ next[u].last = rows[u].last
                     /\ next[u].readAt = rows[u].readAt
    BY <1>15, <1>16
  <2>2. \A u \in P : rows[u].last \in Nat /\ rows[u].readAt \in Nat
    BY <1>5 DEF Row
  <2>3. \A u \in P : next[u] # Absent
    BY <2>1, ChapterListAssumption
  <2> QED BY <2>1, <2>2, <2>3 DEF KeepsReading
<1>22. \A u \in Present(next) \ P : next[u].readAt = 0
  BY <1>14, <1>18
<1> QED BY <1>17, <1>19, <1>20, <1>21, <1>22 DEF next

(***************************************************************************)
(* What a restore makes of a table.                                        *)
(***************************************************************************)

Restoration(rows, saved) ==
    [u \in Urls |-> IF saved[u] = Absent THEN rows[u] ELSE Restored(rows, saved, u)]

DatedBy(rows, t) == \A u \in Present(rows) : rows[u].readAt <= t

\* A row merged with a backup's keeps its id and the furthest of both readings.
LEMMA MergedRow ==
    ASSUME NEW row \in Row, NEW saved \in Row
    PROVE  /\ Merged(row, saved) \in Row
           /\ KeepsReading(row, Merged(row, saved))
           /\ \A t \in Nat : row.readAt <= t /\ saved.readAt <= t =>
                 Merged(row, saved).readAt <= t
           /\ saved.readAt <= row.readAt => Merged(row, saved).readAt = row.readAt
<1> DEFINE last == Larger(row.last, saved.last)
           readAt == Larger(row.readAt, saved.readAt)
<1>1. /\ row.last \in 0..LastPage /\ saved.last \in 0..LastPage
      /\ row.readAt \in 0..MaxClock /\ saved.readAt \in 0..MaxClock
      /\ row.read \in BOOLEAN /\ saved.read \in BOOLEAN
      /\ saved.order \in Nat \ {0} /\ row.id \in Nat \ {0}
  BY DEF Row
<1>2. last \in 0..LastPage /\ row.last <= last
  BY <1>1 DEF Larger
<1>3. /\ readAt \in 0..MaxClock /\ row.readAt <= readAt
      /\ saved.readAt <= row.readAt => readAt = row.readAt
      /\ \A t \in Nat : row.readAt <= t /\ saved.readAt <= t => readAt <= t
  BY <1>1 DEF Larger
<1> DEFINE read == row.read \/ saved.read
<1>4. read \in BOOLEAN /\ (row.read => read)
  OBVIOUS
<1>5. Merged(row, saved) =
        [row EXCEPT !.order = saved.order, !.read = read, !.last = last, !.readAt = readAt]
  BY DEF Merged
<1> HIDE DEF last, readAt, read
<1>6. /\ Merged(row, saved) \in Row
      /\ Merged(row, saved).id = row.id /\ Merged(row, saved).read = read
      /\ Merged(row, saved).last = last /\ Merged(row, saved).readAt = readAt
  BY <1>1, <1>2, <1>3, <1>4, <1>5 DEF Row
<1>7. KeepsReading(row, Merged(row, saved))
  <2>1. Merged(row, saved) # Absent
    BY <1>6, ChapterListAssumption
  <2> QED BY <2>1, <1>2, <1>3, <1>4, <1>6 DEF KeepsReading
<1> QED BY <1>3, <1>6, <1>7

\* A restore keeps every row there was and what was read in it, and puts the
\* backup's other chapters behind them.
LEMMA Restoring ==
    ASSUME NEW rows \in Table, IdsGiven(rows), NEW saved \in Table, IdsGiven(saved)
    PROVE  /\ Restoration(rows, saved) \in Table
           /\ IdsGiven(Restoration(rows, saved))
           /\ \A u \in Present(rows) :
                 /\ KeepsReading(rows[u], Restoration(rows, saved)[u])
                 /\ \A t \in Nat :
                       DatedBy(saved, t) /\ rows[u].readAt = t =>
                          Restoration(rows, saved)[u].readAt = t
           /\ \A t \in Nat :
                 DatedBy(rows, t) /\ DatedBy(saved, t) =>
                    DatedBy(Restoration(rows, saved), t)
<1> DEFINE P == Present(rows)
           B == Present(saved)
           N == B \ P
           next == Restoration(rows, saved)
           nid(u) == NextId(rows, Preceding(N, ByOrder(N, saved), u))
<1>1. P \in SUBSET Urls /\ B \in SUBSET Urls /\ N \in SUBSET Urls
  BY DEF Present
<1>2. /\ \A u \in N : /\ nid(u) \in Nat \ {0}
                      /\ nid(u) > Cardinality(P)
                      /\ nid(u) <= Cardinality(P \cup N)
      /\ \A u, v \in N : nid(u) = nid(v) => u = v
  <2>1. TotallyOrders(N, ByOrder(N, saved))
    BY RowsOrder
  <2>2. N \cap Present(rows) = {}
    OBVIOUS
  <2> HIDE DEF N
  <2> QED BY <2>1, <2>2, <1>1, InsertedIds
<1>3. /\ \A u \in P : rows[u] \in Row
      /\ \A u \in B : saved[u] \in Row
  BY DEF Table, Present
<1>4. \A u \in P \ B : next[u] = rows[u]
  BY DEF Restoration, Present
<1>5. \A u \in P \cap B : next[u] = Merged(rows[u], saved[u])
  BY DEF Restoration, Restored, Present
<1>6. \A u \in N : next[u] = [saved[u] EXCEPT !.id = nid(u)]
  <2> TAKE u \in N
  <2>1. u \in Urls /\ saved[u] # Absent /\ rows[u] = Absent
    BY <1>1 DEF Present
  <2>2. Preceding(N, ByOrder(N, saved), u) = {v \in B \ P : Before(saved, v, u)}
    BY DEF Preceding, ByOrder
  <2> QED BY <2>1, <2>2 DEF Restoration, Restored
<1>7. \A u \in Urls \ (P \cup B) : next[u] = Absent
  BY DEF Restoration, Present
<1>8. next = [u \in Urls |-> next[u]]
  BY DEF Restoration
<1>9. Cardinality(P) \in Nat /\ Cardinality(P \cup B) \in Nat /\ P \cup N = P \cup B
  <2>1. P \cup B \in SUBSET Urls
    BY <1>1
  <2> QED BY <1>1, <2>1, SubsetsAreCounted
<1> HIDE DEF nid, next
<1>10. \A u \in P \ B :
          /\ next[u] \in Row /\ next[u].id = rows[u].id
          /\ KeepsReading(rows[u], next[u]) /\ next[u].readAt = rows[u].readAt
  <2> TAKE u \in P \ B
  <2>1. next[u] = rows[u] /\ rows[u] \in Row
    BY <1>3, <1>4
  <2>2. rows[u].last \in Nat /\ rows[u].readAt \in Nat /\ rows[u] # Absent
    BY <2>1, ChapterListAssumption DEF Row
  <2> QED BY <2>1, <2>2 DEF KeepsReading
<1>11. \A u \in P \cap B :
          /\ next[u] \in Row /\ next[u].id = rows[u].id
          /\ KeepsReading(rows[u], next[u])
          /\ \A t \in Nat : rows[u].readAt <= t /\ saved[u].readAt <= t => next[u].readAt <= t
          /\ saved[u].readAt <= rows[u].readAt => next[u].readAt = rows[u].readAt
  <2> TAKE u \in P \cap B
  <2>1. /\ next[u] = Merged(rows[u], saved[u])
        /\ rows[u] \in Row /\ saved[u] \in Row
    BY <1>3, <1>5
  <2>2. /\ Merged(rows[u], saved[u]) \in Row
        /\ KeepsReading(rows[u], Merged(rows[u], saved[u]))
        /\ \A t \in Nat : rows[u].readAt <= t /\ saved[u].readAt <= t =>
              Merged(rows[u], saved[u]).readAt <= t
        /\ saved[u].readAt <= rows[u].readAt =>
              Merged(rows[u], saved[u]).readAt = rows[u].readAt
    BY <2>1, MergedRow
  <2>3. next[u].id = rows[u].id
    BY <2>1, <2>2 DEF KeepsReading
  <2> QED BY <2>1, <2>2, <2>3
<1>12. \A u \in N :
          next[u] \in Row /\ next[u].id = nid(u) /\ next[u].readAt = saved[u].readAt
  <2> TAKE u \in N
  <2>1. saved[u] \in Row /\ nid(u) \in Nat \ {0}
    BY <1>2, <1>3
  <2>2. next[u] = [saved[u] EXCEPT !.id = nid(u)]
    BY <1>6
  <2>3. [saved[u] EXCEPT !.id = nid(u)] \in Row
    BY <2>1 DEF Row
  <2>4. /\ [saved[u] EXCEPT !.id = nid(u)].id = nid(u)
        /\ [saved[u] EXCEPT !.id = nid(u)].readAt = saved[u].readAt
    BY <2>1 DEF Row
  <2> QED BY <2>2, <2>3, <2>4
<1>13. next \in Table
  <2>1. \A u \in Urls : next[u] \in Row \cup {Absent}
    <3> TAKE u \in Urls
    <3>1. u \in P \ B \/ u \in P \cap B \/ u \in N \/ u \in Urls \ (P \cup B)
      OBVIOUS
    <3> HIDE DEF P, B, N
    <3> QED BY <3>1, <1>7, <1>10, <1>11, <1>12
  <2> QED BY <2>1, <1>8 DEF Table
<1>14. Present(next) = P \cup B
  BY <1>1, <1>7, <1>10, <1>11, <1>12, ChapterListAssumption DEF Present
<1>15. \A u \in P : next[u].id = rows[u].id /\ KeepsReading(rows[u], next[u])
  BY <1>10, <1>11
<1>16. IdsGiven(next)
  <2>1. /\ \A u \in P : rows[u].id <= Cardinality(P) /\ rows[u].id \in Nat
        /\ \A u, v \in P : rows[u].id = rows[v].id => u = v
    BY <1>3 DEF IdsGiven, Row
  <2>2. Cardinality(P) <= Cardinality(P \cup B)
    <3>1. Cardinality(P \cup B) = Cardinality(P) + Cardinality(B \ P)
      BY <1>1, UnionSize
    <3>2. Cardinality(B \ P) \in Nat
      BY <1>1, SubsetsAreCounted
    <3> QED BY <3>1, <3>2, <1>9
  <2>3. \A u \in N : next[u].id = nid(u)
    BY <1>12
  <2>4. \A u \in P \cup B : u \in P \/ u \in N
    OBVIOUS
  <2> HIDE DEF P, B, N
  <2>5. \A u \in P \cup B : next[u].id <= Cardinality(P \cup B)
    <3> TAKE u \in P \cup B
    <3>1. CASE u \in P
      <4>1. next[u].id = rows[u].id /\ rows[u].id <= Cardinality(P) /\ rows[u].id \in Nat
        BY <3>1, <1>15, <2>1
      <4> QED BY <4>1, <2>2, <1>9
    <3>2. CASE u \in N
      BY <3>2, <2>3, <1>2, <1>9
    <3> QED BY <3>1, <3>2, <2>4
  <2>6. \A u, v \in P \cup B : next[u].id = next[v].id => u = v
    BY <1>15, <2>1, <2>3, <2>4, <1>2, <1>9
  <2> QED BY <2>5, <2>6, <1>14 DEF IdsGiven
<1>17. ASSUME NEW t \in Nat, DatedBy(saved, t), NEW u \in P, rows[u].readAt = t
       PROVE  next[u].readAt = t
  <2>1. CASE u \in B
    <3>1. saved[u].readAt <= rows[u].readAt
      BY <2>1, <1>17 DEF DatedBy
    <3> QED BY <3>1, <2>1, <1>11, <1>17
  <2>2. CASE u \notin B
    BY <2>2, <1>10, <1>17
  <2> QED BY <2>1, <2>2
<1>18. ASSUME NEW t \in Nat, DatedBy(rows, t), DatedBy(saved, t)
       PROVE  DatedBy(next, t)
  <2>1. \A u \in P : rows[u].readAt <= t
    BY <1>18 DEF DatedBy
  <2>2. \A u \in B : saved[u].readAt <= t
    BY <1>18 DEF DatedBy
  <2>3. \A u \in P \cup B : next[u].readAt <= t
    <3> TAKE u \in P \cup B
    <3>1. CASE u \in P \ B
      BY <3>1, <2>1, <1>10
    <3>2. CASE u \in P \cap B
      BY <3>2, <2>1, <2>2, <1>11
    <3>3. CASE u \in N
      BY <3>3, <2>2, <1>12
    <3> QED BY <3>1, <3>2, <3>3
  <2> QED BY <2>3, <1>14 DEF DatedBy
<1> QED BY <1>13, <1>15, <1>16, <1>17, <1>18 DEF next

(***************************************************************************)
(* The invariant: rows were numbered in turn, nothing is dated later than  *)
(* the newest reading, and the chapter read last carries that date.        *)
(***************************************************************************)

ListInv ==
    /\ TypeOK
    /\ IdsGiven(chapter) /\ IdsGiven(backup)
    /\ DatedBy(chapter, clock) /\ DatedBy(backup, clock)
    /\ latest # Absent => chapter[latest].readAt = clock

\* A table without rows meets everything asked of a table.
LEMMA EmptyTable ==
    NoChapters \in Table /\ IdsGiven(NoChapters) /\ \A t \in Nat : DatedBy(NoChapters, t)
<1>1. Present(NoChapters) = {}
  BY DEF Present, NoChapters
<1>2. NoChapters \in Table
  BY DEF NoChapters, Table
<1> QED BY <1>1, <1>2 DEF IdsGiven, DatedBy

\* The invariant holds at first.
LEMMA ListInvInitially == ListInit => ListInv
<1> SUFFICES ASSUME ListInit PROVE ListInv
  OBVIOUS
<1>1. TypeOK
  BY EmptyTable, ChapterListAssumption DEF ListInit, TypeOK
<1>2. IdsGiven(chapter) /\ IdsGiven(backup)
  BY EmptyTable DEF ListInit
<1>3. DatedBy(chapter, clock) /\ DatedBy(backup, clock)
  BY EmptyTable DEF ListInit
<1> QED BY <1>1, <1>2, <1>3 DEF ListInv, ListInit

\* A table whose rows are all there, under their ids, keeps them given.
LEMMA SameIds ==
    ASSUME NEW rows \in Table, IdsGiven(rows), NEW next \in Table,
           Present(next) = Present(rows),
           \A u \in Present(rows) : next[u].id = rows[u].id
    PROVE  IdsGiven(next)
BY DEF IdsGiven

\* A bulk edit leaves the row's id, and the time of reading, alone.
LEMMA Patching ==
    ASSUME NEW row \in Row, NEW patch \in Patches
    PROVE  /\ Patch(row, patch) \in Row
           /\ Patch(row, patch).id = row.id /\ Patch(row, patch).readAt = row.readAt
<1>1. CASE patch.column = "read"
  <2>1. patch.value \in BOOLEAN
    BY <1>1 DEF Patches
  <2>2. Patch(row, patch) = [row EXCEPT !.read = patch.value]
    BY <1>1 DEF Patch
  <2> QED BY <2>1, <2>2 DEF Row
<1>2. CASE patch.column = "last"
  <2>1. patch.value \in 0..LastPage
    BY <1>2 DEF Patches
  <2>2. Patch(row, patch) = [row EXCEPT !.last = patch.value]
    BY <1>2 DEF Patch
  <2> QED BY <2>1, <2>2 DEF Row
<1> QED BY <1>1, <1>2 DEF Patches

\* A report of progress stamps the row, and never takes its read flag back.
LEMMA Progressing ==
    ASSUME NEW row \in Row, NEW page \in 0..LastPage, NEW finished \in BOOLEAN,
           NEW now \in 0..MaxClock
    PROVE  /\ Progress(row, page, finished, now) \in Row
           /\ Progress(row, page, finished, now).id = row.id
           /\ Progress(row, page, finished, now).readAt = now
           /\ row.read => Progress(row, page, finished, now).read
<1> DEFINE read == row.read \/ finished
<1>1. read \in BOOLEAN /\ (row.read => read)
  OBVIOUS
<1>2. Progress(row, page, finished, now) =
        [row EXCEPT !.last = page, !.readAt = now, !.read = read]
  BY DEF Progress
<1> HIDE DEF read
<1>3. /\ Progress(row, page, finished, now) \in Row
      /\ Progress(row, page, finished, now).id = row.id
      /\ Progress(row, page, finished, now).readAt = now
      /\ Progress(row, page, finished, now).read = read
  BY <1>1, <1>2 DEF Row
<1> QED BY <1>1, <1>3

\* A row saved without its history keeps its id and is not dated.
LEMMA Forgetting ==
    ASSUME NEW row \in Row
    PROVE  Forget(row) \in Row /\ Forget(row).id = row.id /\ Forget(row).readAt = 0
<1>1. 0 \in 0..LastPage /\ 0 \in 0..MaxClock
  BY ChapterListAssumption
<1> QED BY <1>1 DEF Forget, Row

\* A table made row by row from another, each row with the id it had.
LEMMA Remade ==
    ASSUME NEW rows \in Table, IdsGiven(rows), NEW next, next = [u \in Urls |-> next[u]],
           \A u \in Present(rows) : next[u] \in Row /\ next[u].id = rows[u].id,
           \A u \in Urls \ Present(rows) : next[u] = Absent
    PROVE  next \in Table /\ IdsGiven(next) /\ Present(next) = Present(rows)
<1>1. next \in Table
  BY DEF Table
<1>2. Present(next) = Present(rows)
  BY ChapterListAssumption DEF Present
<1> QED BY <1>1, <1>2, SameIds

\* Every operation keeps the invariant.
LEMMA ListInvStep == ListInv /\ [ListNext]_listVars => ListInv'
<1> SUFFICES ASSUME ListInv, [ListNext]_listVars PROVE ListInv'
  OBVIOUS
<1>1. /\ chapter \in Table /\ backup \in Table /\ clock \in 0..MaxClock /\ clock \in Nat
      /\ latest \in Urls \cup {Absent}
      /\ latest # Absent => latest \in Present(chapter)
      /\ IdsGiven(chapter) /\ IdsGiven(backup)
      /\ DatedBy(chapter, clock) /\ DatedBy(backup, clock)
      /\ latest # Absent => chapter[latest].readAt = clock
  BY DEF ListInv, TypeOK, Present
<1>2. \A u \in Present(chapter) : chapter[u] \in Row /\ u \in Urls
  BY <1>1 DEF Present, Table
\* What is left to show of an operation that keeps the clock and the latest.
<1>3. ASSUME chapter' \in Table, IdsGiven(chapter'), DatedBy(chapter', clock),
             UNCHANGED <<backup, clock, latest>>,
             latest # Absent => latest \in Present(chapter') /\ chapter'[latest].readAt = clock
      PROVE  ListInv'
  BY <1>1, <1>3 DEF ListInv, TypeOK, Present
<1>4. ASSUME NEW l \in Listings, FetchChapters(l)
      PROVE  ListInv'
  <2>1. chapter' = Reconciled(chapter, l) /\ UNCHANGED <<backup, clock, latest>>
    BY <1>4 DEF FetchChapters
  <2>2. /\ chapter' \in Table /\ IdsGiven(chapter')
        /\ \A u \in Present(chapter) : KeepsReading(chapter[u], chapter'[u])
                                       /\ chapter'[u].readAt = chapter[u].readAt
        /\ \A u \in Present(chapter') \ Present(chapter) : chapter'[u].readAt = 0
    BY <2>1, <1>1, Reconciling
  <2>3. DatedBy(chapter', clock)
    <3>1. \A u \in Present(chapter) : chapter[u].readAt <= clock
      BY <1>1 DEF DatedBy
    <3> QED BY <3>1, <2>2, <1>1 DEF DatedBy
  <2>4. latest # Absent => latest \in Present(chapter') /\ chapter'[latest].readAt = clock
    BY <2>2, <1>1, <1>2 DEF KeepsReading, Present
  <2> QED BY <2>1, <2>2, <2>3, <2>4, <1>3
<1>5. ASSUME NEW us \in SUBSET Urls, NEW patch \in Patches, UpdateChapters(us, patch)
      PROVE  ListInv'
  <2>1. /\ us \subseteq Present(chapter)
        /\ chapter' = [u \in Urls |-> IF u \in us THEN Patch(chapter[u], patch) ELSE chapter[u]]
        /\ UNCHANGED <<backup, clock, latest>>
    BY <1>5 DEF UpdateChapters
  <2>2. \A u \in Present(chapter) : /\ chapter'[u] \in Row /\ chapter'[u].id = chapter[u].id
                                    /\ chapter'[u].readAt = chapter[u].readAt
    BY <2>1, <1>2, Patching
  <2>3. \A u \in Urls \ Present(chapter) : chapter'[u] = Absent
    BY <2>1 DEF Present
  <2>4. chapter' \in Table /\ IdsGiven(chapter') /\ Present(chapter') = Present(chapter)
    BY <2>1, <2>2, <2>3, <1>1, Remade
  <2>5. DatedBy(chapter', clock)
    BY <2>2, <2>4, <1>1 DEF DatedBy
  <2> QED BY <2>1, <2>2, <2>4, <2>5, <1>1, <1>3
<1>6. ASSUME NEW v \in Urls, NEW page \in 0..LastPage, NEW finished \in BOOLEAN,
             RecordProgress(v, page, finished)
      PROVE  ListInv'
  <2> DEFINE row == Progress(chapter[v], page, finished, clock + 1)
  <2>1. /\ clock < MaxClock /\ v \in Present(chapter) /\ clock' = clock + 1
        /\ chapter' = [chapter EXCEPT ![v] = row] /\ latest' = v /\ backup' = backup
    BY <1>6 DEF RecordProgress
  <2>2. clock' \in 0..MaxClock /\ clock' \in Nat /\ clock <= clock'
    BY <2>1, <1>1, ChapterListAssumption
  <2>3. row \in Row /\ row.id = chapter[v].id /\ row.readAt = clock'
    BY <2>1, <2>2, <1>2, Progressing
  <2> HIDE DEF row
  <2>4. /\ chapter' = [u \in Urls |-> chapter'[u]] /\ chapter'[v] = row
        /\ \A u \in Urls : u # v => chapter'[u] = chapter[u]
    BY <2>1, <1>1 DEF Table
  <2>5. \A u \in Present(chapter) : chapter'[u] \in Row /\ chapter'[u].id = chapter[u].id
    BY <2>3, <2>4, <1>2
  <2>6. \A u \in Urls \ Present(chapter) : chapter'[u] = Absent
    BY <2>1, <2>4 DEF Present
  <2>7. chapter' \in Table /\ IdsGiven(chapter') /\ Present(chapter') = Present(chapter)
    BY <2>4, <2>5, <2>6, <1>1, Remade
  <2>8. DatedBy(chapter', clock')
    <3> SUFFICES ASSUME NEW u \in Present(chapter) PROVE chapter'[u].readAt <= clock'
      BY <2>7 DEF DatedBy
    <3>1. CASE u = v
      BY <3>1, <2>2, <2>3, <2>4
    <3>2. CASE u # v
      <4>1. chapter'[u].readAt = chapter[u].readAt /\ chapter[u].readAt <= clock
        BY <3>2, <2>4, <1>1, <1>2 DEF DatedBy
      <4>2. chapter[u].readAt \in Nat
        BY <1>2 DEF Row
      <4> QED BY <4>1, <4>2, <2>2, <1>1
    <3> QED BY <3>1, <3>2
  <2>9. DatedBy(backup', clock')
    <3> SUFFICES ASSUME NEW u \in Present(backup) PROVE backup[u].readAt <= clock'
      BY <2>1 DEF DatedBy
    <3>1. backup[u].readAt <= clock
      BY <1>1 DEF DatedBy
    <3>2. backup[u].readAt \in Nat
      BY <1>1 DEF Table, Present, Row
    <3> QED BY <3>1, <3>2, <2>2, <1>1
  <2>10. TypeOK'
    BY <2>1, <2>2, <2>7, <1>1 DEF TypeOK, Present
  <2>11. chapter'[latest'].readAt = clock'
    BY <2>1, <2>3, <2>4
  <2>12. IdsGiven(backup')
    BY <2>1, <1>1
  <2> QED BY <2>7, <2>8, <2>9, <2>10, <2>11, <2>12 DEF ListInv
<1>7. ASSUME NEW history \in BOOLEAN, CreateBackup(history)
      PROVE  ListInv'
  <2>1. /\ backup' = [u \in Urls |-> IF chapter[u] = Absent \/ history THEN chapter[u]
                                     ELSE Forget(chapter[u])]
        /\ UNCHANGED <<chapter, clock, latest>>
    BY <1>7 DEF CreateBackup
  <2>2. \A u \in Present(chapter) : /\ backup'[u] \in Row /\ backup'[u].id = chapter[u].id
                                    /\ backup'[u].readAt \in {chapter[u].readAt, 0}
    BY <2>1, <1>2, Forgetting
  <2>3. \A u \in Urls \ Present(chapter) : backup'[u] = Absent
    BY <2>1 DEF Present
  <2>4. backup' \in Table /\ IdsGiven(backup') /\ Present(backup') = Present(chapter)
    BY <2>1, <2>2, <2>3, <1>1, Remade
  <2>5. DatedBy(backup', clock)
    BY <2>2, <2>4, <1>1 DEF DatedBy
  <2> QED BY <2>1, <2>4, <2>5, <1>1 DEF ListInv, TypeOK, Present
<1>8. CASE RestoreBackup
  <2>1. chapter' = Restoration(chapter, backup) /\ UNCHANGED <<backup, clock, latest>>
    BY <1>8 DEF RestoreBackup, Restoration
  <2>2. /\ chapter' \in Table /\ IdsGiven(chapter')
        /\ \A u \in Present(chapter) :
              /\ KeepsReading(chapter[u], chapter'[u])
              /\ DatedBy(backup, clock) /\ chapter[u].readAt = clock =>
                    chapter'[u].readAt = clock
        /\ DatedBy(chapter, clock) /\ DatedBy(backup, clock) => DatedBy(chapter', clock)
    BY <2>1, <1>1, Restoring
  <2>3. latest # Absent => latest \in Present(chapter') /\ chapter'[latest].readAt = clock
    BY <2>2, <1>1, <1>2 DEF KeepsReading, Present
  <2> QED BY <2>1, <2>2, <2>3, <1>1, <1>3
<1>9. CASE RemoveAccount
  <2>1. /\ chapter' = NoChapters /\ latest' = Absent /\ backup' = backup /\ clock' = clock
    BY <1>9 DEF RemoveAccount
  <2> QED BY <2>1, <1>1, EmptyTable DEF ListInv, TypeOK
<1>10. CASE UNCHANGED listVars
  BY <1>10 DEF listVars, ListInv, TypeOK, IdsGiven, DatedBy, Present
<1> QED BY <1>4, <1>5, <1>6, <1>7, <1>8, <1>9, <1>10 DEF ListNext

\* The invariant holds of every reachable state.
LEMMA ListInvHolds == ListSpec => []ListInv
BY ListInvInitially, ListInvStep, PTL DEF ListSpec

(***************************************************************************)
(* Theorems.                                                               *)
(***************************************************************************)

\* Rows are of the schema's kinds and the chapter read last is still there;
\* and no bulk edit, refresh or restore moves another chapter past it.
THEOREM ChaptersStayKept == ListSpec => []ChaptersKept
<1>1. ListInv => ChaptersKept
  BY DEF ListInv, ChaptersKept, LatestLeads, DatedBy
<1> QED BY <1>1, ListInvHolds, PTL

\* A refresh gives every chapter an order of its own, 1..n.
THEOREM RefreshesSeparate == ListSpec => RefreshSeparates
<1>1. ListInv => InOrder(chapter') \/ ~\E l \in Listings : FetchChapters(l)
  BY Reconciling DEF ListInv, TypeOK, FetchChapters
<1> QED BY <1>1, ListInvHolds, PTL DEF RefreshSeparates

\* Refreshes and restores lose nothing of what the reader did.
THEOREM ReadingAlwaysSurvives == ListSpec => ReadingSurvives
<1> DEFINE Kept == \A u \in Present(chapter) :
                      KeepsReading(chapter[u], chapter'[u]) \/ TakesBack(u) \/ RemoveAccount
<1>1. ListInv /\ [ListNext]_listVars => [Kept]_listVars
  <2> SUFFICES ASSUME ListInv, ListNext PROVE Kept
    OBVIOUS
  <2>1. /\ chapter \in Table /\ backup \in Table
        /\ IdsGiven(chapter) /\ IdsGiven(backup)
    BY DEF ListInv, TypeOK
  <2>2. ASSUME NEW u \in Present(chapter), chapter'[u] = chapter[u]
        PROVE  KeepsReading(chapter[u], chapter'[u])
    <3>1. chapter[u] \in Row /\ chapter[u] # Absent
      BY <2>1 DEF Table, Present
    <3>2. chapter[u].last \in Nat /\ chapter[u].readAt \in Nat
      BY <3>1 DEF Row
    <3> QED BY <2>2, <3>1, <3>2 DEF KeepsReading
  <2>3. ASSUME NEW l \in Listings, FetchChapters(l)
        PROVE  Kept
    BY <2>1, <2>3, Reconciling DEF FetchChapters
  <2>4. ASSUME NEW us \in SUBSET Urls, NEW patch \in Patches, UpdateChapters(us, patch)
        PROVE  Kept
    <3> SUFFICES ASSUME NEW u \in Present(chapter), u \notin us
                 PROVE  KeepsReading(chapter[u], chapter'[u])
      BY <2>4 DEF TakesBack
    <3>1. chapter'[u] = chapter[u]
      BY <2>4 DEF UpdateChapters, Present
    <3> QED BY <3>1, <2>2
  <2>5. ASSUME NEW v \in Urls, NEW page \in 0..LastPage, NEW finished \in BOOLEAN,
               RecordProgress(v, page, finished)
        PROVE  Kept
    <3> SUFFICES ASSUME NEW u \in Present(chapter)
                 PROVE  KeepsReading(chapter[u], chapter'[u]) \/ TakesBack(u)
      OBVIOUS
    <3>1. CASE u = v
      <4>1. chapter'[u] = Progress(chapter[u], page, finished, clock + 1)
        BY <3>1, <2>1, <2>5 DEF RecordProgress, Table
      <4>2. chapter[u] \in Row /\ clock + 1 \in 0..MaxClock
        BY <2>1, <2>5, ChapterListAssumption
           DEF Table, Present, ListInv, TypeOK, RecordProgress
      <4>3. chapter[u].read => chapter'[u].read
        BY <4>1, <4>2, Progressing
      <4> QED BY <3>1, <4>3, <2>5 DEF TakesBack
    <3>2. CASE u # v
      <4>1. chapter'[u] = chapter[u]
        BY <3>2, <2>1, <2>5 DEF RecordProgress, Table, Present
      <4> QED BY <4>1, <2>2
    <3> QED BY <3>1, <3>2
  <2>6. ASSUME NEW history \in BOOLEAN, CreateBackup(history)
        PROVE  Kept
    BY <2>2, <2>6 DEF CreateBackup
  <2>7. CASE RestoreBackup
    <3>1. chapter' = Restoration(chapter, backup)
      BY <2>7 DEF RestoreBackup, Restoration
    <3> QED BY <3>1, <2>1, Restoring
  <2>8. CASE RemoveAccount
    BY <2>8
  <2> QED BY <2>3, <2>4, <2>5, <2>6, <2>7, <2>8 DEF ListNext
<1> QED BY <1>1, ListInvHolds, PTL DEF ListSpec, ReadingSurvives

-----------------------------------------------------------------------------
(***************************************************************************)
(* The invariant: wherever an image is kept for page i of a chapter, it is *)
(* page i of that chapter, of whichever edition; only among the files of a *)
(* download that is being taken away it may be a later one.                *)
(***************************************************************************)

\* An image of page i of chapter u, or none.
ImageOf(u, i) == {m \in MaybeImage : m # NoImage => m.chapter = u /\ m.page = i}

\* An image of page i of chapter u or of a later page.
LaterImageOf(u, i) ==
    {m \in MaybeImage : m # NoImage => m.chapter = u /\ m.page \in Pages /\ m.page >= i}

\* A list whose i-th row leads to page i of chapter u, or nowhere.
ListOf(u, rows) ==
    /\ rows \in Seq(PageRow)
    /\ \A i \in 1..Len(rows) :
          /\ i \in Pages
          /\ rows[i].url \in ImageOf(u, i)
          /\ rows[i].image \in ImageOf(u, i)

\* A download whose i-th file is page i of chapter u, as long as it is whole.
FilesOf(u, files, whole) ==
    /\ files \in Seq(Image)
    /\ \A i \in 1..Len(files) :
          /\ i \in Pages
          /\ files[i] \in LaterImageOf(u, i)
          /\ whole => files[i] \in ImageOf(u, i)

\* A request has in hand, or was answered with, the page it asked for.
CallKept(r) ==
    /\ r \in Call
    /\ r.at # "answered" => r.chapter \in Urls
    /\ r.at \in {"resolving", "fetching"} => r.index \in Pages
    /\ r.source \in ImageOf(r.chapter, r.index)
    /\ r.image \in LaterImageOf(r.chapter, r.index)
    /\ ~r.thin => r.image \in ImageOf(r.chapter, r.index)

ListsInv == chapter \in Table /\ backup \in Table /\ IdsGiven(chapter)
EditionsInv == edition \in [Urls -> Editions]
PagesInv == pages \in [Urls -> Seq(PageRow)] /\ \A u \in Urls : ListOf(u, pages[u])
DiskInv ==
    /\ disk \in [Urls -> Seq(Image)] /\ thinned \subseteq Urls
    /\ \A u \in Urls : FilesOf(u, disk[u], u \notin thinned)
CacheInv ==
    /\ cache \in [Urls -> [Pages -> MaybeImage]]
    /\ \A u \in Urls : \A i \in Pages : cache[u][i] \in ImageOf(u, i)
BrowserInv == browser \in [Held -> MaybeImage]
CallsInv == call \in [Calls -> Call] /\ \A c \in Calls : CallKept(call[c])

ReaderInv ==
    ListsInv /\ EditionsInv /\ PagesInv /\ DiskInv /\ CacheInv /\ BrowserInv /\ CallsInv

(***************************************************************************)
(* Lists and what is served from them.                                     *)
(***************************************************************************)

\* No image is an image of every page.
LEMMA NoneIsOfAny == \A u, i : NoImage \in ImageOf(u, i) /\ NoImage \in LaterImageOf(u, i)
BY DEF ImageOf, LaterImageOf, MaybeImage

\* The page itself is one of those from it on.
LEMMA ItselfIsLater ==
    ASSUME NEW u, NEW i
    PROVE  ImageOf(u, i) \subseteq LaterImageOf(u, i)
<1>1. \A m \in Image : m.page \in Pages /\ m.page >= m.page
  BY ReaderAssumption DEF Image, Pages
<1> QED BY <1>1 DEF ImageOf, LaterImageOf, MaybeImage

\* What the source publishes as a page is an image of that page.
LEMMA PublishedIsOf ==
    ASSUME EditionsInv, NEW u \in Urls, NEW i \in Pages
    PROVE  Published(u, i) \in Image /\ Published(u, i) \in ImageOf(u, i)
<1>1. edition[u] \in Editions
  BY DEF EditionsInv
<1>2. Published(u, i) \in Image /\ Published(u, i).chapter = u /\ Published(u, i).page = i
  BY <1>1 DEF Published, Image
<1> QED BY <1>2 DEF ImageOf, MaybeImage

\* An edition has at most the most pages.
LEMMA EditionSize ==
    ASSUME EditionsInv, NEW u \in Urls
    PROVE  /\ PageCount[edition[u]] \in 0..MostPages
           /\ \A i \in 1..PageCount[edition[u]] : i \in Pages
<1>1. edition[u] \in 1..Len(PageCount)
  BY DEF EditionsInv, Editions
<1>2. PageCount[edition[u]] \in 0..MostPages /\ MostPages \in Nat
  BY <1>1, ReaderAssumption
<1> QED BY <1>2 DEF Pages

\* The source's list leads to the pages it names.
LEMMA SourceListIsOf ==
    ASSUME EditionsInv, NEW u \in Urls
    PROVE  ListOf(u, SourceRows(u))
<1> DEFINE n == PageCount[edition[u]]
           rows == SourceRows(u)
<1>1. n \in Nat /\ \A i \in 1..n : i \in Pages
  BY EditionSize
<1>2. \A i \in 1..n : /\ rows[i].url \in ImageOf(u, i)
                      /\ rows[i].image \in ImageOf(u, i)
                      /\ rows[i] \in PageRow
  <2> TAKE i \in 1..n
  <2> DEFINE image == IF u \in NeedsResolve THEN NoImage ELSE Published(u, i)
  <2>1. Published(u, i) \in ImageOf(u, i)
    BY <1>1, PublishedIsOf
  <2>2. image \in ImageOf(u, i)
    BY <2>1, NoneIsOfAny
  <2>3. rows[i] = [url |-> Published(u, i), image |-> image]
    BY DEF SourceRows
  <2> HIDE DEF rows, image
  <2> QED BY <2>1, <2>2, <2>3 DEF ImageOf, PageRow
<1>3. Len(rows) = n /\ rows \in Seq(PageRow)
  <2>1. rows = [i \in 1..n |-> rows[i]]
    BY DEF SourceRows
  <2> HIDE DEF rows, n
  <2> QED BY <2>1, <1>1, <1>2
<1> QED BY <1>1, <1>2, <1>3 DEF ListOf

\* A list made from a download leads nowhere.
LEMMA LocalListIsOf ==
    ASSUME DiskInv, NEW u \in Urls
    PROVE  ListOf(u, LocalRows(u))
<1> DEFINE n == Len(disk[u])
           rows == LocalRows(u)
<1>1. n \in Nat /\ \A i \in 1..n : i \in Pages
  BY DEF DiskInv, FilesOf
<1>2. \A i \in 1..n : rows[i] = [url |-> NoImage, image |-> NoImage]
  BY DEF LocalRows
<1>3. Len(rows) = n /\ rows \in Seq(PageRow)
  <2>1. rows = [i \in 1..n |-> rows[i]]
    BY DEF LocalRows
  <2>2. \A i \in 1..n : rows[i] \in PageRow
    BY <1>2 DEF PageRow, MaybeImage
  <2> HIDE DEF rows, n
  <2> QED BY <2>1, <2>2, <1>1
<1> QED BY <1>1, <1>2, <1>3, NoneIsOfAny DEF ListOf

\* A request that is over has nothing in hand.
LEMMA NoCallIsKept == CallKept(NoCall)
<1>1. NoCall \in Call
  BY ReaderAssumption DEF NoCall, Call, MaybeImage
<1> QED BY <1>1, NoneIsOfAny DEF CallKept, NoCall

\* An answer keeps what the request asked for.
LEMMA AnsweringKeeps ==
    ASSUME NEW r, CallKept(r), NEW image \in LaterImageOf(r.chapter, r.index),
           NEW thin \in BOOLEAN, thin \/ image \in ImageOf(r.chapter, r.index)
    PROVE  CallKept(Answered(r, image, thin))
<1> DEFINE a == [NoCall EXCEPT !.chapter = r.chapter, !.index = r.index,
                               !.image = image, !.thin = thin]
<1>1. /\ r.chapter \in Urls \cup {Absent} /\ r.index \in 0..MostPages
      /\ image \in MaybeImage
  BY DEF CallKept, Call, LaterImageOf
<1>2. /\ a.at = "answered" /\ a.chapter = r.chapter /\ a.index = r.index
      /\ a.image = image /\ a.source = NoImage /\ a.thin = thin
  BY DEF NoCall
<1>3. a \in Call
  BY <1>1 DEF NoCall, Call, MaybeImage
<1> HIDE DEF a
<1>4. CallKept(a)
  BY <1>2, <1>3, NoneIsOfAny DEF CallKept
<1>5. Answered(r, image, thin) = NoCall \/ Answered(r, image, thin) = a
  BY DEF Answered, a
<1> QED BY <1>4, <1>5, NoCallIsKept

\* A request that goes on to the source carries the page it asked for.
LEMMA GoingOnKeeps ==
    ASSUME NEW r, CallKept(r), r.at # "answered", r.index \in Pages,
           NEW at \in {"resolving", "fetching"},
           NEW source \in ImageOf(r.chapter, r.index)
    PROVE  CallKept([r EXCEPT !.at = at, !.source = source])
<1> DEFINE next == [r EXCEPT !.at = at, !.source = source]
<1>1. /\ r \in Call /\ r.chapter \in Urls
      /\ r.image \in LaterImageOf(r.chapter, r.index)
      /\ ~r.thin => r.image \in ImageOf(r.chapter, r.index)
      /\ source \in MaybeImage
  BY DEF CallKept, ImageOf
<1>2. /\ next \in Call /\ next.chapter = r.chapter /\ next.index = r.index
      /\ next.source = source /\ next.image = r.image /\ next.thin = r.thin
  BY <1>1 DEF Call
<1> HIDE DEF next
<1>3. CallKept(next)
  BY <1>1, <1>2 DEF CallKept
<1> QED BY <1>3 DEF next

\* Whatever a list serves, from disk, cache or source, is what was asked for.
LEMMA ServingKeeps ==
    ASSUME DiskInv, CacheInv, NEW r, CallKept(r), r.at = "listing",
           NEW rows, ListOf(r.chapter, rows)
    PROVE  CallKept(Served(r, rows))
<1> DEFINE u == r.chapter
           i == r.index
           kept == IF FromDisk(u, i) # NoImage THEN FromDisk(u, i) ELSE cache[u][i]
           row == rows[i]
           thin == FromDisk(u, i) # NoImage /\ u \in thinned
<1>1. u \in Urls /\ i \in 0..MostPages
  BY DEF CallKept, Call
<1>2. CASE i \notin 1..Len(rows)
  <2>1. Served(r, rows) = NoCall
    BY <1>2 DEF Served
  <2> QED BY <2>1, NoCallIsKept
<1>3. CASE i \in 1..Len(rows)
  <2>1. i \in Pages /\ row.url \in ImageOf(u, i) /\ row.image \in ImageOf(u, i)
    BY <1>3 DEF ListOf
  <2>2. /\ FromDisk(u, i) \in LaterImageOf(u, i)
        /\ u \in thinned \/ FromDisk(u, i) \in ImageOf(u, i)
    <3>1. CASE i <= Len(disk[u])
      <4>1. Len(disk[u]) \in Nat
        BY <1>1 DEF DiskInv
      <4>2. i \in 1..Len(disk[u])
        BY <3>1, <4>1, <2>1 DEF Pages
      <4>3. /\ disk[u][i] \in LaterImageOf(u, i)
            /\ u \in thinned \/ disk[u][i] \in ImageOf(u, i)
        BY <4>2, <1>1 DEF DiskInv, FilesOf
      <4> QED BY <3>1, <4>3 DEF FromDisk
    <3>2. CASE ~(i <= Len(disk[u]))
      BY <3>2, NoneIsOfAny DEF FromDisk
    <3> QED BY <3>1, <3>2
  <2>3. kept \in LaterImageOf(u, i) /\ thin \in BOOLEAN /\ (thin \/ kept \in ImageOf(u, i))
    <3>1. cache[u][i] \in ImageOf(u, i) /\ cache[u][i] \in LaterImageOf(u, i)
      BY <1>1, <2>1, ItselfIsLater DEF CacheInv
    <3> QED BY <2>2, <3>1
  <2>4. \/ Served(r, rows) = Answered(r, kept, thin)
        \/ Served(r, rows) = [r EXCEPT !.at = "fetching", !.source = row.image]
        \/ Served(r, rows) = [r EXCEPT !.at = "resolving", !.source = row.url]
        \/ Served(r, rows) = NoCall
    <3> HIDE DEF kept, row, thin
    <3>1. CASE kept # NoImage
      BY <1>3, <3>1 DEF Served, kept, row, thin
    <3>2. CASE kept = NoImage /\ row.image # NoImage
      BY <1>3, <3>2 DEF Served, kept, row, thin
    <3>3. CASE kept = NoImage /\ row.image = NoImage
      BY <1>3, <3>3 DEF Served, kept, row, thin
    <3> QED BY <3>1, <3>2, <3>3
  <2> HIDE DEF kept, row, thin
  <2>5. CallKept(Answered(r, kept, thin))
    BY <2>3, AnsweringKeeps
  <2>6. CallKept([r EXCEPT !.at = "fetching", !.source = row.image])
    BY <2>1, GoingOnKeeps
  <2>7. CallKept([r EXCEPT !.at = "resolving", !.source = row.url])
    BY <2>1, GoingOnKeeps
  <2> QED BY <2>4, <2>5, <2>6, <2>7, NoCallIsKept
<1> QED BY <1>2, <1>3

\* A request goes on, and the browser keeps an image of some page.
LEMMA ReplyingKeeps ==
    ASSUME CallsInv, BrowserInv, NEW c \in Calls, NEW r, NEW next, CallKept(next),
           Reply(c, r, next)
    PROVE  CallsInv' /\ BrowserInv'
<1>1. call' = [call EXCEPT ![c] = next]
  BY DEF Reply
<1>2. CallsInv'
  BY <1>1 DEF CallsInv, CallKept
<1>3. next.image \in MaybeImage
  BY DEF CallKept, Call
<1>4. BrowserInv'
  BY <1>3 DEF Reply, BrowserInv
<1> QED BY <1>2, <1>4

\* A chapter's stored list is replaced by another of its lists.
LEMMA StoringKeeps ==
    ASSUME PagesInv, NEW u \in Urls, NEW rows, ListOf(u, rows),
           pages' = [pages EXCEPT ![u] = rows]
    PROVE  PagesInv'
<1>1. rows \in Seq(PageRow)
  BY DEF ListOf
<1>2. pages' \in [Urls -> Seq(PageRow)]
  BY <1>1 DEF PagesInv
<1>3. ASSUME NEW v \in Urls PROVE ListOf(v, pages'[v])
  BY DEF PagesInv
<1> QED BY <1>2, <1>3 DEF PagesInv

(***************************************************************************)
(* Every operation keeps the invariant.                                    *)
(***************************************************************************)

\* At first there is nothing to serve.
LEMMA ReaderInvInitially == ReaderInit => ReaderInv
<1> SUFFICES ASSUME ReaderInit PROVE ReaderInv
  OBVIOUS
<1>1. ListsInv
  BY EmptyTable DEF ReaderInit, ListInit, ListsInv
<1>2. EditionsInv
  <2>1. 1 \in Editions
    BY ReaderAssumption DEF Editions
  <2> QED BY <2>1 DEF ReaderInit, EditionsInv
<1>3. PagesInv
  BY DEF ReaderInit, PagesInv, ListOf
<1>4. DiskInv
  BY DEF ReaderInit, DiskInv, FilesOf
<1>5. CacheInv
  BY NoneIsOfAny DEF ReaderInit, CacheInv, MaybeImage
<1>6. BrowserInv
  BY DEF ReaderInit, BrowserInv, MaybeImage
<1>7. CallsInv
  BY NoCallIsKept DEF ReaderInit, CallsInv, CallKept
<1> QED BY <1>1, <1>2, <1>3, <1>4, <1>5, <1>6, <1>7 DEF ReaderInv

\* A request, up to its first wait.
LEMMA RequestKeeps ==
    ASSUME ReaderInv, NEW c \in Calls, NEW u \in Urls, NEW i \in 0..MostPages,
           Request(c, u, i)
    PROVE  ReaderInv'
<1> DEFINE r == Asked(u, i)
<1>0. /\ ListsInv /\ EditionsInv /\ PagesInv /\ DiskInv /\ CacheInv /\ BrowserInv /\ CallsInv
      /\ UNCHANGED <<listVars, edition, disk, thinned, cache>>
  BY DEF ReaderInv, Request
<1>1. /\ r.at = "listing" /\ r.chapter = u /\ CallKept(r)
  <2>1. chapter[u].order \in Nat
    BY <1>0 DEF Request, Present, ListsInv, Table, Row
  <2>2. r \in Call
    BY <2>1 DEF Asked, Call, MaybeImage
  <2>3. /\ r.at = "listing" /\ r.chapter = u /\ r.source = NoImage /\ r.image = NoImage /\ r.thin = FALSE
    BY DEF Asked
  <2> QED BY <2>2, <2>3, NoneIsOfAny DEF CallKept
<1>2. /\ ListOf(u, pages[u]) /\ ListOf(u, LocalRows(u))
  BY <1>0, LocalListIsOf DEF PagesInv
<1>3. \/ Reply(c, r, Served(r, pages[u])) /\ UNCHANGED pages
      \/ Reply(c, r, Served(r, LocalRows(u)))
         /\ pages' = [pages EXCEPT ![u] = LocalRows(u)]
      \/ Reply(c, r, r) /\ UNCHANGED pages
  BY DEF Request, WritePages
<1> HIDE DEF r
<1>4. /\ CallKept(Served(r, pages[u])) /\ CallKept(Served(r, LocalRows(u)))
  BY <1>0, <1>1, <1>2, ServingKeeps
<1>5. CallsInv' /\ BrowserInv'
  BY <1>0, <1>1, <1>3, <1>4, ReplyingKeeps
<1>6. PagesInv'
  <2>1. CASE UNCHANGED pages
    BY <2>1, <1>0 DEF PagesInv
  <2>2. CASE pages' = [pages EXCEPT ![u] = LocalRows(u)]
    BY <2>2, <1>0, <1>2, StoringKeeps
  <2> QED BY <2>1, <2>2, <1>3
<1> QED BY <1>0, <1>5, <1>6
        DEF ReaderInv, ListsInv, EditionsInv, DiskInv, CacheInv, listVars

\* The source's list, whenever it arrives.
LEMMA ListArrivesKeeps ==
    ASSUME ReaderInv, NEW c \in Calls, ListArrives(c)
    PROVE  ReaderInv'
<1> DEFINE r == call[c]
           rows == SourceRows(r.chapter)
<1>0. /\ ListsInv /\ EditionsInv /\ PagesInv /\ DiskInv /\ CacheInv /\ BrowserInv /\ CallsInv
      /\ UNCHANGED <<listVars, edition, disk, thinned, cache>>
  BY DEF ReaderInv, ListArrives
<1>1. /\ r.at = "listing" /\ Reply(c, r, Served(r, rows))
      /\ pages' = [pages EXCEPT ![r.chapter] = rows]
  BY DEF ListArrives, WritePages
<1>2. CallKept(r) /\ r.chapter \in Urls
  BY <1>0, <1>1 DEF CallsInv, CallKept
<1>3. ListOf(r.chapter, rows)
  BY <1>0, <1>2, SourceListIsOf
<1> HIDE DEF r, rows
<1>4. CallKept(Served(r, rows))
  BY <1>0, <1>1, <1>2, <1>3, ServingKeeps
<1>5. CallsInv' /\ BrowserInv'
  BY <1>0, <1>1, <1>4, ReplyingKeeps
<1>6. PagesInv'
  BY <1>0, <1>1, <1>2, <1>3, StoringKeeps
<1> QED BY <1>0, <1>5, <1>6
        DEF ReaderInv, ListsInv, EditionsInv, DiskInv, CacheInv, listVars

\* A resolved image, written to whichever list is stored by now.
LEMMA ResolvedKeeps ==
    ASSUME ReaderInv, NEW c \in Calls, Resolved(c)
    PROVE  ReaderInv'
<1> DEFINE r == call[c]
           old == pages[r.chapter]
           rows == [i \in 1..Len(old) |->
                      IF i = r.index THEN [old[i] EXCEPT !.image = r.source] ELSE old[i]]
           next == [r EXCEPT !.at = "fetching"]
<1>0. /\ ListsInv /\ EditionsInv /\ PagesInv /\ DiskInv /\ CacheInv /\ BrowserInv /\ CallsInv
      /\ UNCHANGED <<listVars, edition, disk, thinned, cache>>
  BY DEF ReaderInv, Resolved
<1>1. /\ r.at = "resolving" /\ Reply(c, r, next)
      /\ pages' = [pages EXCEPT ![r.chapter] = rows]
  BY DEF Resolved
<1>2. /\ CallKept(r) /\ r \in Call /\ r.chapter \in Urls /\ r.index \in Pages
      /\ r.source \in ImageOf(r.chapter, r.index)
  BY <1>0, <1>1 DEF CallsInv, CallKept
<1>3. ListOf(r.chapter, old)
  BY <1>0, <1>2 DEF PagesInv
<1> HIDE DEF r
<1>4. CallKept(next)
  <2>1. /\ next \in Call /\ next.chapter = r.chapter /\ next.index = r.index
        /\ next.source = r.source /\ next.image = r.image /\ next.thin = r.thin
    BY <1>2 DEF Call
  <2> HIDE DEF next
  <2> QED BY <2>1, <1>2 DEF CallKept
<1>5. ListOf(r.chapter, rows)
  <2>1. /\ Len(old) \in Nat
        /\ \A i \in 1..Len(old) : /\ old[i] \in PageRow /\ i \in Pages
                                  /\ old[i].url \in ImageOf(r.chapter, i)
                                  /\ old[i].image \in ImageOf(r.chapter, i)
    BY <1>3 DEF ListOf
  <2>2. \A i \in 1..Len(old) : /\ rows[i] \in PageRow
                               /\ rows[i].url \in ImageOf(r.chapter, i)
                               /\ rows[i].image \in ImageOf(r.chapter, i)
    <3> TAKE i \in 1..Len(old)
    <3>1. CASE i = r.index
      <4>1. r.source \in MaybeImage /\ r.source \in ImageOf(r.chapter, i)
        BY <3>1, <1>2 DEF ImageOf
      <4>2. rows[i] = [old[i] EXCEPT !.image = r.source]
        BY <3>1
      <4>3. rows[i] \in PageRow /\ rows[i].url = old[i].url /\ rows[i].image = r.source
        <5> HIDE DEF rows, old
        <5> QED BY <4>1, <4>2, <2>1 DEF PageRow
      <4> QED BY <4>1, <4>3, <2>1
    <3>2. CASE i # r.index
      BY <3>2, <2>1
    <3> QED BY <3>1, <3>2
  <2>3. rows \in Seq(PageRow) /\ Len(rows) = Len(old)
    <3>1. rows = [i \in 1..Len(old) |-> rows[i]]
      OBVIOUS
    <3> HIDE DEF rows, old
    <3> QED BY <3>1, <2>1, <2>2
  <2> HIDE DEF rows, old
  <2> QED BY <2>1, <2>2, <2>3 DEF ListOf
<1> HIDE DEF next, rows
<1>6. CallsInv' /\ BrowserInv'
  BY <1>0, <1>1, <1>4, ReplyingKeeps
<1>7. PagesInv'
  BY <1>0, <1>1, <1>2, <1>5, StoringKeeps
<1> QED BY <1>0, <1>6, <1>7
        DEF ReaderInv, ListsInv, EditionsInv, DiskInv, CacheInv, listVars

\* The image arrives, and is kept or not.
LEMMA FetchedKeeps ==
    ASSUME ReaderInv, NEW c \in Calls, NEW kept \in BOOLEAN, Fetched(c, kept)
    PROVE  ReaderInv'
<1> DEFINE r == call[c]
<1>0. /\ ListsInv /\ EditionsInv /\ PagesInv /\ DiskInv /\ CacheInv /\ BrowserInv /\ CallsInv
      /\ UNCHANGED <<listVars, edition, pages, disk, thinned>>
  BY DEF ReaderInv, Fetched
<1>1. /\ r.at = "fetching" /\ Reply(c, r, Answered(r, r.source, FALSE))
      /\ cache' = IF kept THEN [cache EXCEPT ![r.chapter][r.index] = r.source] ELSE cache
  BY DEF Fetched
<1>2. /\ CallKept(r) /\ r.chapter \in Urls /\ r.index \in Pages
      /\ r.source \in ImageOf(r.chapter, r.index) /\ r.source \in MaybeImage
  BY <1>0, <1>1 DEF CallsInv, CallKept, ImageOf
<1> HIDE DEF r
<1>3. CallKept(Answered(r, r.source, FALSE))
  <2>1. r.source \in LaterImageOf(r.chapter, r.index)
    BY <1>2, ItselfIsLater
  <2> QED BY <2>1, <1>2, AnsweringKeeps
<1>4. CallsInv' /\ BrowserInv'
  BY <1>0, <1>1, <1>3, ReplyingKeeps
<1>5. CacheInv'
  <2>1. CASE ~kept
    BY <2>1, <1>0, <1>1 DEF CacheInv
  <2>2. CASE kept
    <3>1. cache' \in [Urls -> [Pages -> MaybeImage]]
      BY <2>2, <1>0, <1>1, <1>2 DEF CacheInv
    <3>2. ASSUME NEW u \in Urls, NEW i \in Pages
          PROVE  cache'[u][i] \in ImageOf(u, i)
      <4>1. CASE u = r.chapter /\ i = r.index
        BY <4>1, <2>2, <1>0, <1>1, <1>2 DEF CacheInv
      <4>2. CASE ~(u = r.chapter /\ i = r.index)
        BY <4>2, <2>2, <1>0, <1>1, <1>2 DEF CacheInv
      <4> QED BY <4>1, <4>2
    <3> QED BY <3>1, <3>2 DEF CacheInv
  <2> QED BY <2>1, <2>2
<1> QED BY <1>0, <1>4, <1>5
        DEF ReaderInv, ListsInv, EditionsInv, PagesInv, DiskInv, listVars

\* A download of the present edition is of its pages.
LEMMA DownloadedKeeps ==
    ASSUME ReaderInv, NEW u \in Urls, Downloaded(u)
    PROVE  ReaderInv'
<1> DEFINE n == PageCount[edition[u]]
           files == [i \in 1..n |-> Published(u, i)]
<1>0. /\ ListsInv /\ EditionsInv /\ PagesInv /\ DiskInv /\ CacheInv /\ BrowserInv /\ CallsInv
      /\ UNCHANGED <<listVars, edition, pages, thinned, cache, browser, call>>
      /\ disk' = [disk EXCEPT ![u] = files]
  BY DEF ReaderInv, Downloaded
<1>1. n \in Nat /\ \A i \in 1..n : i \in Pages
  BY <1>0, EditionSize
<1>2. \A i \in 1..n : files[i] \in Image /\ files[i] \in ImageOf(u, i)
  BY <1>0, <1>1, PublishedIsOf
<1>3. FilesOf(u, files, u \notin thinned)
  <2>1. files = [i \in 1..n |-> files[i]]
    OBVIOUS
  <2> HIDE DEF files, n
  <2>2. files \in Seq(Image) /\ Len(files) = n
    BY <2>1, <1>1, <1>2
  <2> QED BY <2>2, <1>1, <1>2, ItselfIsLater DEF FilesOf
<1> HIDE DEF files, n
<1>4. DiskInv'
  BY <1>0, <1>3 DEF DiskInv, FilesOf
<1> QED BY <1>0, <1>4
        DEF ReaderInv, ListsInv, EditionsInv, PagesInv, CacheInv, BrowserInv, CallsInv,
            CallKept, listVars

\* Without one of its files, a download has each of the others where it was, or
\* one place before.
LEMMA FilesWithout ==
    ASSUME NEW u \in Urls, NEW files, NEW whole, FilesOf(u, files, whole),
           NEW k \in 1..Len(files), Len(files) > 1
    PROVE  FilesOf(u, Without(files, k), FALSE)
<1> DEFINE n == Len(files) - 1
           rest == Without(files, k)
<1>1. Len(files) \in Nat /\ n \in Nat /\ files \in Seq(Image)
  BY DEF FilesOf
<1>2. /\ rest = [i \in 1..n |-> rest[i]]
      /\ \A i \in 1..n : rest[i] = IF i < k THEN files[i] ELSE files[i + 1]
  BY DEF Without
<1>3. ASSUME NEW i \in 1..n
      PROVE  i \in Pages /\ rest[i] \in Image /\ rest[i] \in LaterImageOf(u, i)
  <2>1. i \in 1..Len(files) /\ i + 1 \in 1..Len(files)
    BY <1>1
  <2>2. /\ i \in Pages /\ files[i] \in Image /\ files[i + 1] \in Image
        /\ files[i] \in LaterImageOf(u, i) /\ files[i + 1] \in LaterImageOf(u, i + 1)
    BY <1>1, <2>1 DEF FilesOf
  <2>3. \A m \in LaterImageOf(u, i + 1) : m \in LaterImageOf(u, i)
    <3>1. \A page \in Pages : page >= i + 1 => page >= i
      BY ReaderAssumption DEF Pages
    <3> QED BY <3>1 DEF LaterImageOf
  <2>4. rest[i] = files[i] \/ rest[i] = files[i + 1]
    BY <1>2
  <2> QED BY <2>2, <2>3, <2>4
<1> HIDE DEF rest, n
<1>4. rest \in Seq(Image) /\ Len(rest) = n
  BY <1>1, <1>2, <1>3
<1>5. FilesOf(u, rest, FALSE)
  BY <1>3, <1>4 DEF FilesOf
<1> QED BY <1>5 DEF rest

\* A file goes.
LEMMA RemoveFileKeeps ==
    ASSUME ReaderInv, NEW u \in Urls, NEW k \in Pages, RemoveFile(u, k)
    PROVE  ReaderInv'
<1>0. /\ ListsInv /\ EditionsInv /\ PagesInv /\ DiskInv /\ CacheInv /\ BrowserInv /\ CallsInv
      /\ UNCHANGED <<listVars, edition, pages, cache, browser, call>>
      /\ disk' = [disk EXCEPT ![u] = Without(disk[u], k)]
      /\ thinned' = thinned \cup {u}
      /\ Len(disk[u]) > 1 /\ k \in 1..Len(disk[u])
  BY DEF ReaderInv, RemoveFile
<1>1. FilesOf(u, Without(disk[u], k), FALSE)
  BY <1>0, FilesWithout DEF DiskInv
<1>2. Without(disk[u], k) \in Seq(Image)
  BY <1>1 DEF FilesOf
<1>3. ASSUME NEW v \in Urls PROVE FilesOf(v, disk'[v], v \notin thinned')
  <2>1. CASE v = u
    <3>1. disk'[v] = Without(disk[u], k) /\ (v \notin thinned') = FALSE
      BY <1>0, <2>1 DEF DiskInv
    <3> QED BY <1>1, <2>1, <3>1
  <2>2. CASE v # u
    <3>1. disk'[v] = disk[v] /\ (v \notin thinned' => v \notin thinned)
      BY <1>0, <2>2 DEF DiskInv
    <3> QED BY <1>0, <3>1 DEF DiskInv, FilesOf
  <2> QED BY <2>1, <2>2
<1>4. DiskInv'
  BY <1>0, <1>2, <1>3 DEF DiskInv
<1> QED BY <1>0, <1>4
        DEF ReaderInv, ListsInv, EditionsInv, PagesInv, CacheInv, BrowserInv, CallsInv,
            CallKept, listVars

\* Every step keeps the invariant.
LEMMA ReaderInvStep == ReaderInv /\ [Next]_vars => ReaderInv'
<1> SUFFICES ASSUME ReaderInv, [Next]_vars PROVE ReaderInv'
  OBVIOUS
<1>0. ListsInv /\ EditionsInv /\ PagesInv /\ DiskInv /\ CacheInv /\ BrowserInv /\ CallsInv
  BY DEF ReaderInv
<1>1. ASSUME NEW c \in Calls, NEW u \in Urls, NEW i \in Pages, ReadPage(c, u, i)
      PROVE  ReaderInv'
  <2>1. i \in 0..MostPages /\ Request(c, u, i)
    BY <1>1, ReaderAssumption DEF Pages, ReadPage
  <2> QED BY <2>1, RequestKeeps
<1>2. ASSUME NEW c \in Calls, NEW u \in Urls, FetchChapterPages(c, u)
      PROVE  ReaderInv'
  <2>1. 0 \in 0..MostPages /\ Request(c, u, 0)
    BY <1>2, ReaderAssumption DEF FetchChapterPages
  <2> QED BY <2>1, RequestKeeps
<1>3. ASSUME NEW c \in Calls, ListArrives(c)
      PROVE  ReaderInv'
  BY <1>3, ListArrivesKeeps
<1>4. ASSUME NEW c \in Calls, Resolved(c)
      PROVE  ReaderInv'
  BY <1>4, ResolvedKeeps
<1>5. ASSUME NEW c \in Calls, Fails(c)
      PROVE  ReaderInv'
  <2>1. CallsInv' /\ BrowserInv'
    BY <1>0, <1>5, NoCallIsKept, ReplyingKeeps DEF Fails
  <2> QED BY <2>1, <1>0, <1>5
          DEF Fails, ReaderInv, ListsInv, EditionsInv, PagesInv, DiskInv, CacheInv, listVars
<1>6. ASSUME NEW c \in Calls, NEW kept \in BOOLEAN, Fetched(c, kept)
      PROVE  ReaderInv'
  BY <1>6, FetchedKeeps
<1>7. ASSUME NEW u \in Urls, Downloaded(u)
      PROVE  ReaderInv'
  BY <1>7, DownloadedKeeps
<1>8. ASSUME NEW u \in Urls, DeleteDownloaded(u)
      PROVE  ReaderInv'
  <2>1. DiskInv'
    BY <1>0, <1>8 DEF DeleteDownloaded, DiskInv, FilesOf
  <2> QED BY <2>1, <1>0, <1>8
          DEF DeleteDownloaded, ReaderInv, ListsInv, EditionsInv, PagesInv, CacheInv,
              BrowserInv, CallsInv, CallKept, listVars
<1>9. ASSUME NEW u \in Urls, Republish(u)
      PROVE  ReaderInv'
  <2>1. EditionsInv'
    <3>1. edition[u] + 1 \in Editions
      BY <1>0, <1>9, ReaderAssumption DEF Republish, EditionsInv, Editions
    <3> QED BY <3>1, <1>0, <1>9 DEF Republish, EditionsInv
  <2> QED BY <2>1, <1>0, <1>9
          DEF Republish, ReaderInv, ListsInv, PagesInv, DiskInv, CacheInv,
              BrowserInv, CallsInv, CallKept, listVars
<1>10. ASSUME NEW h \in Held, Forgotten(h)
       PROVE  ReaderInv'
  <2>1. BrowserInv'
    BY <1>0, <1>10 DEF Forgotten, BrowserInv, MaybeImage
  <2> QED BY <2>1, <1>0, <1>10
          DEF Forgotten, ReaderInv, ListsInv, EditionsInv, PagesInv, DiskInv, CacheInv,
              CallsInv, CallKept, listVars
<1>11. CASE Refresh
  <2>1. PICK l \in Listings : FetchChapters(l) /\ UNCHANGED readerVars
    BY <1>11 DEF Refresh
  <2>2. ListsInv'
    BY <2>1, <1>0, Reconciling DEF ListsInv, FetchChapters
  <2> QED BY <2>1, <2>2, <1>0
          DEF ReaderInv, EditionsInv, PagesInv, DiskInv, CacheInv, BrowserInv, CallsInv,
              CallKept, readerVars
<1>12. CASE UNCHANGED vars
  BY <1>0, <1>12
     DEF ReaderInv, ListsInv, EditionsInv, PagesInv, DiskInv, CacheInv, BrowserInv, CallsInv,
         CallKept, vars, readerVars, listVars
<1>13. ASSUME NEW u \in Urls, NEW k \in Pages, RemoveFile(u, k)
       PROVE  ReaderInv'
  BY <1>13, RemoveFileKeeps
<1> QED
  BY <1>1, <1>2, <1>3, <1>4, <1>5, <1>6, <1>7, <1>8, <1>9, <1>10, <1>11, <1>12, <1>13 DEF Next

\* The invariant holds of every reachable state.
LEMMA ReaderInvHolds == Spec => []ReaderInv
BY ReaderInvInitially, ReaderInvStep, PTL DEF Spec

(***************************************************************************)
(* Theorems.                                                               *)
(***************************************************************************)

\* Lists, files, answers and requests are of their kinds, and no stored list
\* is longer than the longest the source published.
THEOREM ReaderTypes == Spec => []ReaderTypeOK
<1>1. ReaderInv => ReaderTypeOK
  <2> SUFFICES ASSUME ReaderInv PROVE ReaderTypeOK
    OBVIOUS
  <2>1. ASSUME NEW u \in Urls PROVE Len(pages[u]) <= MostPages
    <3>1. Len(pages[u]) \in Nat /\ \A i \in 1..Len(pages[u]) : i \in 1..MostPages
      BY DEF ReaderInv, PagesInv, ListOf, Pages
    <3>2. CASE Len(pages[u]) = 0
      BY <3>2, ReaderAssumption
    <3>3. CASE Len(pages[u]) # 0
      <4>1. Len(pages[u]) \in 1..Len(pages[u])
        BY <3>1, <3>3
      <4> QED BY <4>1, <3>1
    <3> QED BY <3>2, <3>3
  <2> QED BY <2>1
          DEF ReaderTypeOK, ReaderInv, ListsInv, EditionsInv, PagesInv, DiskInv, CacheInv,
              BrowserInv, CallsInv
<1> QED BY <1>1, ReaderInvHolds, PTL

\* A page request is answered with the page it asked for, wherever the bytes
\* were found and whatever happened to lists and files while it waited; out of
\* a download whose files are being taken away, with that page or a later one.
THEOREM RequestsGetTheirPage == Spec => []ServedIsThePage
<1>1. ReaderInv => ServedIsThePage
  <2> SUFFICES ASSUME ReaderInv, NEW c \in Calls, call[c].image # NoImage
               PROVE  /\ call[c].image.chapter = call[c].chapter
                      /\ call[c].image.page >= call[c].index
                      /\ ~call[c].thin => call[c].image.page = call[c].index
    BY DEF ServedIsThePage
  <2>1. CallKept(call[c])
    BY DEF ReaderInv, CallsInv
  <2> QED BY <2>1 DEF CallKept, ImageOf, LaterImageOf
<1> QED BY <1>1, ReaderInvHolds, PTL

(***************************************************************************)
(* A stored list is never a mixture.                                       *)
(***************************************************************************)

WholeOf(u, rows) ==
    \/ \A i \in 1..Len(rows) : rows[i].url = NoImage
    \/ \E e \in Editions :
          /\ Len(rows) = PageCount[e]
          /\ \A i \in 1..Len(rows) : rows[i].url = [chapter |-> u, edition |-> e, page |-> i]

\* The source's list is the whole of the present edition.
LEMMA SourceListIsWhole ==
    ASSUME EditionsInv, NEW u \in Urls
    PROVE  WholeOf(u, SourceRows(u))
<1> DEFINE n == PageCount[edition[u]]
           rows == SourceRows(u)
<1>1. n \in Nat /\ edition[u] \in Editions
  BY EditionSize DEF EditionsInv
<1>2. /\ rows = [i \in 1..n |-> rows[i]]
      /\ \A i \in 1..n : rows[i].url = [chapter |-> u, edition |-> edition[u], page |-> i]
  BY DEF SourceRows, Published
<1> HIDE DEF rows
<1>3. Len(rows) = n
  <2> HIDE DEF n
  <2> QED BY <1>1, <1>2
<1>4. WholeOf(u, rows)
  BY <1>1, <1>2, <1>3 DEF WholeOf
<1> QED BY <1>4 DEF rows

\* Every step leaves whole lists whole.
LEMMA WholeStep == ReaderInv /\ ListIsWhole /\ [Next]_vars => ListIsWhole'
<1> SUFFICES ASSUME ReaderInv, ListIsWhole, [Next]_vars PROVE ListIsWhole'
  OBVIOUS
<1>1. EditionsInv /\ PagesInv /\ DiskInv /\ CallsInv
  BY DEF ReaderInv
<1>2. \A u \in Urls : WholeOf(u, pages[u])
  BY DEF ListIsWhole, WholeOf
<1>3. ASSUME NEW u \in Urls, NEW rows, WholeOf(u, rows), pages' = [pages EXCEPT ![u] = rows]
      PROVE  ListIsWhole'
  <2>1. \A v \in Urls : WholeOf(v, pages'[v])
    BY <1>1, <1>2, <1>3 DEF PagesInv
  <2> QED BY <2>1 DEF ListIsWhole, WholeOf
<1>4. ASSUME UNCHANGED pages PROVE ListIsWhole'
  BY <1>4 DEF ListIsWhole
<1>5. ASSUME NEW c \in Calls, NEW u \in Urls, NEW i, Request(c, u, i)
      PROVE  ListIsWhole'
  <2>1. UNCHANGED pages \/ pages' = [pages EXCEPT ![u] = LocalRows(u)]
    BY <1>5 DEF Request, WritePages
  <2>2. WholeOf(u, LocalRows(u))
    <3>1. Len(LocalRows(u)) = Len(disk[u])
      <4>1. Len(disk[u]) \in Nat
        BY <1>1 DEF DiskInv
      <4> QED BY <4>1 DEF LocalRows
    <3>2. \A j \in 1..Len(disk[u]) : LocalRows(u)[j].url = NoImage
      BY DEF LocalRows
    <3> QED BY <3>1, <3>2 DEF WholeOf
  <2> QED BY <2>1, <2>2, <1>3, <1>4
<1>6. ASSUME NEW c \in Calls, ListArrives(c)
      PROVE  ListIsWhole'
  <2> DEFINE u == call[c].chapter
  <2>1. u \in Urls
    BY <1>1, <1>6 DEF ListArrives, CallsInv, CallKept
  <2>2. pages' = [pages EXCEPT ![u] = SourceRows(u)]
    BY <1>6 DEF ListArrives, WritePages
  <2>3. WholeOf(u, SourceRows(u))
    BY <1>1, <2>1, SourceListIsWhole
  <2> HIDE DEF u
  <2> QED BY <2>1, <2>2, <2>3, <1>3
<1>7. ASSUME NEW c \in Calls, Resolved(c)
      PROVE  ListIsWhole'
  <2> DEFINE r == call[c]
             old == pages[r.chapter]
             rows == [i \in 1..Len(old) |->
                        IF i = r.index THEN [old[i] EXCEPT !.image = r.source] ELSE old[i]]
  <2>1. r.chapter \in Urls
    BY <1>1, <1>7 DEF Resolved, CallsInv, CallKept
  <2>2. pages' = [pages EXCEPT ![r.chapter] = rows]
    BY <1>7 DEF Resolved
  <2>3. Len(old) \in Nat /\ \A i \in 1..Len(old) : old[i] \in PageRow
    BY <1>1, <2>1 DEF PagesInv
  <2>4. WholeOf(r.chapter, old)
    BY <1>2, <2>1
  <2> HIDE DEF r, old
  <2>5. Len(rows) = Len(old)
    BY <2>3
  <2>6. \A i \in 1..Len(old) : rows[i].url = old[i].url
    BY <2>3 DEF PageRow
  <2> HIDE DEF rows
  <2>7. WholeOf(r.chapter, rows)
    BY <2>4, <2>5, <2>6 DEF WholeOf
  <2> QED BY <2>1, <2>2, <2>7, <1>3
<1>8. CASE Refresh \/ UNCHANGED vars
  BY <1>4, <1>8 DEF Refresh, vars, readerVars
<1> QED BY <1>4, <1>5, <1>6, <1>7, <1>8
        DEF Next, ReadPage, FetchChapterPages, Fails, Fetched, Downloaded, DeleteDownloaded,
            RemoveFile, Republish, Forgotten

\* Two requests that both found no list do not leave a mixture of two
\* editions, nor of an edition and a download.
THEOREM ListsAreWhole == Spec => []ListIsWhole
<1>1. ReaderInit => ListIsWhole
  BY DEF ReaderInit, ListIsWhole
<1> QED BY <1>1, WholeStep, ReaderInvHolds, PTL DEF Spec

==============================================================================
