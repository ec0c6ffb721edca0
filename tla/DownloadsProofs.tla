--------------------------- MODULE DownloadsProofs ---------------------------
(***************************************************************************)
(* Theorems about the downloader, for every number of accounts, chapters,  *)
(* pages, slots and tries.  The first part has the facts about the queue   *)
(* statements of DownloadQueue, for every table; the second the invariant  *)
(* the other theorems rest on; the third says what the states, the tries   *)
(* and the positions of the queue mean and how many attempts there are;    *)
(* then, that every step of Downloads is a step of DownloaderContract or   *)
(* changes nothing the contract speaks of, and that rows leave the queue   *)
(* only for a reason; the last is about the files: a finished form is      *)
(* whole, and a resumed attempt fetches only what is missing.              *)
(***************************************************************************)
EXTENDS Downloads, FiniteOrders

-----------------------------------------------------------------------------
(* Tables.                                                                 *)

\* A table whose primary keys are among the first n.
IsTable(q, n) ==
    /\ DOMAIN q \subseteq 1..n
    /\ \A i \in DOMAIN q : q[i] \in Row

\* The part of QueueIsPerAccount that speaks of the table.
PerAccount(q) ==
    /\ \A i \in DOMAIN q : q[i].user = Owner[q[i].chapter]
    /\ \A i, j \in DOMAIN q : q[i].chapter = q[j].chapter => i = j

\* PositionsDistinct as a property of a table.
Distinct(q) ==
    \A i, j \in DOMAIN q : q[i].user = q[j].user /\ q[i].position = q[j].position => i = j

(* Every set of rows of a table is finite. *)
LEMMA RowsFinite ==
  ASSUME NEW q, NEW n \in Nat, IsTable(q, n), NEW S \in SUBSET DOMAIN q
  PROVE  IsFiniteSet(S) /\ Cardinality(S) \in Nat
<1>1. IsFiniteSet(1..n)
  BY FS_Interval
<1>2. S \in SUBSET (1..n)
  BY DEF IsTable
<1>3. IsFiniteSet(S)
  BY <1>1, <1>2, FS_Subset
<1> QED  BY <1>3, FS_CardinalityType

(* NextPosition is a number past the positions of all of the account's rows. *)
LEMMA NextPositionIsPast ==
  ASSUME NEW q, NEW n \in Nat, IsTable(q, n), NEW u
  PROVE  /\ NextPosition(q, u) \in Nat
         /\ \A i \in RowsOf(q, u) : q[i].position < NextPosition(q, u)
<1> DEFINE mine == RowsOf(q, u)
           past == [i \in mine |-> q[i].position + 1]
           P == {past[i] : i \in mine}
           C == {0} \cup {q[i].position + 1 : i \in mine}
           Past(m) == \A i \in mine : q[i].position < m
<1>1. mine \in SUBSET DOMAIN q /\ \A i \in mine : q[i].position \in Nat
  BY DEF RowsOf, IsTable, Row
<1>2. C \subseteq Nat
  BY <1>1
<1>3. \E m \in C : Past(m)
  <2>1. CASE mine = {}
    BY <2>1
  <2>2. CASE mine # {}
    <3>1. IsFiniteSet(mine)
      BY <1>1, RowsFinite
    <3>2. past \in Surjection(mine, P)
      BY DEF Surjection
    <3>3. IsFiniteSet(P)
      <4> HIDE DEF past, P, mine
      <4> QED  BY <3>1, <3>2, FS_Surjection
    <3>4. P \in SUBSET Int /\ P # {}
      BY <1>1, <2>2
    <3>5. PICK m \in P : \A x \in P : x <= m
      <4> HIDE DEF P
      <4> QED  BY <3>3, <3>4, FiniteHasMax
    <3>6. \A i \in mine : q[i].position + 1 <= m
      BY <3>5
    <3>7. m \in C /\ m \in Nat
      BY <1>1
    <3> QED  BY <1>1, <3>6, <3>7
  <2> QED  BY <2>1, <2>2
<1>4. NextPosition(q, u) = CHOOSE m \in C : Past(m)
  BY DEF NextPosition
<1>5. NextPosition(q, u) \in C /\ Past(NextPosition(q, u))
  <2> HIDE DEF C, Past
  <2> QED  BY <1>3, <1>4
<1> QED  BY <1>2, <1>5

(* An account with a waiting row has a head of its queue, and nextQueued   *)
(* returns it.                                                             *)
LEMMA NextQueuedIsHead ==
  ASSUME NEW q, NEW n \in Nat, IsTable(q, n), NEW u, HasQueuedWork(q, u)
  PROVE  IsHead(q, u, NextQueued(q, u))
<1> DEFINE Q == QueuedRows(q, u)
           at == [i \in Q |-> q[i].position]
           P == {at[i] : i \in Q}
<1>1. /\ Q \in SUBSET DOMAIN q
      /\ Q # {}
      /\ \A i \in Q : q[i].position \in Nat
      /\ Q \in SUBSET Int
  BY DEF HasQueuedWork, QueuedRows, RowsOf, IsTable, Row
<1>2. IsFiniteSet(Q)
  BY <1>1, RowsFinite
<1>3. P \in SUBSET Int /\ P # {} /\ IsFiniteSet(P)
  <2>1. at \in Surjection(Q, P)
    BY DEF Surjection
  <2>2. IsFiniteSet(P)
    <3> HIDE DEF at, P, Q
    <3> QED  BY <1>2, <2>1, FS_Surjection
  <2> QED  BY <1>1, <2>2
<1>4. PICK p \in P : \A x \in P : p <= x
  <2> HIDE DEF P
  <2> QED  BY <1>3, FiniteHasMin
<1> DEFINE F == {i \in Q : q[i].position = p}
<1>5. F \in SUBSET Int /\ F # {} /\ F \in SUBSET DOMAIN q
  BY <1>1, <1>4
<1>6. IsFiniteSet(F)
  BY <1>5, RowsFinite
<1>7. PICK i \in F : \A j \in F : i <= j
  <2> HIDE DEF F
  <2> QED  BY <1>5, <1>6, FiniteHasMin
<1>8. IsHead(q, u, i)
  <2>1. ASSUME NEW j \in Q \ {i} PROVE Before(q, i, j)
    <3>1. q[i].position = p /\ q[i].position \in Nat /\ q[j].position \in Nat /\ p <= q[j].position
      BY <1>1, <1>4, <1>7, <2>1
    <3>2. CASE q[j].position = p
      <4>1. i <= j /\ i # j /\ i \in Int /\ j \in Int
        BY <1>1, <1>7, <2>1, <3>2
      <4> QED  BY <3>1, <3>2, <4>1 DEF Before
    <3>3. CASE q[j].position # p
      BY <3>1, <3>3 DEF Before
    <3> QED  BY <3>2, <3>3
  <2> QED  BY <2>1, <1>7 DEF IsHead
<1>9. i \in QueuedRows(q, u)
  BY <1>7
<1> QED  BY <1>8, <1>9 DEF NextQueued

(* Rank numbers the rows of one account within S: a row that comes before  *)
(* another has the smaller rank, so no two share one.                      *)
LEMMA RankOrdersRows ==
  ASSUME NEW q, NEW n \in Nat, IsTable(q, n), NEW S \in SUBSET DOMAIN q
  PROVE  /\ \A i \in DOMAIN q : Rank(q, S, i) \in Nat
         /\ \A i, j \in S : q[i].user = q[j].user /\ i # j
                => Rank(q, S, i) # Rank(q, S, j)
<1> DEFINE Below(i) == {k \in S : q[k].user = q[i].user /\ Before(q, k, i)}
<1>1. \A i \in DOMAIN q : i \in Nat /\ q[i].position \in Nat
  BY DEF IsTable, Row
<1>2. \A i \in DOMAIN q : Below(i) \in SUBSET DOMAIN q /\ Rank(q, S, i) = Cardinality(Below(i))
  BY DEF Rank
<1>3. \A i \in DOMAIN q : Rank(q, S, i) \in Nat
  <2> SUFFICES ASSUME NEW i \in DOMAIN q PROVE Rank(q, S, i) \in Nat
    OBVIOUS
  <2> HIDE DEF Below
  <2> QED  BY <1>2, RowsFinite
<1>4. ASSUME NEW i \in S, NEW j \in S, q[i].user = q[j].user, Before(q, i, j)
      PROVE  Rank(q, S, i) < Rank(q, S, j)
  <2>1. i \in Below(j) /\ i \notin Below(i)
    BY <1>1, <1>4 DEF Before
  <2>2. Below(i) \subseteq Below(j)
    BY <1>1, <1>4 DEF Before
  <2>3. IsFiniteSet(Below(j))
    <3> HIDE DEF Below
    <3> QED  BY <1>2, RowsFinite
  <2>4. Cardinality(Below(i)) < Cardinality(Below(j))
    <3> HIDE DEF Below
    <3> QED  BY <2>1, <2>2, <2>3, LargerSet
  <2> QED  BY <1>2, <2>4
<1>5. ASSUME NEW i \in S, NEW j \in S, q[i].user = q[j].user, i # j
      PROVE  Rank(q, S, i) # Rank(q, S, j)
  <2>1. Before(q, i, j) \/ Before(q, j, i)
    BY <1>1, <1>5 DEF Before
  <2>2. Rank(q, S, i) \in Nat /\ Rank(q, S, j) \in Nat
    BY <1>3
  <2>3. CASE Before(q, i, j)
    BY <1>4, <1>5, <2>2, <2>3
  <2>4. CASE Before(q, j, i)
    <3>1. Rank(q, S, j) < Rank(q, S, i)
      BY <1>4, <1>5, <2>4
    <3> QED  BY <2>2, <3>1
  <2> QED  BY <2>1, <2>3, <2>4
<1> QED  BY <1>3, <1>5

\* The rows of the table r are rows of q, moved at most.
MovesRows(q, r) ==
    /\ DOMAIN r \subseteq DOMAIN q
    /\ \A i \in DOMAIN r : r[i] = [q[i] EXCEPT !.position = r[i].position]

(* Moved rows keep everything else, their owner and chapter included.      *)
LEMMA MovedRows ==
  ASSUME NEW q, NEW n \in Nat, IsTable(q, n), NEW r, MovesRows(q, r),
         \A i \in DOMAIN r : r[i].position \in Nat
  PROVE  /\ IsTable(r, n)
         /\ PerAccount(q) => PerAccount(r)
         /\ \A i \in DOMAIN r :
                /\ r[i].user = q[i].user
                /\ r[i].chapter = q[i].chapter
                /\ r[i].state = q[i].state
                /\ r[i].tries = q[i].tries
                /\ r[i].failed = q[i].failed
<1>1. \A i \in DOMAIN r : q[i] \in Row
  BY DEF MovesRows, IsTable
<1>2. \A i \in DOMAIN r :
        /\ r[i].user = q[i].user
        /\ r[i].chapter = q[i].chapter
        /\ r[i].state = q[i].state
        /\ r[i].tries = q[i].tries
        /\ r[i].failed = q[i].failed
        /\ r[i] \in Row
  BY <1>1 DEF MovesRows, Row
<1> QED  BY <1>2 DEF IsTable, PerAccount, MovesRows

(* renumber moves rows and does nothing else, and leaves no two rows of an *)
(* account at one position.                                                *)
LEMMA RenumberLeaves ==
  ASSUME NEW q, NEW n \in Nat, IsTable(q, n), NEW u
  PROVE  /\ DOMAIN Renumber(q, u) = DOMAIN q
         /\ MovesRows(q, Renumber(q, u))
         /\ \A i \in DOMAIN q : Renumber(q, u)[i].position \in Nat
         /\ Distinct(q) => Distinct(Renumber(q, u))
<1> DEFINE r == Renumber(q, u)
<1>1. DOMAIN r = DOMAIN q
  BY DEF Renumber
<1>2. \A i \in DOMAIN q : Rank(q, DOMAIN q, i) \in Nat
  BY RankOrdersRows
<1>3. ASSUME NEW i \in DOMAIN q
      PROVE  /\ r[i].user = q[i].user
             /\ r[i] = [q[i] EXCEPT !.position = r[i].position]
             /\ r[i].position = IF q[i].user = u THEN Rank(q, DOMAIN q, i) ELSE q[i].position
             /\ r[i].position \in Nat
  <2>1. q[i] \in Row
    BY <1>3 DEF IsTable
  <2> QED  BY <1>2, <2>1 DEF Renumber, Row
<1>4. ASSUME Distinct(q) PROVE Distinct(r)
  <2> SUFFICES ASSUME NEW i \in DOMAIN q, NEW j \in DOMAIN q,
                      r[i].user = r[j].user, r[i].position = r[j].position, i # j
               PROVE  FALSE
    BY <1>1 DEF Distinct
  <2>1. q[i].user = q[j].user
    BY <1>3
  <2>2. Rank(q, DOMAIN q, i) # Rank(q, DOMAIN q, j)
    BY <2>1, RankOrdersRows
  <2>3. CASE q[i].user = u
    <3>1. r[i].position = Rank(q, DOMAIN q, i) /\ r[j].position = Rank(q, DOMAIN q, j)
      BY <1>3, <2>1, <2>3
    <3> HIDE DEF r
    <3> QED  BY <2>2, <3>1
  <2>4. CASE q[i].user # u
    BY <1>3, <1>4, <2>1, <2>4 DEF Distinct
  <2> QED  BY <2>3, <2>4
<1> QED  BY <1>1, <1>3, <1>4 DEF MovesRows

(* Deleting rows disturbs none of the others.                              *)
LEMMA DeleteLeaves ==
  ASSUME NEW q, NEW n \in Nat, IsTable(q, n), NEW ids
  PROVE  /\ DOMAIN Delete(q, ids) = DOMAIN q \ ids
         /\ \A i \in DOMAIN q \ ids : Delete(q, ids)[i] = q[i]
         /\ IsTable(Delete(q, ids), n)
         /\ PerAccount(q) => PerAccount(Delete(q, ids))
         /\ Distinct(q) => Distinct(Delete(q, ids))
BY DEF Delete, IsTable, PerAccount, Distinct

(* enqueue leaves the rows there were alone and appends fresh rows of the  *)
(* account's own chapters past its tail: no chapter is queued twice and no *)
(* position is taken twice, gaps in the positions or not.                  *)
LEMMA EnqueueAppends ==
  ASSUME NEW q, NEW n \in Nat, IsTable(q, n), NEW there, NEW u \in Users,
         NEW wanted \in Seq(Chapters),
         \A j, k \in DOMAIN wanted : wanted[j] = wanted[k] => j = k
  PROVE  LET r == Enqueue(q, n, there, u, wanted)
         IN  /\ IsTable(r, n + Len(wanted))
             /\ DOMAIN q \subseteq DOMAIN r
             /\ \A i \in DOMAIN q : r[i] = q[i]
             /\ \A i \in DOMAIN r \ DOMAIN q :
                    /\ i > n
                    /\ r[i].user = u
                    /\ r[i].state = "QUEUED"
                    /\ r[i].tries = 0
                    /\ r[i].failed = 0
             /\ PerAccount(q) => PerAccount(r)
             /\ Distinct(q) => Distinct(r)
<1> DEFINE r == Enqueue(q, n, there, u, wanted)
           accepted == Accepted(q, there, u, wanted)
           fresh == {n + k : k \in accepted}
           tail == NextPosition(q, u)
           earlier(k) == {j \in accepted : j < k}
<1>1. /\ accepted \subseteq 1..Len(wanted)
      /\ Len(wanted) \in Nat
      /\ \A k \in accepted : /\ wanted[k] \in Chapters
                             /\ Owner[wanted[k]] = u
                             /\ \A i \in DOMAIN q : q[i].chapter # wanted[k]
  BY DEF Accepted, Acceptable
<1>2. /\ fresh \subseteq (n+1)..(n + Len(wanted))
      /\ fresh \cap DOMAIN q = {}
      /\ \A i \in fresh : i - n \in accepted
  BY <1>1 DEF IsTable
<1>3. DOMAIN r = DOMAIN q \cup fresh
  BY DEF Enqueue
<1>4. \A k \in accepted : IsFiniteSet(earlier(k)) /\ Cardinality(earlier(k)) \in Nat
  <2>0. 1 \in Int /\ Len(wanted) \in Int
    OBVIOUS
  <2>1. IsFiniteSet(1..Len(wanted))
    BY <2>0, FS_Interval
  <2> SUFFICES ASSUME NEW k \in accepted
               PROVE  IsFiniteSet(earlier(k)) /\ Cardinality(earlier(k)) \in Nat
    OBVIOUS
  <2>2. earlier(k) \in SUBSET (1..Len(wanted))
    BY <1>1
  <2>3. IsFiniteSet(earlier(k))
    <3> HIDE DEF earlier
    <3> QED  BY <2>1, <2>2, FS_Subset
  <2> HIDE DEF earlier
  <2> QED  BY <2>3, FS_CardinalityType
<1>5. tail \in Nat /\ \A i \in RowsOf(q, u) : q[i].position < tail
  BY NextPositionIsPast
<1>6. \A i \in DOMAIN q : r[i] = q[i]
  BY <1>2 DEF Enqueue
<1>7. \A i \in fresh :
        r[i] = [user |-> u, chapter |-> wanted[i - n],
                position |-> tail + Cardinality(earlier(i - n)),
                state |-> "QUEUED", tries |-> 0, failed |-> 0]
  BY DEF Enqueue
<1>8. ASSUME NEW i \in fresh
      PROVE  /\ r[i].user = u
             /\ r[i].chapter = wanted[i - n]
             /\ r[i].position = tail + Cardinality(earlier(i - n))
             /\ r[i].position \in Nat
             /\ r[i].state = "QUEUED"
             /\ r[i].tries = 0
             /\ r[i].failed = 0
             /\ r[i] \in Row
  <2>1. i - n \in accepted
    BY <1>2, <1>8
  <2>2. Cardinality(earlier(i - n)) \in Nat /\ wanted[i - n] \in Chapters
    BY <1>1, <1>4, <2>1
  <2> DEFINE chapter == wanted[i - n]
             place == tail + Cardinality(earlier(i - n))
  <2>3. chapter \in Chapters /\ place \in Nat
    <3> HIDE DEF tail, earlier
    <3> QED  BY <1>5, <2>2
  <2>4. r[i] = [user |-> u, chapter |-> chapter, position |-> place,
                state |-> "QUEUED", tries |-> 0, failed |-> 0]
    BY <1>7, <1>8
  <2> HIDE DEF r, chapter, place, fresh
  <2>5. r[i] \in Row
    BY <2>3, <2>4 DEF Row, RowState
  <2>6. /\ r[i].user = u /\ r[i].chapter = chapter /\ r[i].position = place
        /\ r[i].state = "QUEUED" /\ r[i].tries = 0 /\ r[i].failed = 0
    BY <2>4
  <2> USE DEF chapter, place
  <2> QED  BY <2>3, <2>5, <2>6
<1>9. IsTable(r, n + Len(wanted))
  <2>1. DOMAIN r \subseteq 1..(n + Len(wanted))
    <3>1. DOMAIN q \subseteq 1..n
      BY DEF IsTable
    <3> DEFINE top == n + Len(wanted)
    <3>2. 1..n \subseteq 1..top /\ (n+1)..top \subseteq 1..top
      BY <1>1
    <3> HIDE DEF r, fresh, top
    <3>3. fresh \subseteq (n+1)..top
      BY <1>2 DEF top
    <3>4. DOMAIN r \subseteq 1..top
      BY <1>3, <3>1, <3>2, <3>3
    <3> QED  BY <3>4 DEF top
  <2>2. ASSUME NEW i \in DOMAIN r PROVE r[i] \in Row
    <3> HIDE DEF r, fresh, accepted
    <3>1. CASE i \in DOMAIN q
      BY <1>6, <3>1 DEF IsTable
    <3>2. CASE i \in fresh
      BY <1>8, <3>2
    <3> QED  BY <1>3, <2>2, <3>1, <3>2
  <2> HIDE DEF r
  <2> QED  BY <2>1, <2>2 DEF IsTable
<1>10. ASSUME PerAccount(q) PROVE PerAccount(r)
  <2>1. ASSUME NEW i \in DOMAIN r PROVE r[i].user = Owner[r[i].chapter]
    <3> HIDE DEF r, fresh
    <3>1. CASE i \in DOMAIN q
      BY <1>6, <1>10, <3>1 DEF PerAccount
    <3>2. CASE i \in fresh
      <4>1. r[i].user = u /\ r[i].chapter = wanted[i - n] /\ i - n \in accepted
        BY <1>2, <1>8, <3>2
      <4> QED  BY <1>1, <4>1
    <3> QED  BY <1>3, <2>1, <3>1, <3>2
  <2>2. ASSUME NEW i \in DOMAIN r, NEW j \in DOMAIN r, r[i].chapter = r[j].chapter
        PROVE  i = j
    <3> HIDE DEF r, fresh
    <3>1. CASE i \in DOMAIN q /\ j \in DOMAIN q
      BY <1>6, <1>10, <2>2, <3>1 DEF PerAccount
    <3>2. CASE i \in fresh /\ j \in DOMAIN q
      <4>1. r[i].chapter = wanted[i - n] /\ i - n \in accepted
        BY <1>2, <1>8, <3>2
      <4>2. q[j].chapter = wanted[i - n]
        BY <1>6, <2>2, <3>2, <4>1
      <4> QED  BY <1>1, <3>2, <4>1, <4>2
    <3>3. CASE i \in DOMAIN q /\ j \in fresh
      <4>1. r[j].chapter = wanted[j - n] /\ j - n \in accepted
        BY <1>2, <1>8, <3>3
      <4>2. q[i].chapter = wanted[j - n]
        BY <1>6, <2>2, <3>3, <4>1
      <4> QED  BY <1>1, <3>3, <4>1, <4>2
    <3>4. CASE i \in fresh /\ j \in fresh
      <4>0. DOMAIN wanted = 1..Len(wanted)
        OBVIOUS
      <4>1. wanted[i - n] = wanted[j - n] /\ i - n \in DOMAIN wanted /\ j - n \in DOMAIN wanted
        <5> HIDE DEF accepted
        <5> QED  BY <4>0, <1>1, <1>2, <1>8, <2>2, <3>4
      <4>2. i - n = j - n /\ i \in Int /\ j \in Int
        BY <4>1, <1>2, <3>4
      <4> QED  BY <4>2
    <3> QED  BY <1>3, <2>2, <3>1, <3>2, <3>3, <3>4
  <2> QED  BY <2>1, <2>2 DEF PerAccount
<1>11. ASSUME NEW i \in fresh, NEW j \in fresh, i < j PROVE r[i].position < r[j].position
  <2>1. i - n \in earlier(j - n) /\ i - n \notin earlier(i - n)
    BY <1>1, <1>2, <1>11
  <2>2. earlier(i - n) \subseteq earlier(j - n)
    BY <1>1, <1>2, <1>11
  <2>3. IsFiniteSet(earlier(j - n))
    BY <1>2, <1>4
  <2>4. /\ Cardinality(earlier(i - n)) < Cardinality(earlier(j - n))
        /\ Cardinality(earlier(i - n)) \in Nat
        /\ Cardinality(earlier(j - n)) \in Nat
    <3> HIDE DEF earlier
    <3> QED  BY <2>1, <2>2, <2>3, LargerSet
  <2> HIDE DEF r, fresh, earlier, tail
  <2> QED  BY <1>5, <1>8, <2>4
<1>12. ASSUME NEW i \in DOMAIN q, NEW j \in fresh, q[i].user = u PROVE r[i].position < r[j].position
  <2>1. q[i].position < tail /\ q[i].position \in Nat
    BY <1>5, <1>12 DEF RowsOf, IsTable, Row
  <2>2. Cardinality(earlier(j - n)) \in Nat
    BY <1>2, <1>4
  <2> HIDE DEF r, fresh, earlier, tail
  <2> QED  BY <1>5, <1>6, <1>8, <2>1, <2>2
<1>13. ASSUME Distinct(q) PROVE Distinct(r)
  <2> SUFFICES ASSUME NEW i \in DOMAIN r, NEW j \in DOMAIN r,
                      r[i].user = r[j].user, r[i].position = r[j].position
               PROVE  i = j
    BY DEF Distinct
  <2>1. \A k \in DOMAIN r : k \in Int /\ r[k].position \in Int
    BY <1>1, <1>9 DEF IsTable, Row
  <2> HIDE DEF r, fresh
  <2>2. CASE i \in DOMAIN q /\ j \in DOMAIN q
    BY <1>6, <1>13, <2>2 DEF Distinct
  <2>3. CASE i \in fresh /\ j \in DOMAIN q
    <3>1. q[j].user = u
      BY <1>6, <1>8, <2>3
    <3>2. r[j].position < r[i].position
      BY <1>12, <2>3, <3>1
    <3> QED  BY <2>1, <3>2
  <2>4. CASE i \in DOMAIN q /\ j \in fresh
    <3>1. q[i].user = u
      BY <1>6, <1>8, <2>4
    <3>2. r[i].position < r[j].position
      BY <1>12, <2>4, <3>1
    <3> QED  BY <2>1, <3>2
  <2>5. CASE i \in fresh /\ j \in fresh
    BY <1>11, <2>1, <2>5
  <2> QED  BY <1>3, <2>2, <2>3, <2>4, <2>5
<1>14. \A i \in DOMAIN r \ DOMAIN q : i \in fresh /\ i > n
  <2> HIDE DEF r, fresh
  <2>1. \A i \in fresh : i > n
    BY <1>1, <1>2
  <2> QED  BY <1>3, <2>1
<1> QED
  <2> HIDE DEF r, fresh
  <2>1. DOMAIN q \subseteq DOMAIN r
    BY <1>3
  <2>2. \A i \in DOMAIN r \ DOMAIN q :
            i > n /\ r[i].user = u /\ r[i].state = "QUEUED" /\ r[i].tries = 0 /\ r[i].failed = 0
    BY <1>8, <1>14
  <2> USE DEF r
  <2> QED  BY <1>6, <1>9, <1>10, <1>13, <2>1, <2>2

(* reorder moves rows and does nothing else, and leaves no two rows of an  *)
(* account at one position, whatever index the client computed.            *)
LEMMA ReorderLeaves ==
  ASSUME NEW q, NEW n \in Nat, IsTable(q, n), PerAccount(q),
         NEW u, NEW c, NEW to \in Int
  PROVE  LET r == Reorder(q, u, c, to)
         IN  /\ DOMAIN r = DOMAIN q
             /\ MovesRows(q, r)
             /\ \A i \in DOMAIN q : r[i].position \in Nat
             /\ Distinct(q) => Distinct(r)
<1> DEFINE r == Reorder(q, u, c, to)
           mine == RowsOf(q, u)
           moved == {i \in mine : q[i].chapter = c}
           others == mine \ moved
           target == Clamp(to, Cardinality(others))
           place(i) == Rank(q, others, i)
           pos(i) == IF i \in moved THEN target
                     ELSE IF i \in others
                     THEN IF place(i) < target THEN place(i) ELSE place(i) + 1
                     ELSE q[i].position
<1>1. mine \in SUBSET DOMAIN q /\ moved \in SUBSET mine /\ others \in SUBSET DOMAIN q
  BY DEF RowsOf
<1>2. target \in Nat
  <2>1. Cardinality(others) \in Nat
    <3> HIDE DEF others
    <3> QED  BY <1>1, RowsFinite
  <2> HIDE DEF others
  <2> QED  BY <2>1 DEF Clamp
<1>3. /\ \A i \in DOMAIN q : place(i) \in Nat
      /\ \A i, j \in others : i # j => place(i) # place(j)
  <2>1. \A i, j \in others : q[i].user = q[j].user
    BY DEF RowsOf
  <2> HIDE DEF others
  <2> QED  BY <1>1, <2>1, RankOrdersRows
<1>4. CASE moved = {}
  <2>1. r = q
    BY <1>4 DEF Reorder
  <2>2. \A i \in DOMAIN q : q[i] = [q[i] EXCEPT !.position = q[i].position] /\ q[i].position \in Nat
    BY DEF IsTable, Row
  <2>3. MovesRows(q, r)
    <3> HIDE DEF r
    <3> QED  BY <2>1, <2>2 DEF MovesRows
  <2> HIDE DEF r
  <2>4. QED
    <3> USE DEF r
    <3> QED  BY <2>1, <2>2, <2>3
<1>5. CASE moved # {}
  <2>1. DOMAIN r = DOMAIN q
    BY <1>5 DEF Reorder
  <2>2. ASSUME NEW i \in DOMAIN q
        PROVE  r[i] = IF i \in moved \cup others THEN [q[i] EXCEPT !.position = pos(i)] ELSE q[i]
    BY <1>5, <2>2 DEF Reorder
  <2>3. \A i \in DOMAIN q : pos(i) \in Nat
    <3>1. \A i \in DOMAIN q : q[i].position \in Nat
      BY DEF IsTable, Row
    <3> HIDE DEF target, place, moved, others
    <3> QED  BY <1>2, <1>3, <3>1
  <2>4. ASSUME NEW i \in DOMAIN q
        PROVE  /\ r[i].position = pos(i)
               /\ r[i].user = q[i].user
               /\ r[i] = [q[i] EXCEPT !.position = r[i].position]
    <3>1. q[i] \in Row
      BY <2>4 DEF IsTable
    <3>2. i \notin moved \cup others => pos(i) = q[i].position
      OBVIOUS
    <3> HIDE DEF r, pos, moved, others
    <3> QED  BY <2>2, <2>4, <3>1, <3>2 DEF Row
  <2>5. \A i, j \in moved : PerAccount(q) => i = j
    BY DEF PerAccount, RowsOf
  <2>6. ASSUME NEW i \in mine, NEW j \in mine, i # j PROVE pos(i) # pos(j)
    <3>1. i \in moved \/ i \in others
      BY <2>6
    <3>2. j \in moved \/ j \in others
      BY <2>6
    <3>3. moved \cap others = {} /\ i \in DOMAIN q /\ j \in DOMAIN q
      BY <1>1, <2>6
    <3> HIDE DEF target, place, moved, others
    <3> QED  BY <1>2, <1>3, <2>5, <2>6, <3>1, <3>2, <3>3
  <2>7. ASSUME Distinct(q) PROVE Distinct(r)
    <3> SUFFICES ASSUME NEW i \in DOMAIN q, NEW j \in DOMAIN q,
                        r[i].user = r[j].user, r[i].position = r[j].position, i # j
                 PROVE  FALSE
      <4> HIDE DEF r
      <4> QED  BY <2>1 DEF Distinct
    <3>1. pos(i) = pos(j) /\ q[i].user = q[j].user
      <4> HIDE DEF r, pos
      <4> QED  BY <2>4
    <3>2. CASE q[i].user = u
      <4>1. i \in mine /\ j \in mine
        BY <3>1, <3>2 DEF RowsOf
      <4> HIDE DEF pos, mine
      <4> QED  BY <2>6, <3>1, <4>1
    <3>3. CASE q[i].user # u
      <4>1. pos(i) = q[i].position /\ pos(j) = q[j].position
        BY <3>1, <3>3 DEF RowsOf
      <4> HIDE DEF pos
      <4> QED  BY <2>7, <3>1, <4>1 DEF Distinct
    <3> QED  BY <3>2, <3>3
  <2>8. MovesRows(q, r) /\ \A i \in DOMAIN q : r[i].position \in Nat
    <3> HIDE DEF r, pos
    <3> QED  BY <2>1, <2>3, <2>4 DEF MovesRows
  <2> QED  BY <2>1, <2>7, <2>8
<1> QED  BY <1>4, <1>5

-----------------------------------------------------------------------------
(* What the statements do to the rows they leave.                          *)

\* The rows of r are rows of q: the same account and chapter.
Evolves(q, r) ==
    /\ DOMAIN r \subseteq DOMAIN q
    /\ \A i \in DOMAIN r : r[i] \in Row /\ r[i].user = q[i].user /\ r[i].chapter = q[i].chapter

\* Their state and their counts are the same as well.
SameProgress(q, r) ==
    \A i \in DOMAIN r :
        r[i].state = q[i].state /\ r[i].tries = q[i].tries /\ r[i].failed = q[i].failed

(* A table that evolves stays a table of each account's own chapters.      *)
LEMMA EvolvedTable ==
  ASSUME NEW q, NEW n \in Nat, IsTable(q, n), NEW r, Evolves(q, r)
  PROVE  /\ IsTable(r, n)
         /\ PerAccount(q) => PerAccount(r)
BY DEF IsTable, Evolves, PerAccount

(* dequeue takes out the account's rows of these chapters and no other.    *)
LEMMA DequeueLeaves ==
  ASSUME NEW q, NEW n \in Nat, IsTable(q, n), NEW u, NEW chapters
  PROVE  LET r == Dequeue(q, u, chapters)
         IN  /\ DOMAIN r = DOMAIN q \ {i \in RowsOf(q, u) : q[i].chapter \in chapters}
             /\ Evolves(q, r)
             /\ SameProgress(q, r)
             /\ Distinct(q) => Distinct(r)
<1> DEFINE ids == {i \in RowsOf(q, u) : q[i].chapter \in chapters}
           d == Delete(q, ids)
           r == Renumber(d, u)
<1>1. /\ DOMAIN d = DOMAIN q \ ids
      /\ \A i \in DOMAIN q \ ids : d[i] = q[i]
      /\ IsTable(d, n)
      /\ Distinct(q) => Distinct(d)
  <2> HIDE DEF ids
  <2> QED  BY DeleteLeaves
<1>2. /\ DOMAIN r = DOMAIN d
      /\ MovesRows(d, r)
      /\ \A i \in DOMAIN d : r[i].position \in Nat
      /\ Distinct(d) => Distinct(r)
  <2> HIDE DEF d
  <2> QED  BY <1>1, RenumberLeaves
<1>3. /\ IsTable(r, n)
      /\ \A i \in DOMAIN r :
            /\ r[i].user = d[i].user
            /\ r[i].chapter = d[i].chapter
            /\ r[i].state = d[i].state
            /\ r[i].tries = d[i].tries
            /\ r[i].failed = d[i].failed
  <2> HIDE DEF d, r
  <2>1. \A i \in DOMAIN r : r[i].position \in Nat
    BY <1>2
  <2> QED  BY <1>1, <1>2, <2>1, MovedRows
<1>4. Evolves(q, r) /\ SameProgress(q, r)
  <2> HIDE DEF d, r, ids
  <2> QED  BY <1>1, <1>2, <1>3 DEF Evolves, SameProgress, IsTable
<1>5. r = Dequeue(q, u, chapters)
  BY DEF Dequeue
<1> HIDE DEF r, d
<1> QED  BY <1>1, <1>2, <1>4, <1>5

(* reorder changes positions only.                                         *)
LEMMA ReorderEvolves ==
  ASSUME NEW q, NEW n \in Nat, IsTable(q, n), PerAccount(q), NEW u, NEW c, NEW to \in Int
  PROVE  LET r == Reorder(q, u, c, to)
         IN  /\ DOMAIN r = DOMAIN q
             /\ Evolves(q, r)
             /\ SameProgress(q, r)
             /\ Distinct(q) => Distinct(r)
<1> DEFINE r == Reorder(q, u, c, to)
<1>1. /\ DOMAIN r = DOMAIN q
      /\ MovesRows(q, r)
      /\ \A i \in DOMAIN q : r[i].position \in Nat
      /\ Distinct(q) => Distinct(r)
  BY ReorderLeaves
<1> HIDE DEF r
<1>2. /\ IsTable(r, n)
      /\ \A i \in DOMAIN r :
            /\ r[i].user = q[i].user
            /\ r[i].chapter = q[i].chapter
            /\ r[i].state = q[i].state
            /\ r[i].tries = q[i].tries
            /\ r[i].failed = q[i].failed
  BY <1>1, MovedRows
<1>3. Evolves(q, r) /\ SameProgress(q, r)
  BY <1>1, <1>2 DEF Evolves, SameProgress, IsTable
<1> QED  BY <1>1, <1>3 DEF r

(* pause and releaseInFlight turn the DOWNLOADING rows they cover back to  *)
(* QUEUED, and change nothing else.                                        *)
LEMMA RequeueLeaves ==
  ASSUME NEW q, NEW n \in Nat, IsTable(q, n), NEW ids
  PROVE  LET r == Requeue(q, ids)
         IN  /\ DOMAIN r = DOMAIN q
             /\ Evolves(q, r)
             /\ \A i \in DOMAIN q :
                    /\ r[i].state = IF i \in ids /\ q[i].state = "DOWNLOADING"
                                    THEN "QUEUED" ELSE q[i].state
                    /\ r[i].tries = q[i].tries
                    /\ r[i].failed = q[i].failed
                    /\ r[i].position = q[i].position
             /\ Distinct(q) => Distinct(r)
<1> DEFINE r == Requeue(q, ids)
<1>1. DOMAIN r = DOMAIN q
  BY DEF Requeue
<1>2. ASSUME NEW i \in DOMAIN q
      PROVE  /\ r[i] \in Row
             /\ r[i].user = q[i].user
             /\ r[i].chapter = q[i].chapter
             /\ r[i].state = IF i \in ids /\ q[i].state = "DOWNLOADING"
                             THEN "QUEUED" ELSE q[i].state
             /\ r[i].tries = q[i].tries
             /\ r[i].failed = q[i].failed
             /\ r[i].position = q[i].position
  <2>1. q[i] \in Row
    BY <1>2 DEF IsTable
  <2> QED  BY <1>2, <2>1 DEF Requeue, Row, RowState
<1> HIDE DEF r
<1>3. Evolves(q, r)
  BY <1>1, <1>2 DEF Evolves
<1>4. Distinct(q) => Distinct(r)
  BY <1>1, <1>2 DEF Distinct
<1> QED  BY <1>1, <1>2, <1>3, <1>4 DEF r

-----------------------------------------------------------------------------
(* The inductive invariant.                                                *)

(* An attempt works on a chapter of its own account, and the row it claimed*)
(* is, as long as it exists, the row of that chapter: primary keys are not *)
(* used twice.                                                             *)
AttemptSound(u) ==
    attempt[u].pc # "idle" =>
        /\ attempt[u].chapter \in Chapters
        /\ Owner[attempt[u].chapter] = u
        /\ attempt[u].row \in 1..(nextId - 1)
        /\ attempt[u].row \in DOMAIN queue =>
                queue[attempt[u].row].chapter = attempt[u].chapter
        /\ attempt[u].pc = "fetching" => attempt[u].page \in Pages

DeletionSound(u) ==
    deleting[u].step \in {"partial", "cbz"} => deleting[u].current \in Chapters

Sound ==
    /\ TypeOK
    /\ PerAccount(queue)
    /\ \A u \in Users : AttemptSound(u) /\ DeletionSound(u)

(* TypeOK speaks of the queue as IsTable does.                             *)
LEMMA QueueIsTable ==
  ASSUME TypeOK
  PROVE  IsTable(queue, nextId - 1) /\ nextId - 1 \in Nat
BY DownloadsAssumption DEF TypeOK, IsTable

LEMMA SoundInit == Init => Sound
<1> SUFFICES ASSUME Init PROVE Sound
  OBVIOUS
<1>1. DOMAIN queue = {} /\ nextId = 1
  BY DEF Init
<1>2. EmptyLocation \in Location
  BY DEF EmptyLocation, Location, Content
<1>3. NoAttempt \in Attempt
  BY FilesAssumption DEF NoAttempt, Attempt, AttemptPC, Pages, NoChapter
<1>4. NoDeletion \in Deletion
  BY DEF NoDeletion, Deletion
<1>5. TypeOK
  BY <1>1, <1>2, <1>3, <1>4, DownloadsAssumption DEF Init, TypeOK
<1>6. PerAccount(queue)
  BY <1>1 DEF PerAccount
<1>7. \A u \in Users : AttemptSound(u) /\ DeletionSound(u)
  BY DEF Init, AttemptSound, DeletionSound, NoAttempt, NoDeletion
<1> QED  BY <1>5, <1>6, <1>7 DEF Sound

-----------------------------------------------------------------------------
(* Steps that only let the queue evolve.                                   *)

(* If the rows of the queue evolve and the attempts and the deletions stay *)
(* sound by themselves, the invariant holds after the step.                *)
LEMMA SoundStep ==
  ASSUME Sound, Evolves(queue, queue'), nextId' = nextId,
         downloaded' \subseteq Chapters,
         disk' \in [Locations -> Location],
         worker' \in {"up", "stopping", "down"},
         running' \subseteq Users,
         lastServed' \in Users \cup {0},
         restarts' \in 0..MaxRestarts,
         attempt' \in [Users -> Attempt],
         deleting' \in [Users -> Deletion],
         \A u \in Users : deleting'[u].step \in {"partial", "cbz"} => deleting'[u].current \in Chapters,
         \A u \in Users : attempt'[u].pc # "idle" =>
            \/ /\ attempt[u].pc # "idle"
               /\ attempt'[u].chapter = attempt[u].chapter
               /\ attempt'[u].row = attempt[u].row
               /\ attempt'[u].pc = "fetching" => attempt'[u].page \in Pages
            \/ /\ attempt'[u].row \in RowsOf(queue, u)
               /\ attempt'[u].chapter = queue[attempt'[u].row].chapter
               /\ attempt'[u].pc = "listing"
  PROVE  Sound'
<1>1. IsTable(queue, nextId - 1) /\ nextId - 1 \in Nat
  BY QueueIsTable DEF Sound
<1>2. IsTable(queue', nextId - 1) /\ PerAccount(queue')
  BY <1>1, EvolvedTable DEF Sound
<1>3. TypeOK'
  BY <1>2 DEF Sound, TypeOK, IsTable
<1>4. ASSUME NEW u \in Users PROVE AttemptSound(u)'
  <2> SUFFICES ASSUME attempt'[u].pc # "idle" PROVE AttemptSound(u)'
    BY DEF AttemptSound
  <2>1. CASE /\ attempt[u].pc # "idle"
             /\ attempt'[u].chapter = attempt[u].chapter
             /\ attempt'[u].row = attempt[u].row
             /\ attempt'[u].pc = "fetching" => attempt'[u].page \in Pages
    BY <2>1 DEF Sound, AttemptSound, Evolves
  <2>2. CASE /\ attempt'[u].row \in RowsOf(queue, u)
             /\ attempt'[u].chapter = queue[attempt'[u].row].chapter
             /\ attempt'[u].pc = "listing"
    <3> DEFINE i == attempt'[u].row
    <3>1. i \in DOMAIN queue /\ queue[i] \in Row /\ queue[i].user = u
      BY <1>1, <2>2 DEF RowsOf, IsTable
    <3>2. Owner[queue[i].chapter] = u /\ queue[i].chapter \in Chapters /\ i \in 1..(nextId - 1)
      BY <1>1, <3>1 DEF Sound, PerAccount, IsTable, Row
    <3> QED  BY <2>2, <3>1, <3>2 DEF AttemptSound, Evolves
  <2> QED  BY <2>1, <2>2
<1>5. \A u \in Users : DeletionSound(u)'
  BY DEF DeletionSound
<1> QED  BY <1>2, <1>3, <1>4, <1>5 DEF Sound

(* A table evolves into itself.                                            *)
LEMMA EvolvesSame ==
  ASSUME TypeOK
  PROVE  Evolves(queue, queue)
BY DEF TypeOK, Evolves

(* ... and with one row rewritten.                                         *)
LEMMA EvolvesRow ==
  ASSUME TypeOK, NEW i \in DOMAIN queue, NEW row \in Row,
         row.user = queue[i].user, row.chapter = queue[i].chapter
  PROVE  Evolves(queue, [queue EXCEPT ![i] = row])
BY DEF TypeOK, Evolves

LEMMA SoundMutation ==
  ASSUME Sound, Mutation
  PROVE  Sound'
<1>1. IsTable(queue, nextId - 1) /\ nextId - 1 \in Nat
  BY QueueIsTable DEF Sound
<1>2. PICK u \in Users :
        \/ \E b \in Batches : EnqueueDownloads(u, b)
        \/ \E b \in Batches : DequeueDownloads(u, Range(b))
        \/ StartDownloader(u)
        \/ StopDownloader(u)
        \/ ClearDownloader(u)
        \/ \E c \in Chapters, to \in Targets : ReorderDownload(u, c, to)
  BY DEF Mutation
<1>3. ASSUME NEW b \in Batches, EnqueueDownloads(u, b) PROVE Sound'
  <2> DEFINE n == nextId - 1
  <2>1. b \in Seq(Chapters) /\ \A j, k \in DOMAIN b : b[j] = b[k] => j = k
    BY DownloadsAssumption
  <2>2. queue' = Enqueue(queue, n, downloaded, u, b)
    BY <1>3 DEF EnqueueDownloads
  <2>3. /\ IsTable(queue', n + Len(b))
        /\ DOMAIN queue \subseteq DOMAIN queue'
        /\ \A i \in DOMAIN queue : queue'[i] = queue[i]
        /\ \A i \in DOMAIN queue' \ DOMAIN queue : i > n
        /\ PerAccount(queue')
    <3>1. IsTable(queue, n) /\ n \in Nat /\ PerAccount(queue) /\ u \in Users
      BY <1>1, <1>2 DEF Sound
    <3> DEFINE r == Enqueue(queue, n, downloaded, u, b)
    <3>2. /\ IsTable(r, n + Len(b))
          /\ DOMAIN queue \subseteq DOMAIN r
          /\ \A i \in DOMAIN queue : r[i] = queue[i]
          /\ \A i \in DOMAIN r \ DOMAIN queue :
                 /\ i > n
                 /\ r[i].user = u
                 /\ r[i].state = "QUEUED"
                 /\ r[i].tries = 0
                 /\ r[i].failed = 0
          /\ PerAccount(queue) => PerAccount(r)
          /\ Distinct(queue) => Distinct(r)
      <4> HIDE DEF n
      <4> QED  BY <2>1, <3>1, EnqueueAppends
    <3> HIDE DEF n, r
    <3>3. queue' = r
      BY <2>2 DEF r
    <3> QED  BY <3>1, <3>2, <3>3
  <2>4. Len(b) \in Nat
    BY <2>1
  <2>5. TypeOK'
    <3>1. nextId' - 1 = n + Len(b) /\ nextId' \in 1..(MaxRowId + 1)
      BY <1>3, <2>4, DownloadsAssumption DEF EnqueueDownloads, Sound, TypeOK
    <3>2. DOMAIN queue' \subseteq 1..(nextId' - 1) /\ \A i \in DOMAIN queue' : queue'[i] \in Row
      <4> HIDE DEF n
      <4> QED  BY <2>3, <3>1 DEF IsTable
    <3>3. UNCHANGED <<downloaded, disk, worker, memory, restarts>>
      BY <1>3 DEF EnqueueDownloads
    <3> QED  BY <3>1, <3>2, <3>3 DEF memory, Sound, TypeOK
  <2>6. ASSUME NEW v \in Users PROVE AttemptSound(v)' /\ DeletionSound(v)'
    <3>1. nextId' >= nextId /\ nextId \in Nat /\ nextId' \in Nat
      BY <1>1, <1>3, <2>4 DEF EnqueueDownloads, Sound, TypeOK
    <3>2. attempt' = attempt /\ deleting' = deleting
      BY <1>3 DEF EnqueueDownloads, memory
    <3>3. CASE attempt[v].pc = "idle"
      BY <3>2, <3>3 DEF AttemptSound, DeletionSound, Sound
    <3>4. CASE attempt[v].pc # "idle"
      <4> DEFINE i == attempt[v].row
      <4>1. i \in 1..n /\ i \in 1..(nextId' - 1)
        BY <3>1, <3>4 DEF AttemptSound, Sound
      <4>2. i \in DOMAIN queue' => i \in DOMAIN queue /\ queue'[i] = queue[i]
        BY <1>1, <2>3, <4>1
      <4> QED  BY <3>2, <3>4, <4>1, <4>2 DEF AttemptSound, DeletionSound, Sound
    <3> QED  BY <3>3, <3>4
  <2> QED  BY <2>3, <2>5, <2>6 DEF Sound
<1>4. ASSUME Evolves(queue, queue'), running' \subseteq Users,
             UNCHANGED <<nextId, downloaded, disk, worker, lastServed, attempt, deleting, restarts>>
      PROVE  Sound'
  BY <1>4, SoundStep DEF Sound, TypeOK, AttemptSound, DeletionSound
<1>5. ASSUME NEW b \in Batches, DequeueDownloads(u, Range(b)) PROVE Sound'
  <2>1. Evolves(queue, queue')
    BY <1>1, <1>5, DequeueLeaves DEF DequeueDownloads
  <2> QED  BY <1>4, <1>5, <2>1 DEF DequeueDownloads, SetDownloaderState, Sound, TypeOK
<1>6. ASSUME StartDownloader(u) PROVE Sound'
  BY <1>4, <1>6, EvolvesSame
     DEF StartDownloader, SetDownloaderState, persistent, Sound, TypeOK
<1>7. ASSUME StopDownloader(u) PROVE Sound'
  <2>1. Evolves(queue, queue')
    BY <1>1, <1>7, RequeueLeaves DEF StopDownloader, Pause
  <2> QED  BY <1>4, <1>7, <2>1 DEF StopDownloader, SetDownloaderState, Sound, TypeOK
<1>8. ASSUME ClearDownloader(u) PROVE Sound'
  <2>1. Evolves(queue, queue')
    BY <1>8 DEF ClearDownloader, Clear, Delete, Evolves, Sound, TypeOK
  <2> QED  BY <1>4, <1>8, <2>1 DEF ClearDownloader, SetDownloaderState, Sound, TypeOK
<1>9. ASSUME NEW c \in Chapters, NEW to \in Targets, ReorderDownload(u, c, to) PROVE Sound'
  <2>1. to \in Int /\ PerAccount(queue)
    BY DownloadsAssumption DEF Sound
  <2>2. Evolves(queue, queue')
    BY <1>1, <1>9, <2>1, ReorderEvolves DEF ReorderDownload
  <2> QED  BY <1>4, <1>9, <2>2 DEF ReorderDownload, memory, Sound, TypeOK
<1> QED  BY <1>2, <1>3, <1>5, <1>6, <1>7, <1>8, <1>9

(* A file operation on one location leaves every location well formed.     *)
LEMMA FilesTyped ==
  ASSUME TypeOK, NEW c \in Chapters, NEW files \in Location, SetFiles(c, files)
  PROVE  disk' \in [Locations -> Location]
BY DownloadsAssumption DEF TypeOK, SetFiles

LEMMA LocationTyped ==
  ASSUME TypeOK, NEW c \in Chapters
  PROVE  FilesOf(c) \in Location
BY DownloadsAssumption DEF TypeOK, FilesOf

(* What the file operations of an attempt and of a deletion return.        *)
LEMMA FileOperationsTyped ==
  ASSUME NEW loc \in Location
  PROVE  /\ MakePartial(loc) \in Location
         /\ MakePartial(loc).partial \in Folder
         /\ \A p \in Pages, c \in Chapters :
                loc.partial # NoFiles => WritePage(loc, p, c) \in Location
         /\ ThinDir(loc) \subseteq Location
         /\ ThinPartial(loc) \subseteq Location
         /\ RemoveCbz(loc) \in Location
         /\ RemoveDir(loc) \in Location
         /\ RemovePartial(loc) \in Location
         /\ PublishDir(loc) \in Location
         /\ Pack(loc) \in Location
         /\ PublishCbz(loc) \in Location
<1>1. EmptyFolder \in Folder
  BY DEF EmptyFolder, Folder
<1>2. ASSUME NEW p \in Pages, NEW c \in Chapters, loc.partial # NoFiles
      PROVE  WritePage(loc, p, c) \in Location
  <2>1. loc.partial \in Folder
    BY <1>2 DEF Location, Content
  <2>2. [loc.partial EXCEPT ![p] = c] \in Folder
    BY <2>1 DEF Folder
  <2> QED  BY <2>2 DEF WritePage, Location, Content
<1>3. MakePartial(loc) \in Location /\ MakePartial(loc).partial \in Folder
  <2> DEFINE made == IF loc.partial = NoFiles THEN EmptyFolder
                     ELSE [p \in Pages |-> IF loc.partial[p] = Gone THEN NoPage ELSE loc.partial[p]]
  <2>1. made \in Folder
    <3>1. loc.partial # NoFiles => loc.partial \in Folder
      BY DEF Location, Content
    <3> QED  BY <1>1, <3>1 DEF Folder
  <2>2. MakePartial(loc) = [loc EXCEPT !.partial = made]
    BY DEF MakePartial
  <2> HIDE DEF made
  <2> QED  BY <2>1, <2>2 DEF Location, Content
<1>6. ThinDir(loc) \subseteq Location /\ ThinPartial(loc) \subseteq Location
  <2>1. \A folder \in Content : Unlinked(folder) \subseteq Content
    BY DEF Unlinked, PagesIn, Content, Folder
  <2>2. loc.dir \in Content /\ loc.partial \in Content
    BY DEF Location
  <2>3. \A f \in Content : [loc EXCEPT !.dir = f] \in Location /\ [loc EXCEPT !.partial = f] \in Location
    BY DEF Location
  <2> QED  BY <2>1, <2>2, <2>3 DEF ThinDir, ThinPartial
<1>4. /\ RemoveCbz(loc) \in Location
      /\ RemoveDir(loc) \in Location
      /\ RemovePartial(loc) \in Location
  BY DEF RemoveCbz, RemoveDir, RemovePartial, Location, Content
<1>5. /\ PublishDir(loc) \in Location
      /\ Pack(loc) \in Location
      /\ PublishCbz(loc) \in Location
  BY DEF PublishDir, Pack, PublishCbz, Location, Content
<1> QED  BY <1>2, <1>3, <1>4, <1>5, <1>6

LEMMA SoundDeletion ==
  ASSUME Sound, NEW u \in Users, DeleteDownloaded(u)
  PROVE  Sound'
<1>1. Evolves(queue, queue) /\ deleting[u] \in Deletion
  BY EvolvesSame DEF Sound, TypeOK
<1>2. ASSUME UNCHANGED <<queue, nextId, worker, running, lastServed, attempt, restarts>>,
             disk' \in [Locations -> Location], downloaded' \subseteq Chapters,
             NEW d \in Deletion, deleting' = [deleting EXCEPT ![u] = d],
             d.step \in {"partial", "cbz"} => d.current \in Chapters
      PROVE  Sound'
  <2>1. deleting' \in [Users -> Deletion]
    BY <1>2 DEF Sound, TypeOK
  <2>2. \A v \in Users : deleting'[v].step \in {"partial", "cbz"} => deleting'[v].current \in Chapters
    BY <1>2 DEF Sound, TypeOK, DeletionSound
  <2> QED  BY <1>1, <1>2, <2>1, <2>2, SoundStep DEF Sound, TypeOK, AttemptSound
<1>3. ASSUME NEW cs \in DeleteBatches, DeleteBegin(u, cs) PROVE Sound'
  <2> DEFINE mine == {c \in cs : Owner[c] = u}
             d == [step |-> "dir", all |-> mine, left |-> mine, current |-> NoChapter]
  <2>1. d \in Deletion
    BY DownloadsAssumption DEF Deletion
  <2>2. deleting' = [deleting EXCEPT ![u] = d]
    BY <1>3 DEF DeleteBegin
  <2>3. d.step = "dir"
    OBVIOUS
  <2>4. UNCHANGED <<persistent, worker, running, lastServed, attempt, restarts>>
    BY <1>3 DEF DeleteBegin
  <2> HIDE DEF d
  <2> QED  BY <1>2, <2>1, <2>2, <2>3, <2>4 DEF persistent, Sound, TypeOK
<1>4. ASSUME DeleteDir(u) PROVE Sound'
  <2>1. PICK c \in InHand(u), step \in {"partial", "dir"} :
            /\ \E files \in ThinDir(FilesOf(c)) \cup {RemoveDir(FilesOf(c))} : SetFiles(c, files)
            /\ deleting' = [deleting EXCEPT ![u] = [deleting[u] EXCEPT !.step = step, !.current = c]]
    <3>1. deleting[u].step = "dir"
      BY <1>4 DEF DeleteDir
    <3>2. \A c : [deleting[u] EXCEPT !.current = c] = [deleting[u] EXCEPT !.step = "dir", !.current = c]
      BY <1>1, <3>1 DEF Deletion
    <3> QED  BY <1>4, <3>2 DEF DeleteDir
  <2>2. c \in Chapters
    BY <1>1, <2>1 DEF Deletion, InHand
  <2>3. disk' \in [Locations -> Location]
    <3>1. FilesOf(c) \in Location
      BY <2>2, LocationTyped DEF Sound
    <3>2. PICK files \in ThinDir(FilesOf(c)) \cup {RemoveDir(FilesOf(c))} : SetFiles(c, files)
      BY <2>1
    <3>3. files \in Location
      BY <3>1, <3>2, FileOperationsTyped
    <3> QED  BY <2>2, <3>2, <3>3, FilesTyped DEF Sound
  <2> DEFINE d == [deleting[u] EXCEPT !.step = step, !.current = c]
  <2>4. d \in Deletion /\ d.current = c
    BY <1>1, <2>1, <2>2 DEF Deletion
  <2>5. deleting' = [deleting EXCEPT ![u] = d]
    BY <2>1
  <2>6. UNCHANGED <<queue, nextId, downloaded, worker, running, lastServed, attempt, restarts>>
    BY <1>4 DEF DeleteDir
  <2> HIDE DEF d
  <2> QED  BY <1>2, <2>2, <2>3, <2>4, <2>5, <2>6 DEF Sound, TypeOK
<1>5. ASSUME DeletePartial(u) PROVE Sound'
  <2> DEFINE c == deleting[u].current
  <2>1. c \in Chapters
    BY <1>5 DEF DeletePartial, Sound, DeletionSound
  <2>2. PICK step \in {"cbz", "partial"},
             files \in ThinPartial(FilesOf(c)) \cup {RemovePartial(FilesOf(c))} :
            /\ SetFiles(c, files)
            /\ deleting' = [deleting EXCEPT ![u] = [deleting[u] EXCEPT !.step = step]]
    <3>1. deleting[u].step = "partial" /\ deleting \in [Users -> Deletion]
      BY <1>5 DEF DeletePartial, Sound, TypeOK
    <3>2. deleting = [deleting EXCEPT ![u] = [deleting[u] EXCEPT !.step = "partial"]]
      BY <1>1, <3>1 DEF Deletion
    <3> QED  BY <1>5, <3>2 DEF DeletePartial
  <2> DEFINE d == [deleting[u] EXCEPT !.step = step]
  <2> HIDE DEF c
  <2>3. disk' \in [Locations -> Location]
    <3>1. FilesOf(c) \in Location
      BY <2>1, LocationTyped DEF Sound
    <3>2. files \in Location
      BY <2>2, <3>1, FileOperationsTyped
    <3> QED  BY <2>1, <2>2, <3>2, FilesTyped DEF Sound
  <2>4. d \in Deletion /\ d.current = c
    BY <1>1, <2>2 DEF Deletion, c
  <2>5. deleting' = [deleting EXCEPT ![u] = d]
    BY <2>2
  <2>6. UNCHANGED <<queue, nextId, downloaded, worker, running, lastServed, attempt, restarts>>
    BY <1>5 DEF DeletePartial
  <2> HIDE DEF d
  <2> QED  BY <1>2, <2>1, <2>3, <2>4, <2>5, <2>6 DEF Sound, TypeOK
<1>6. ASSUME DeleteCbz(u) PROVE Sound'
  <2> DEFINE c == deleting[u].current
             rest == deleting[u].left \ {c}
             d == [step |-> "dir", all |-> deleting[u].all, left |-> rest, current |-> NoChapter]
  <2>1. c \in Chapters
    BY <1>6 DEF DeleteCbz, Sound, DeletionSound
  <2>2. disk' \in [Locations -> Location]
    <3>1. SetFiles(c, RemoveCbz(FilesOf(c)))
      BY <1>6 DEF DeleteCbz
    <3> HIDE DEF c
    <3> QED  BY <2>1, <3>1, FilesTyped, LocationTyped, FileOperationsTyped DEF Sound
  <2>3. d \in Deletion /\ d.step = "dir"
    BY <1>1 DEF Deletion
  <2>4. deleting' = [deleting EXCEPT ![u] = d]
    BY <1>6 DEF DeleteCbz
  <2>5. UNCHANGED <<queue, nextId, downloaded, worker, running, lastServed, attempt, restarts>>
    BY <1>6 DEF DeleteCbz
  <2> HIDE DEF d, c
  <2> QED  BY <1>2, <2>2, <2>3, <2>4, <2>5 DEF Sound, TypeOK
<1>7. ASSUME DeleteFlags(u) PROVE Sound'
  <2>1. NoDeletion \in Deletion /\ NoDeletion.step = "idle"
    BY DEF NoDeletion, Deletion
  <2> QED  BY <1>2, <1>7, <2>1 DEF DeleteFlags, Sound, TypeOK
<1>8. ASSUME DeleteFails(u) PROVE Sound'
  <2>1. NoDeletion \in Deletion /\ NoDeletion.step = "idle"
    BY DEF NoDeletion, Deletion
  <2> QED  BY <1>2, <1>8, <2>1 DEF DeleteFails, persistent, Sound, TypeOK
<1> QED  BY <1>3, <1>4, <1>5, <1>6, <1>7, <1>8 DEF DeleteDownloaded

-----------------------------------------------------------------------------
(* The claims.                                                             *)

(* The accounts a pass chose have a last one, so lastServed is an account. *)
LEMMA LastChosen ==
  ASSUME TypeOK, Chosen # {}
  PROVE  \E u \in Chosen : \A v \in Chosen : u = v \/ Ahead(v, u)
<1> DEFINE Wrapped == {u \in Chosen : u <= lastServed}
<1>1. Chosen \subseteq Users /\ Users \subseteq Int /\ lastServed \in Int
  <2>1. Chosen \subseteq Users /\ lastServed \in Users \cup {0}
    BY DEF TypeOK, Chosen, Candidates
  <2> QED  BY <2>1, AccountsAssumption
<1>2. IsFiniteSet(Chosen) /\ IsFiniteSet(Wrapped)
  BY <1>1, AccountsAssumption, FS_Subset
<1>3. CASE Wrapped = {}
  <2>1. PICK u \in Chosen : \A v \in Chosen : v <= u
    BY <1>1, <1>2, FiniteHasMax
  <2>2. \A v \in Chosen : v > lastServed /\ u \in Int /\ v \in Int
    BY <1>1, <1>3, <2>1
  <2> QED  BY <1>1, <2>1, <2>2 DEF Ahead
<1>4. CASE Wrapped # {}
  <2>1. PICK u \in Wrapped : \A v \in Wrapped : v <= u
    <3>1. Wrapped \in SUBSET Int
      BY <1>1
    <3> HIDE DEF Wrapped
    <3> QED  BY <1>2, <1>4, <3>1, FiniteHasMax
  <2>2. u \in Chosen /\ u <= lastServed /\ u \in Int
    BY <1>1, <2>1
  <2>3. ASSUME NEW v \in Chosen PROVE u = v \/ Ahead(v, u)
    <3>1. v \in Int
      BY <1>1
    <3>2. CASE v <= lastServed
      BY <1>1, <2>1, <2>2, <3>1, <3>2 DEF Ahead
    <3>3. CASE v > lastServed
      BY <1>1, <2>2, <3>1, <3>3 DEF Ahead
    <3> QED  BY <1>1, <3>1, <3>2, <3>3
  <2> QED  BY <2>2, <2>3
<1> QED  BY <1>3, <1>4

(* A pass claims, for every account it chose, that account's next row.     *)
LEMMA ClaimsNext ==
  ASSUME TypeOK, NEW u \in Chosen
  PROVE  /\ u \in Users /\ u \in running /\ attempt[u].pc = "idle"
         /\ NextQueued(queue, u) \in DOMAIN queue
         /\ NextQueued(queue, u) \in RowsOf(queue, u)
         /\ queue[NextQueued(queue, u)] \in Row
         /\ queue[NextQueued(queue, u)].user = u
         /\ queue[NextQueued(queue, u)].state = "QUEUED"
<1>1. u \in running /\ HasQueuedWork(queue, u) /\ attempt[u].pc = "idle" /\ u \in Users
  BY DEF Chosen, Candidates, TypeOK
<1>2. IsHead(queue, u, NextQueued(queue, u))
  <2>1. IsTable(queue, nextId - 1) /\ nextId - 1 \in Nat
    BY QueueIsTable
  <2> QED  BY <1>1, <2>1, NextQueuedIsHead
<1>3. NextQueued(queue, u) \in QueuedRows(queue, u)
  BY <1>2 DEF IsHead
<1> QED  BY <1>1, <1>3 DEF QueuedRows, RowsOf, TypeOK

(* The rows a pass claims evolve.                                          *)
LEMMA ClaimsEvolve ==
  ASSUME TypeOK, FillSlots
  PROVE  Evolves(queue, queue')
<1>1. ASSUME NEW i \in DOMAIN queue
      PROVE  [queue[i] EXCEPT !.state = "DOWNLOADING", !.tries = @ + 1] \in Row
  <2>1. queue[i] \in Row
    BY DEF TypeOK
  <2> DEFINE t == queue[i].tries + 1
  <2>2. t \in Nat
    BY <2>1 DEF Row
  <2> HIDE DEF t
  <2>3. [queue[i] EXCEPT !.state = "DOWNLOADING", !.tries = t] \in Row
    BY <2>1, <2>2 DEF Row, RowState
  <2> QED  BY <2>3 DEF t
<1>2. \A i \in DOMAIN queue : queue[i] \in Row
  BY DEF TypeOK
<1> QED  BY <1>1, <1>2 DEF FillSlots, Evolves, Row

LEMMA SoundFillSlots ==
  ASSUME Sound, FillSlots
  PROVE  Sound'
<1>0. TypeOK
  BY DEF Sound
<1>1. Evolves(queue, queue')
  BY <1>0, ClaimsEvolve
<1>2. lastServed' \in Users
  <2>1. \E u \in Chosen : \A v \in Chosen : u = v \/ Ahead(v, u)
    BY <1>0, LastChosen DEF FillSlots
  <2>2. lastServed' \in Chosen
    BY <2>1 DEF FillSlots
  <2> QED  BY <1>0, <2>2 DEF Chosen, Candidates, TypeOK
<1> DEFINE claim(u) == [pc |-> "listing", row |-> NextQueued(queue, u),
                        chapter |-> queue[NextQueued(queue, u)].chapter,
                        tries |-> queue[NextQueued(queue, u)].tries,
                        page |-> 0, present |-> {}]
<1>3. attempt' = [u \in Users |-> IF u \in Chosen THEN claim(u) ELSE attempt[u]]
  BY DEF FillSlots
<1>4. ASSUME NEW u \in Chosen
      PROVE  /\ claim(u) \in Attempt
             /\ claim(u).pc = "listing"
             /\ claim(u).row \in RowsOf(queue, u)
             /\ claim(u).chapter = queue[claim(u).row].chapter
  <2> DEFINE i == NextQueued(queue, u)
  <2>1. i \in RowsOf(queue, u) /\ i \in DOMAIN queue /\ queue[i] \in Row
    BY <1>0, ClaimsNext
  <2>2. i \in Nat /\ queue[i].chapter \in Chapters /\ queue[i].tries \in Nat
    BY <1>0, <2>1 DEF TypeOK, Row
  <2>3. 0 \in 0..NumPages /\ {} \in SUBSET Pages /\ "listing" \in AttemptPC
    BY FilesAssumption DEF AttemptPC
  <2>4. claim(u) \in Attempt
    BY <2>2, <2>3 DEF Attempt
  <2>5. claim(u).pc = "listing" /\ claim(u).row = i /\ claim(u).chapter = queue[i].chapter
    OBVIOUS
  <2> HIDE DEF i, claim
  <2> QED  BY <2>1, <2>4, <2>5
<1> HIDE DEF claim
<1>5. attempt' \in [Users -> Attempt]
  BY <1>0, <1>3, <1>4 DEF TypeOK
<1>6. ASSUME NEW u \in Users, attempt'[u].pc # "idle"
      PROVE  \/ /\ attempt[u].pc # "idle"
                /\ attempt'[u].chapter = attempt[u].chapter
                /\ attempt'[u].row = attempt[u].row
                /\ attempt'[u].pc = "fetching" => attempt'[u].page \in Pages
             \/ /\ attempt'[u].row \in RowsOf(queue, u)
                /\ attempt'[u].chapter = queue[attempt'[u].row].chapter
                /\ attempt'[u].pc = "listing"
  <2>1. CASE u \in Chosen
    BY <1>3, <1>4, <2>1
  <2>2. CASE u \notin Chosen
    <3>1. attempt'[u] = attempt[u]
      BY <1>3, <2>2
    <3> QED  BY <1>6, <3>1 DEF Sound, AttemptSound
  <2> QED  BY <2>1, <2>2
<1>7. UNCHANGED <<nextId, downloaded, disk, worker, running, deleting, restarts>>
  BY DEF FillSlots
<1> QED  BY <1>1, <1>2, <1>5, <1>6, <1>7, SoundStep DEF Sound, TypeOK, DeletionSound

-----------------------------------------------------------------------------
(* The attempts.                                                           *)

(* The ways an attempt rewrites the queue let it evolve.                   *)
LEMMA HandBackEvolves ==
  ASSUME Sound, NEW u \in Users, HandBack(u)
  PROVE  Evolves(queue, queue')
<1>0. TypeOK /\ attempt[u].tries \in Nat
  BY DEF Sound, TypeOK, Attempt
<1> DEFINE i == attempt[u].row
           row == [queue[i] EXCEPT !.state = "QUEUED", !.tries = attempt[u].tries]
<1>1. CASE Alive /\ i \in DOMAIN queue
  <2>1. queue[i] \in Row
    BY <1>0, <1>1 DEF TypeOK
  <2>2. row \in Row /\ row.user = queue[i].user /\ row.chapter = queue[i].chapter
    BY <1>0, <2>1 DEF Row, RowState
  <2>3. queue' = [queue EXCEPT ![i] = row]
    BY <1>1 DEF HandBack
  <2> HIDE DEF row, i
  <2> QED  BY <1>0, <1>1, <2>2, <2>3, EvolvesRow
<1>2. CASE ~(Alive /\ i \in DOMAIN queue)
  BY <1>0, <1>2, EvolvesSame DEF HandBack
<1> QED  BY <1>1, <1>2

LEMMA FailureEvolves ==
  ASSUME Sound, NEW u \in Users, RecordFailure(u)
  PROVE  Evolves(queue, queue')
<1>0. TypeOK /\ attempt[u].tries + 1 \in Nat
  BY DEF Sound, TypeOK, Attempt
<1> DEFINE i == attempt[u].row
           tail == NextPosition(queue, u)
           row == Failed(queue[i], attempt[u].tries + 1, tail)
<1>1. tail \in Nat
  <2>1. IsTable(queue, nextId - 1) /\ nextId - 1 \in Nat
    BY <1>0, QueueIsTable
  <2> QED  BY <2>1, NextPositionIsPast
<1>2. CASE Alive /\ i \in DOMAIN queue
  <2>1. queue[i] \in Row
    BY <1>0, <1>2 DEF TypeOK
  <2>2. row \in Row /\ row.user = queue[i].user /\ row.chapter = queue[i].chapter
    <3> DEFINE t == attempt[u].tries + 1
               f == queue[i].failed + 1
    <3>1. t \in Nat /\ f \in Nat
      BY <1>0, <2>1 DEF Row
    <3>2. row = IF t < MaxTries
                THEN [queue[i] EXCEPT !.state = "QUEUED", !.tries = t, !.position = tail, !.failed = f]
                ELSE [queue[i] EXCEPT !.state = "ERROR", !.tries = t, !.failed = f]
      BY DEF Failed
    <3> HIDE DEF tail, t, f, row, i
    <3>3. CASE t < MaxTries
      BY <1>1, <2>1, <3>1, <3>2, <3>3 DEF Row, RowState
    <3>4. CASE ~(t < MaxTries)
      BY <1>1, <2>1, <3>1, <3>2, <3>4 DEF Row, RowState
    <3> QED  BY <3>3, <3>4
  <2>3. queue' = [queue EXCEPT ![i] = row]
    BY <1>2 DEF RecordFailure
  <2> HIDE DEF row, i
  <2> QED  BY <1>0, <1>2, <2>2, <2>3, EvolvesRow
<1>3. CASE ~(Alive /\ i \in DOMAIN queue)
  BY <1>0, <1>3, EvolvesSame DEF RecordFailure
<1> QED  BY <1>2, <1>3

(* An attempt that moves on, or ends, keeps the invariant.                 *)
LEMMA SoundAttemptMove ==
  ASSUME Sound, NEW u \in Users, NEW a \in Attempt,
         attempt' = [attempt EXCEPT ![u] = a],
         a.pc # "idle" =>
            /\ attempt[u].pc # "idle"
            /\ a.chapter = attempt[u].chapter
            /\ a.row = attempt[u].row
            /\ a.pc = "fetching" => a.page \in Pages,
         Evolves(queue, queue'),
         running' \subseteq Users, downloaded' \subseteq Chapters,
         disk' \in [Locations -> Location],
         AttemptFrame
  PROVE  Sound'
<1>1. attempt' \in [Users -> Attempt]
  BY DEF Sound, TypeOK
<1>2. \A v \in Users : attempt'[v].pc # "idle" =>
        /\ attempt[v].pc # "idle"
        /\ attempt'[v].chapter = attempt[v].chapter
        /\ attempt'[v].row = attempt[v].row
        /\ attempt'[v].pc = "fetching" => attempt'[v].page \in Pages
  BY DEF Sound, TypeOK, AttemptSound
<1>3. UNCHANGED <<nextId, worker, lastServed, deleting, restarts>>
  BY DEF AttemptFrame
<1> QED  BY <1>1, <1>2, <1>3, SoundStep DEF Sound, TypeOK, DeletionSound

(* The page loop leaves the attempt at a page, or on its way to finish().  *)
LEMMA NextPageMoves ==
  ASSUME Sound, NEW u \in Users, attempt[u].pc # "idle",
         NEW present \in SUBSET Pages, NEW done, NextPage(u, present, done)
  PROVE  /\ UNCHANGED <<queue, running>>
         /\ \E a \in Attempt :
                /\ attempt' = [attempt EXCEPT ![u] = a]
                /\ a.pc # "idle"
                /\ a.chapter = attempt[u].chapter
                /\ a.row = attempt[u].row
                /\ a.tries = attempt[u].tries
                /\ a.pc = "fetching" => a.page \in Pages
<1>1. attempt[u] \in Attempt
  BY DEF Sound, TypeOK
<1>2. UNCHANGED <<queue, running>>
  BY DEF NextPage
<1>3. CASE Missing(present, done) = {}
  <2>1. PICK pc \in {"rmCbz", "pack"} :
            attempt' = [attempt EXCEPT ![u] = [attempt[u] EXCEPT !.pc = pc, !.present = present]]
    BY <1>3 DEF NextPage
  <2> DEFINE a == [attempt[u] EXCEPT !.pc = pc, !.present = present]
  <2>2. /\ a \in Attempt /\ a.pc = pc /\ a.chapter = attempt[u].chapter /\ a.row = attempt[u].row
        /\ a.tries = attempt[u].tries
    BY <1>1 DEF Attempt, AttemptPC
  <2> HIDE DEF a
  <2>3. attempt' = [attempt EXCEPT ![u] = a]
    BY <2>1 DEF a
  <2> QED  BY <1>2, <2>1, <2>2, <2>3
<1>4. CASE Missing(present, done) # {}
  <2>1. PICK p \in Missing(present, done) :
            attempt' = [attempt EXCEPT ![u] =
                [attempt[u] EXCEPT !.pc = "fetching", !.page = p, !.present = present]]
    BY <1>4 DEF NextPage
  <2> DEFINE a == [attempt[u] EXCEPT !.pc = "fetching", !.page = p, !.present = present]
  <2>2. p \in Pages /\ p \in 0..NumPages
    BY FilesAssumption DEF Missing, Pages
  <2>3. /\ a \in Attempt /\ a.pc = "fetching" /\ a.page = p
        /\ a.chapter = attempt[u].chapter /\ a.row = attempt[u].row
        /\ a.tries = attempt[u].tries
    BY <1>1, <2>2 DEF Attempt, AttemptPC
  <2> HIDE DEF a
  <2>4. attempt' = [attempt EXCEPT ![u] = a]
    BY <2>1 DEF a
  <2> QED  BY <1>2, <2>2, <2>3, <2>4
<1> QED  BY <1>3, <1>4
(* An attempt that steps away, or just goes on to the next await.          *)
LEMMA SoundStepAway ==
  ASSUME Sound, NEW u \in Users, StepAway(u),
         downloaded' \subseteq Chapters, disk' \in [Locations -> Location], AttemptFrame
  PROVE  Sound'
<1>1. Evolves(queue, queue')
  BY HandBackEvolves DEF StepAway
<1>2. attempt' = [attempt EXCEPT ![u] = NoAttempt] /\ running' \subseteq Users
  BY DEF StepAway, EndAttempt, Sound, TypeOK
<1>3. NoAttempt \in Attempt /\ NoAttempt.pc = "idle"
  BY FilesAssumption DEF NoAttempt, Attempt, AttemptPC, Pages, NoChapter
<1> QED  BY <1>1, <1>2, <1>3, SoundAttemptMove

LEMMA SoundGoto ==
  ASSUME Sound, NEW u \in Users, attempt[u].pc # "idle",
         NEW pc \in AttemptPC \ {"idle", "fetching"}, Goto(u, pc),
         downloaded' \subseteq Chapters, disk' \in [Locations -> Location], AttemptFrame
  PROVE  Sound'
<1> DEFINE a == [attempt[u] EXCEPT !.pc = pc]
<1>1. attempt[u] \in Attempt /\ running' \subseteq Users
  BY DEF Sound, TypeOK, Goto
<1>2. a \in Attempt /\ a.pc = pc /\ a.chapter = attempt[u].chapter /\ a.row = attempt[u].row
  BY <1>1 DEF Attempt
<1>3. attempt' = [attempt EXCEPT ![u] = a]
  BY DEF Goto
<1>4. Evolves(queue, queue')
  BY EvolvesSame DEF Goto, Sound
<1> HIDE DEF a
<1> QED  BY <1>1, <1>2, <1>3, <1>4, SoundAttemptMove

LEMMA SoundNextPage ==
  ASSUME Sound, NEW u \in Users, attempt[u].pc # "idle",
         NEW present \in SUBSET Pages, NEW done, NextPage(u, present, done),
         downloaded' \subseteq Chapters, disk' \in [Locations -> Location], AttemptFrame
  PROVE  Sound'
<1>1. PICK a \in Attempt :
        /\ attempt' = [attempt EXCEPT ![u] = a]
        /\ a.pc # "idle"
        /\ a.chapter = attempt[u].chapter
        /\ a.row = attempt[u].row
        /\ a.tries = attempt[u].tries
        /\ a.pc = "fetching" => a.page \in Pages
  BY NextPageMoves
<1>2. Evolves(queue, queue') /\ running' \subseteq Users
  BY NextPageMoves, EvolvesSame DEF Sound, TypeOK
<1> QED  BY <1>1, <1>2, SoundAttemptMove

LEMMA SoundFileStep ==
  ASSUME Sound, NEW u \in Users, NEW from \in AttemptPC \ {"idle"}, NEW possible,
         NEW files \in Location, NEW to \in AttemptPC \ {"idle", "fetching"},
         FileStep(u, from, possible, files, to)
  PROVE  Sound'
<1>1. attempt[u].pc # "idle" /\ attempt[u].chapter \in Chapters
  BY DEF FileStep, Sound, AttemptSound
<1>2. disk' \in [Locations -> Location]
  BY <1>1, FilesTyped DEF FileStep, Sound
<1>3. downloaded' \subseteq Chapters
  BY DEF FileStep, Sound, TypeOK
<1> QED  BY <1>1, <1>2, <1>3, SoundGoto DEF FileStep

LEMMA SoundAttempt ==
  ASSUME Sound, NEW u \in Users, AttemptStep(u)
  PROVE  Sound'
<1>0. TypeOK /\ attempt[u] \in Attempt /\ downloaded \subseteq Chapters /\ disk \in [Locations -> Location]
  BY DEF Sound, TypeOK
<1>1. ASSUME attempt[u].pc # "idle"
      PROVE  attempt[u].chapter \in Chapters /\ AttemptFiles(u) \in Location
  BY <1>0, <1>1, LocationTyped DEF Sound, AttemptSound, AttemptFiles
<1>2. ASSUME ListPages(u) PROVE Sound'
  <2>1. UNCHANGED <<downloaded, disk>> /\ AttemptFrame /\ attempt[u].pc # "idle"
    BY <1>2 DEF ListPages
  <2>2. CASE Goto(u, "opening")
    <3>1. "opening" \in AttemptPC \ {"idle", "fetching"}
      BY DEF AttemptPC
    <3> QED  BY <1>0, <2>1, <2>2, <3>1, SoundGoto
  <2>3. CASE StepAway(u)
    BY <1>0, <2>1, <2>3, SoundStepAway
  <2> QED  BY <1>2, <2>2, <2>3 DEF ListPages
<1>3. ASSUME OpenPartial(u) PROVE Sound'
  <2> DEFINE files == MakePartial(AttemptFiles(u))
             present == PagesIn(files.partial)
  <2>1. UNCHANGED downloaded /\ AttemptFrame /\ attempt[u].pc # "idle"
    BY <1>3 DEF OpenPartial
  <2>2. files \in Location
    BY <1>1, <2>1, FileOperationsTyped
  <2>3. present \in SUBSET Pages
    BY DEF PagesIn
  <2>4. /\ SetFiles(attempt[u].chapter, files)
        /\ NextPage(u, present, 0) \/ StepAway(u)
    BY <1>3 DEF OpenPartial
  <2> HIDE DEF files, present
  <2>5. disk' \in [Locations -> Location]
    BY <1>0, <1>1, <2>1, <2>2, <2>4, FilesTyped
  <2>6. CASE NextPage(u, present, 0)
    BY <1>0, <2>1, <2>3, <2>5, <2>6, SoundNextPage
  <2>7. CASE StepAway(u)
    BY <1>0, <2>1, <2>5, <2>7, SoundStepAway
  <2> QED  BY <2>4, <2>6, <2>7
<1>4. ASSUME StorePage(u) PROVE Sound'
  <2> DEFINE files == WritePage(AttemptFiles(u), attempt[u].page, attempt[u].chapter)
             present == attempt[u].present
             done == attempt[u].page
  <2>1. UNCHANGED downloaded /\ AttemptFrame /\ attempt[u].pc = "fetching"
        /\ AttemptFiles(u).partial # NoFiles
    BY <1>4 DEF StorePage
  <2>2. files \in Location
    <3>1. attempt[u].page \in Pages
      BY <2>1 DEF Sound, AttemptSound
    <3> QED  BY <1>1, <2>1, <3>1, FileOperationsTyped
  <2>3. present \in SUBSET Pages
    BY <1>0 DEF Attempt
  <2>4. /\ SetFiles(attempt[u].chapter, files)
        /\ NextPage(u, present, done) \/ StepAway(u)
    BY <1>4 DEF StorePage
  <2> HIDE DEF files, present, done
  <2>5. disk' \in [Locations -> Location]
    BY <1>0, <1>1, <2>1, <2>2, <2>4, FilesTyped
  <2>6. CASE NextPage(u, present, done)
    BY <1>0, <2>1, <2>3, <2>5, <2>6, SoundNextPage
  <2>7. CASE StepAway(u)
    BY <1>0, <2>1, <2>5, <2>7, SoundStepAway
  <2> QED  BY <2>4, <2>6, <2>7
<1>5. ASSUME FinishAsFolder(u) PROVE Sound'
  <2> DEFINE files == AttemptFiles(u)
  <2>1. attempt[u].pc # "idle"
    BY <1>5 DEF FinishAsFolder, FileStep
  <2>2. RemoveCbz(files) \in Location /\ RemoveDir(files) \in Location
        /\ PublishDir(files) \in Location /\ ThinDir(files) \subseteq Location
    BY <1>1, <2>1, FileOperationsTyped
  <2>3. /\ {"rmCbz", "rmDir", "publishDir"} \subseteq AttemptPC \ {"idle"}
        /\ {"rmDir", "publishDir", "landed"} \subseteq AttemptPC \ {"idle", "fetching"}
    BY DEF AttemptPC
  <2> QED  BY <1>5, <2>2, <2>3, SoundFileStep DEF FinishAsFolder
<1>6. ASSUME FinishAsCbz(u) PROVE Sound'
  <2> DEFINE files == AttemptFiles(u)
  <2>1. attempt[u].pc # "idle"
    BY <1>6 DEF FinishAsCbz, FileStep
  <2>2. Pack(files) \in Location /\ RemoveDir(files) \in Location
        /\ PublishCbz(files) \in Location /\ RemovePartial(files) \in Location
        /\ ThinDir(files) \subseteq Location /\ ThinPartial(files) \subseteq Location
    BY <1>1, <2>1, FileOperationsTyped
  <2>3. /\ {"pack", "rmDirForCbz", "publishCbz", "rmPartial"} \subseteq AttemptPC \ {"idle"}
        /\ {"rmDirForCbz", "publishCbz", "rmPartial", "landed"} \subseteq AttemptPC \ {"idle", "fetching"}
    BY DEF AttemptPC
  <2> QED  BY <1>6, <2>2, <2>3, SoundFileStep DEF FinishAsCbz
<1>7. NoAttempt \in Attempt /\ NoAttempt.pc = "idle"
  BY FilesAssumption DEF NoAttempt, Attempt, AttemptPC, Pages, NoChapter
<1>8. ASSUME EndAttempt(u)
      PROVE  attempt' = [attempt EXCEPT ![u] = NoAttempt] /\ running' \subseteq Users
  BY <1>8 DEF EndAttempt, Sound, TypeOK
<1>9. ASSUME Complete(u) PROVE Sound'
  <2>1. UNCHANGED disk /\ AttemptFrame /\ attempt[u].pc # "idle"
    BY <1>9 DEF Complete
  <2>2. CASE Alive
    <3>1. /\ downloaded' = downloaded \cup {attempt[u].chapter}
          /\ queue' = Delete(queue, {attempt[u].row})
          /\ EndAttempt(u)
      BY <1>9, <2>2 DEF Complete
    <3>2. Evolves(queue, queue')
      BY <1>0, <3>1 DEF Delete, Evolves, TypeOK
    <3> QED  BY <1>0, <1>1, <1>7, <1>8, <2>1, <3>1, <3>2, SoundAttemptMove
  <2>3. CASE ~Alive
    BY <1>0, <1>9, <2>1, <2>3, SoundStepAway DEF Complete
  <2> QED  BY <2>2, <2>3
<1>10. ASSUME AttemptFails(u) PROVE Sound'
  <2>1. UNCHANGED <<downloaded, disk>> /\ AttemptFrame /\ EndAttempt(u) /\ RecordFailure(u)
    BY <1>10 DEF AttemptFails
  <2>2. Evolves(queue, queue')
    BY <2>1, FailureEvolves
  <2> QED  BY <1>0, <1>7, <1>8, <2>1, <2>2, SoundAttemptMove
<1> QED  BY <1>2, <1>3, <1>4, <1>5, <1>6, <1>9, <1>10 DEF AttemptStep

-----------------------------------------------------------------------------
(* The process.                                                            *)

LEMMA SoundProcess ==
  ASSUME Sound, StopWorker \/ Exit \/ StartDownloadWorker
  PROVE  Sound'
<1>0. TypeOK /\ Evolves(queue, queue)
  BY EvolvesSame DEF Sound
<1>1. Evolves(queue, ReleaseInFlight(queue))
  BY <1>0, QueueIsTable, RequeueLeaves DEF ReleaseInFlight
<1>2. restarts + 1 \in 0..MaxRestarts \/ ~(restarts < MaxRestarts)
  BY <1>0, DownloadsAssumption DEF TypeOK
<1>3. ASSUME StopWorker PROVE Sound'
  BY <1>1, <1>2, <1>3, SoundStep DEF StopWorker, Sound, TypeOK, AttemptSound, DeletionSound
<1>4. ASSUME Exit PROVE Sound'
  <2>1. NoAttempt \in Attempt /\ NoAttempt.pc = "idle"
    BY FilesAssumption DEF NoAttempt, Attempt, AttemptPC, Pages, NoChapter
  <2>2. NoDeletion \in Deletion /\ NoDeletion.step = "idle"
    BY DEF NoDeletion, Deletion
  <2>3. restarts' \in 0..MaxRestarts
    BY <1>0, <1>2, <1>4 DEF Exit, TypeOK
  <2> QED  BY <1>0, <1>4, <2>1, <2>2, <2>3, SoundStep DEF Exit, persistent, TypeOK
<1>5. ASSUME StartDownloadWorker PROVE Sound'
  BY <1>0, <1>1, <1>5, SoundStep
     DEF StartDownloadWorker, memory, Sound, TypeOK, AttemptSound, DeletionSound
<1> QED  BY <1>3, <1>4, <1>5

LEMMA SoundNext == Sound /\ [Next]_vars => Sound'
<1> SUFFICES ASSUME Sound, [Next]_vars PROVE Sound'
  OBVIOUS
<1>1. CASE UNCHANGED vars
  BY <1>1 DEF vars, Sound, TypeOK, PerAccount, AttemptSound, DeletionSound
<1> QED
  BY <1>1, SoundMutation, SoundDeletion, SoundFillSlots, SoundAttempt, SoundProcess DEF Next

(* In every execution the variables keep their types ...                   *)
THEOREM TypeCorrect == Spec => []TypeOK
<1>1. Sound => TypeOK
  BY DEF Sound
<1> QED  BY <1>1, SoundInit, SoundNext, PTL DEF Spec

(* ... and the queue stays per account: a row belongs to the owner of its  *)
(* chapter, no chapter is queued twice, and an attempt works for its own   *)
(* account.                                                                *)
THEOREM PerAccountAlways == Spec => []QueueIsPerAccount
<1>1. Sound => QueueIsPerAccount
  BY DEF Sound, PerAccount, AttemptSound, QueueIsPerAccount
<1> QED  BY <1>1, SoundInit, SoundNext, PTL DEF Spec


-----------------------------------------------------------------------------
(* The second inductive invariant, on top of Sound.                        *)

\* Row i is being worked on by a worker that has not been told to stop.
Flying(u, i) == Alive /\ InFlight(u, i)

(* The attempt remembers the tries its row had before the claim; only an   *)
(* attempt in flight makes its row read DOWNLOADING, and a row that was    *)
(* given up is in nobody's hands.                                          *)
RowSound(i) ==
    LET u == queue[i].user
    IN  /\ queue[i].state = "DOWNLOADING" =>
                worker = "down" \/ (Flying(u, i) /\ u \in running)
        /\ Flying(u, i) => /\ queue[i].tries = attempt[u].tries + 1
                           /\ queue[i].state # "ERROR"
                           /\ queue[i].failed + 1 <= queue[i].tries
                           /\ queue[i].tries <= queue[i].failed + 1 + restarts
        /\ ~Flying(u, i) => /\ queue[i].failed <= queue[i].tries
                            /\ queue[i].tries <= queue[i].failed + restarts
        /\ queue[i].state = "ERROR" => queue[i].tries >= MaxTries

\* Nothing runs in a process that has ended.
DownIsIdle ==
    worker = "down" => running = {} /\ \A u \in Users : attempt[u].pc = "idle"

Busy ==
    /\ \A i \in DOMAIN queue : RowSound(i)
    /\ StartedHasWork
    /\ DownIsIdle

LEMMA BusyInit == Init => Busy
BY DEF Init, Busy, StartedHasWork, DownIsIdle, NoAttempt, Alive

(* What a step means for a row it leaves alone, or only takes out of the   *)
(* state DOWNLOADING, while its account's attempt goes on as it was.       *)
SameFlight(u) ==
    /\ attempt'[u].pc = "idle" <=> attempt[u].pc = "idle"
    /\ attempt'[u].row = attempt[u].row
    /\ attempt'[u].tries = attempt[u].tries

LEMMA RowQuiet ==
  ASSUME NEW i \in DOMAIN queue, i \in DOMAIN queue', RowSound(i),
         queue'[i].user = queue[i].user,
         queue'[i].tries = queue[i].tries,
         queue'[i].failed = queue[i].failed,
         queue'[i].state \in {queue[i].state, "QUEUED"},
         queue'[i].state = "DOWNLOADING" /\ queue[i].user \in running
            => queue[i].user \in running',
         SameFlight(queue[i].user), worker' = worker, restarts' = restarts
  PROVE  RowSound(i)'
BY DEF RowSound, SameFlight, Flying, InFlight, Alive

(* An account whose waiting rows all stay still has one waiting.           *)
LEMMA QueuedStays ==
  ASSUME NEW v, HasQueuedWork(queue, v),
         \A i \in RowsOf(queue, v) : /\ i \in DOMAIN queue'
                                     /\ queue'[i].user = v
                                     /\ queue[i].state = "QUEUED" => queue'[i].state = "QUEUED"
  PROVE  HasQueuedWork(queue', v)
BY DEF HasQueuedWork, QueuedRows, RowsOf

(* A row that is pending is waiting or in flight.                          *)
LEMMA PendingIsWork ==
  ASSUME Alive, NEW v, HasPendingWork(queue, v), \A i \in DOMAIN queue : RowSound(i)
  PROVE  HasQueuedWork(queue, v) \/ attempt[v].pc # "idle"
BY DEF HasPendingWork, PendingRows, HasQueuedWork, QueuedRows, RowsOf, RowSound, Flying,
       InFlight, Alive

LEMMA BusyMutation ==
  ASSUME Sound, Busy, Mutation
  PROVE  Busy'
<1>1. Sound' /\ IsTable(queue, nextId - 1) /\ nextId - 1 \in Nat /\ PerAccount(queue)
  BY SoundMutation, QueueIsTable DEF Sound
<1>2. PICK u \in Users :
        \/ \E b \in Batches : EnqueueDownloads(u, b)
        \/ \E b \in Batches : DequeueDownloads(u, Range(b))
        \/ StartDownloader(u)
        \/ StopDownloader(u)
        \/ ClearDownloader(u)
        \/ \E c \in Chapters, to \in Targets : ReorderDownload(u, c, to)
  BY DEF Mutation
<1>3. UNCHANGED <<worker, attempt, restarts>> /\ worker # "down"
  BY <1>2 DEF EnqueueDownloads, DequeueDownloads, StartDownloader, StopDownloader,
              ClearDownloader, ReorderDownload, memory, persistent, Serving
<1>4. DownIsIdle'
  BY <1>3 DEF DownIsIdle
<1>5. ASSUME NEW i \in DOMAIN queue, i \in DOMAIN queue',
             queue'[i].user = queue[i].user,
             queue'[i].tries = queue[i].tries,
             queue'[i].failed = queue[i].failed,
             queue'[i].state \in {queue[i].state, "QUEUED"},
             queue'[i].state = "DOWNLOADING" /\ queue[i].user \in running
                => queue[i].user \in running'
      PROVE  RowSound(i)'
  <2>1. RowSound(i) /\ SameFlight(queue[i].user)
    BY <1>3 DEF Busy, SameFlight
  <2> QED  BY <1>3, <1>5, <2>1, RowQuiet
<1>6. ASSUME NEW b \in Batches, EnqueueDownloads(u, b) PROVE Busy'
  <2> DEFINE n == nextId - 1
             r == Enqueue(queue, n, downloaded, u, b)
  <2>1. /\ IsTable(r, n + Len(b))
        /\ DOMAIN queue \subseteq DOMAIN r
        /\ \A i \in DOMAIN queue : r[i] = queue[i]
        /\ \A i \in DOMAIN r \ DOMAIN queue :
               /\ i > n
               /\ r[i].user = u
               /\ r[i].state = "QUEUED"
               /\ r[i].tries = 0
               /\ r[i].failed = 0
        /\ PerAccount(queue) => PerAccount(r)
        /\ Distinct(queue) => Distinct(r)
    <3>1. b \in Seq(Chapters) /\ \A j, k \in DOMAIN b : b[j] = b[k] => j = k
      BY DownloadsAssumption
    <3>2. IsTable(queue, n) /\ n \in Nat /\ u \in Users
      BY <1>1, <1>2
    <3> HIDE DEF n
    <3> QED  BY <3>1, <3>2, EnqueueAppends
  <2>2. queue' = r /\ running' = running
    BY <1>6 DEF EnqueueDownloads, memory
  <2> HIDE DEF r
  <2>3. ASSUME NEW i \in DOMAIN queue' PROVE RowSound(i)'
    <3>1. CASE i \in DOMAIN queue
      BY <1>5, <2>1, <2>2, <3>1
    <3>2. CASE i \notin DOMAIN queue
      <4>1. i > n /\ queue'[i].state = "QUEUED" /\ queue'[i].tries = 0
            /\ queue'[i].failed = 0 /\ queue'[i].user = u
        BY <2>1, <2>2, <3>2
      <4>2. attempt[u].pc # "idle" => attempt[u].row \in 1..n
        BY DEF Sound, AttemptSound
      <4>3. attempt'[u].pc = "idle" \/ attempt'[u].row # i
        BY <1>1, <1>3, <4>1, <4>2
      <4>4. restarts' = restarts /\ restarts \in Nat
        BY <1>3 DEF Sound, TypeOK
      <4> HIDE DEF n
      <4>5. queue'[i].failed <= queue'[i].tries /\ queue'[i].tries <= queue'[i].failed + restarts'
        <5>1. queue'[i].tries = 0 /\ queue'[i].failed = 0
          BY <4>1
        <5>2. 0 <= 0 /\ 0 <= 0 + restarts
          BY <4>4
        <5> QED  BY <4>4, <5>1, <5>2
      <4>6. queue'[i].state # "DOWNLOADING" /\ queue'[i].state # "ERROR"
        BY <4>1
      <4>7. ~(attempt'[queue'[i].user].pc # "idle" /\ attempt'[queue'[i].user].row = i)
        BY <4>1, <4>3
      <4> QED  BY <4>5, <4>6, <4>7 DEF RowSound, Flying, InFlight
    <3> QED  BY <3>1, <3>2
  <2>4. StartedHasWork'
    <3>1. ASSUME NEW v, HasQueuedWork(queue, v) PROVE HasQueuedWork(queue', v)
      BY <2>1, <2>2, <3>1, QueuedStays DEF RowsOf
    <3> QED  BY <1>3, <2>2, <3>1 DEF StartedHasWork, Busy, Alive
  <2> QED  BY <1>4, <2>3, <2>4 DEF Busy
<1>7. ASSUME NEW b \in Batches, DequeueDownloads(u, Range(b)) PROVE Busy'
  <2> DEFINE r == Dequeue(queue, u, Range(b))
  <2>1. /\ DOMAIN r = DOMAIN queue \ {i \in RowsOf(queue, u) : queue[i].chapter \in Range(b)}
        /\ Evolves(queue, r)
        /\ SameProgress(queue, r)
    BY <1>1, DequeueLeaves
  <2>2. queue' = r /\ SetDownloaderState(u, u \in running /\ HasPendingWork(queue', u))
    BY <1>7 DEF DequeueDownloads
  <2> HIDE DEF r
  <2>3. ASSUME NEW i \in DOMAIN queue'
        PROVE  /\ i \in DOMAIN queue
               /\ queue'[i].user = queue[i].user
               /\ queue'[i].state = queue[i].state
               /\ queue'[i].tries = queue[i].tries
               /\ queue'[i].failed = queue[i].failed
    BY <2>1, <2>2 DEF Evolves, SameProgress
  <2>4. ASSUME NEW i \in DOMAIN queue' PROVE RowSound(i)'
    <3>1. queue'[i].state = "DOWNLOADING" => HasPendingWork(queue', queue'[i].user)
      BY DEF HasPendingWork, PendingRows, RowsOf
    <3>2. queue'[i].state = "DOWNLOADING" /\ queue[i].user \in running => queue[i].user \in running'
      BY <2>2, <2>3, <3>1 DEF SetDownloaderState
    <3> QED  BY <1>5, <2>3, <3>2
  <2>5. ASSUME Alive', NEW v \in running' PROVE HasQueuedWork(queue', v) \/ attempt'[v].pc # "idle"
    <3>1. CASE v = u
      <4>1. HasPendingWork(queue', v)
        BY <2>2, <2>5, <3>1 DEF SetDownloaderState
      <4> QED  BY <2>4, <2>5, <4>1
               DEF HasPendingWork, PendingRows, HasQueuedWork, QueuedRows, RowsOf, RowSound,
                   Flying, InFlight, Alive
    <3>2. CASE v # u
      <4>1. v \in running
        BY <2>2, <3>2 DEF SetDownloaderState
      <4>2. HasQueuedWork(queue, v) => HasQueuedWork(queue', v)
        <5>1. \A i \in RowsOf(queue, v) : i \in DOMAIN queue'
          BY <2>1, <2>2, <3>2 DEF RowsOf
        <5> QED  BY <2>3, <5>1, QueuedStays DEF RowsOf
      <4> QED  BY <1>3, <2>5, <4>1, <4>2 DEF Busy, StartedHasWork, Alive
    <3> QED  BY <3>1, <3>2
  <2> QED  BY <1>4, <2>4, <2>5 DEF Busy, StartedHasWork
<1>8. ASSUME StartDownloader(u) PROVE Busy'
  <2>1. queue' = queue /\ SetDownloaderState(u, HasPendingWork(queue, u))
    BY <1>8 DEF StartDownloader, persistent
  <2>2. ASSUME NEW i \in DOMAIN queue' PROVE RowSound(i)'
    <3>1. queue[i].state = "DOWNLOADING" => HasPendingWork(queue, queue[i].user)
      BY <2>1 DEF HasPendingWork, PendingRows, RowsOf
    <3>2. queue'[i].state = "DOWNLOADING" /\ queue[i].user \in running => queue[i].user \in running'
      BY <2>1, <3>1 DEF SetDownloaderState
    <3> QED  BY <1>5, <2>1, <3>2
  <2>3. ASSUME Alive', NEW v \in running' PROVE HasQueuedWork(queue', v) \/ attempt'[v].pc # "idle"
    <3>1. Alive
      BY <1>3, <2>3 DEF Alive
    <3>2. HasPendingWork(queue, v) \/ v \in running
      BY <2>1, <2>3 DEF SetDownloaderState
    <3> QED  BY <1>3, <2>1, <3>1, <3>2, PendingIsWork DEF Busy, StartedHasWork
  <2> QED  BY <1>4, <2>2, <2>3 DEF Busy, StartedHasWork
<1>9. ASSUME StopDownloader(u) PROVE Busy'
  <2> DEFINE r == Requeue(queue, RowsOf(queue, u))
  <2>1. /\ DOMAIN r = DOMAIN queue
        /\ Evolves(queue, r)
        /\ \A i \in DOMAIN queue :
               /\ r[i].state = IF i \in RowsOf(queue, u) /\ queue[i].state = "DOWNLOADING"
                               THEN "QUEUED" ELSE queue[i].state
               /\ r[i].tries = queue[i].tries
               /\ r[i].failed = queue[i].failed
    BY <1>1, RequeueLeaves
  <2>2. queue' = r /\ running' = running \ {u}
    BY <1>9 DEF StopDownloader, Pause, SetDownloaderState
  <2> HIDE DEF r
  <2>3. ASSUME NEW i \in DOMAIN queue' PROVE RowSound(i)'
    BY <1>5, <2>1, <2>2 DEF Evolves, RowsOf
  <2>4. ASSUME NEW v, HasQueuedWork(queue, v) PROVE HasQueuedWork(queue', v)
    BY <2>1, <2>2, <2>4, QueuedStays DEF RowsOf, Evolves
  <2> QED  BY <1>3, <1>4, <2>2, <2>3, <2>4 DEF Busy, StartedHasWork, Alive
<1>10. ASSUME ClearDownloader(u) PROVE Busy'
  <2>1. /\ DOMAIN queue' = DOMAIN queue \ RowsOf(queue, u)
        /\ \A i \in DOMAIN queue' : queue'[i] = queue[i]
        /\ running' = running \ {u}
    BY <1>10 DEF ClearDownloader, Clear, Delete, SetDownloaderState
  <2>2. ASSUME NEW i \in DOMAIN queue' PROVE RowSound(i)'
    BY <1>5, <2>1 DEF RowsOf
  <2>3. ASSUME NEW v, v # u, HasQueuedWork(queue, v) PROVE HasQueuedWork(queue', v)
    BY <2>1, <2>3, QueuedStays DEF RowsOf
  <2> QED  BY <1>3, <1>4, <2>1, <2>2, <2>3 DEF Busy, StartedHasWork, Alive
<1>11. ASSUME NEW c \in Chapters, NEW to \in Targets, ReorderDownload(u, c, to) PROVE Busy'
  <2> DEFINE r == Reorder(queue, u, c, to)
  <2>1. to \in Int
    BY DownloadsAssumption
  <2>2. DOMAIN r = DOMAIN queue /\ Evolves(queue, r) /\ SameProgress(queue, r)
    BY <1>1, <2>1, ReorderEvolves
  <2>3. queue' = r /\ running' = running
    BY <1>11 DEF ReorderDownload, memory
  <2> HIDE DEF r
  <2>4. ASSUME NEW i \in DOMAIN queue' PROVE RowSound(i)'
    BY <1>5, <2>2, <2>3 DEF Evolves, SameProgress
  <2>5. ASSUME NEW v, HasQueuedWork(queue, v) PROVE HasQueuedWork(queue', v)
    BY <2>2, <2>3, <2>5, QueuedStays DEF RowsOf, Evolves, SameProgress
  <2> QED  BY <1>3, <1>4, <2>3, <2>4, <2>5 DEF Busy, StartedHasWork, Alive
<1> QED  BY <1>2, <1>6, <1>7, <1>8, <1>9, <1>10, <1>11

-----------------------------------------------------------------------------
(* The claims, the attempts and the process.                               *)

LEMMA BusyFillSlots ==
  ASSUME Sound, Busy, FillSlots
  PROVE  Busy'
<1>0. TypeOK /\ Alive /\ UNCHANGED <<worker, running, restarts>>
  BY DEF Sound, FillSlots
<1>1. DOMAIN queue' = DOMAIN queue
  BY DEF FillSlots
<1>2. ASSUME NEW i \in DOMAIN queue, i \in Claimed
      PROVE  /\ queue[i].user \in Chosen
             /\ i = NextQueued(queue, queue[i].user)
             /\ queue[i].state = "QUEUED"
             /\ attempt[queue[i].user].pc = "idle"
  <2>1. PICK u \in Chosen : i = NextQueued(queue, u)
    BY <1>2 DEF Claimed
  <2> QED  BY <1>0, <2>1, ClaimsNext
<1>3. ASSUME NEW u \in Chosen
      PROVE  /\ NextQueued(queue, u) \in Claimed
             /\ attempt'[u].pc = "listing"
             /\ attempt'[u].row = NextQueued(queue, u)
             /\ attempt'[u].tries = queue[NextQueued(queue, u)].tries
  BY <1>0, ClaimsNext DEF FillSlots, Claimed
<1>4. \A u \in Users : u \notin Chosen => attempt'[u] = attempt[u]
  BY DEF FillSlots
<1>5. ASSUME NEW i \in DOMAIN queue, i \in Claimed PROVE RowSound(i)'
  <2> DEFINE u == queue[i].user
             t == queue[i].tries
  <2>1. /\ queue'[i].user = u
        /\ queue'[i].state = "DOWNLOADING"
        /\ queue'[i].tries = t + 1
        /\ queue'[i].failed = queue[i].failed
    <3>1. queue[i] \in Row
      BY <1>0 DEF TypeOK
    <3> QED  BY <1>5, <3>1 DEF FillSlots, Row
  <2>2. /\ attempt'[u].pc = "listing" /\ attempt'[u].row = i /\ attempt'[u].tries = t
        /\ u \in running'
    BY <1>0, <1>2, <1>3, <1>5, ClaimsNext
  <2>3. queue[i].failed <= t /\ t <= queue[i].failed + restarts
    BY <1>2, <1>5 DEF Busy, RowSound, Flying, InFlight
  <2>4. t \in Nat /\ queue[i].failed \in Nat /\ restarts \in Nat
    BY <1>0 DEF TypeOK, Row
  <2>5. Alive'
    BY <1>0 DEF Alive
  <2> HIDE DEF u, t
  <2> QED  BY <1>0, <2>1, <2>2, <2>3, <2>4, <2>5 DEF RowSound, Flying, InFlight
<1>6. ASSUME NEW i \in DOMAIN queue, i \notin Claimed PROVE RowSound(i)'
  <2> DEFINE u == queue[i].user
  <2>1. queue'[i] = queue[i] /\ u \in Users
    BY <1>0, <1>6 DEF FillSlots, TypeOK, Row
  <2>2. CASE u \notin Chosen
    <3>1. SameFlight(u)
      BY <1>4, <2>1, <2>2 DEF SameFlight
    <3> QED  BY <1>0, <1>1, <2>1, <3>1, RowQuiet DEF Busy
  <2>3. CASE u \in Chosen
    <3>1. attempt[u].pc = "idle" /\ attempt'[u].row # i
      BY <1>0, <1>3, <1>6, <2>3, ClaimsNext
    <3> QED  BY <1>0, <2>1, <3>1 DEF Busy, RowSound, Flying, InFlight, Alive
  <2> QED  BY <2>2, <2>3
<1>7. StartedHasWork'
  <2> SUFFICES ASSUME NEW u \in running PROVE HasQueuedWork(queue', u) \/ attempt'[u].pc # "idle"
    BY <1>0 DEF StartedHasWork
  <2>1. u \in Users /\ (HasQueuedWork(queue, u) \/ attempt[u].pc # "idle")
    BY <1>0 DEF Busy, StartedHasWork, TypeOK
  <2>2. CASE u \in Chosen
    BY <1>3, <2>2
  <2>3. CASE u \notin Chosen
    <3>1. \A i \in RowsOf(queue, u) : queue'[i] = queue[i]
      BY <1>2, <2>3 DEF RowsOf, FillSlots
    <3>2. HasQueuedWork(queue, u) => HasQueuedWork(queue', u)
      BY <1>1, <3>1, QueuedStays DEF RowsOf
    <3> QED  BY <1>4, <2>1, <2>3, <3>2
  <2> QED  BY <2>2, <2>3
<1>8. DownIsIdle'
  BY <1>0 DEF DownIsIdle, Alive
<1> QED  BY <1>1, <1>5, <1>6, <1>7, <1>8 DEF Busy

(* An attempt that goes on to its next await changes no row.               *)
LEMMA BusyMoves ==
  ASSUME Sound, Busy, NEW u \in Users, attempt[u].pc # "idle",
         NEW a, attempt' = [attempt EXCEPT ![u] = a],
         a.pc # "idle", a.row = attempt[u].row, a.tries = attempt[u].tries,
         UNCHANGED <<queue, running, worker, restarts>>
  PROVE  Busy'
<1>1. \A v \in Users : SameFlight(v)
  BY DEF SameFlight, Sound, TypeOK
<1>2. ASSUME NEW i \in DOMAIN queue' PROVE RowSound(i)'
  BY <1>1, RowQuiet DEF Busy, Sound, TypeOK, Row
<1>3. StartedHasWork'
  BY <1>1 DEF Busy, StartedHasWork, Alive, SameFlight, Sound, TypeOK
<1>4. DownIsIdle'
  BY DEF Busy, DownIsIdle
<1> QED  BY <1>2, <1>3, <1>4 DEF Busy

(* When an attempt ends, it is enough that its own row is sound and out of *)
(* the state DOWNLOADING: nothing else of its account was in flight.       *)
LEMMA BusyEnds ==
  ASSUME Sound, Busy, NEW u \in Users, attempt[u].pc # "idle", EndAttempt(u),
         UNCHANGED <<worker, restarts>>,
         DOMAIN queue' \subseteq DOMAIN queue,
         DOMAIN queue \subseteq DOMAIN queue' \cup {attempt[u].row},
         \A i \in DOMAIN queue' : queue'[i].user = queue[i].user,
         \A i \in DOMAIN queue' \ {attempt[u].row} : queue'[i] = queue[i],
         ~Alive => queue' = queue,
         attempt[u].row \in DOMAIN queue' /\ Alive =>
            LET row == queue'[attempt[u].row]
            IN  /\ row.state # "DOWNLOADING"
                /\ row.failed <= row.tries
                /\ row.tries <= row.failed + restarts
                /\ row.state = "ERROR" => row.tries >= MaxTries
  PROVE  Busy'
<1> DEFINE k == attempt[u].row
<1>0. TypeOK /\ worker # "down"
  BY DEF Sound, Busy, DownIsIdle
<1>1. attempt'[u].pc = "idle" /\ \A v \in Users : v # u => attempt'[v] = attempt[v]
  BY <1>0 DEF EndAttempt, NoAttempt, TypeOK
<1>2. \A v \in Users : v # u /\ v \in running => v \in running'
  BY DEF EndAttempt
<1>3. ASSUME NEW i \in DOMAIN queue' PROVE RowSound(i)'
  <2>1. queue[i] \in Row /\ queue[i].user \in Users /\ i \in DOMAIN queue /\ RowSound(i)
    BY <1>0 DEF TypeOK, Row, Busy
  <2>2. CASE queue[i].user # u
    <3>1. i # k
      <4>1. k \in DOMAIN queue => queue[k].user = u
        BY DEF Sound, AttemptSound, PerAccount
      <4> QED  BY <2>1, <2>2, <4>1
    <3>2. SameFlight(queue[i].user)
      BY <1>1, <2>1, <2>2 DEF SameFlight
    <3> QED  BY <1>2, <2>1, <2>2, <3>1, <3>2, RowQuiet
  <2>3. CASE queue[i].user = u /\ i # k
    <3>1. queue'[i] = queue[i]
      BY <2>3
    <3>2. ~Flying(u, i)
      BY <2>3 DEF Flying, InFlight
    <3> QED  BY <1>0, <1>1, <2>1, <2>3, <3>1, <3>2 DEF RowSound, Flying, InFlight
  <2>4. CASE queue[i].user = u /\ i = k /\ Alive
    BY <1>1, <2>4 DEF RowSound, Flying, InFlight
  <2>5. CASE queue[i].user = u /\ i = k /\ ~Alive
    <3>1. queue' = queue /\ ~Alive'
      BY <2>5 DEF Alive
    <3> QED  BY <1>0, <2>1, <2>5, <3>1 DEF RowSound, Flying
  <2> QED  BY <2>2, <2>3, <2>4, <2>5
<1>4. StartedHasWork'
  <2> SUFFICES ASSUME Alive, NEW v \in running' PROVE HasQueuedWork(queue', v) \/ attempt'[v].pc # "idle"
    BY DEF StartedHasWork, Alive
  <2>1. CASE v = u
    BY <2>1 DEF EndAttempt
  <2>2. CASE v # u
    <3>1. v \in running /\ v \in Users
      BY <1>0 DEF EndAttempt, TypeOK
    <3>2. \A i \in RowsOf(queue, v) : i # k
      BY <2>2 DEF Sound, AttemptSound, PerAccount, RowsOf
    <3>3. HasQueuedWork(queue, v) => HasQueuedWork(queue', v)
      BY <3>2, QueuedStays DEF RowsOf
    <3> QED  BY <1>1, <2>2, <3>1, <3>3 DEF Busy, StartedHasWork
  <2> QED  BY <2>1, <2>2
<1>5. DownIsIdle'
  BY <1>0 DEF DownIsIdle
<1> QED  BY <1>3, <1>4, <1>5 DEF Busy

(* The three ways an attempt ends: its row goes back, fails, or is done.   *)
LEMMA BusyStepAway ==
  ASSUME Sound, Busy, NEW u \in Users, attempt[u].pc # "idle", StepAway(u),
         UNCHANGED <<worker, restarts>>
  PROVE  Busy'
<1> DEFINE k == attempt[u].row
<1>0. TypeOK /\ attempt[u].tries \in Nat
  BY DEF Sound, TypeOK, Attempt
<1>1. DOMAIN queue' = DOMAIN queue /\ \A i \in DOMAIN queue \ {k} : queue'[i] = queue[i]
  BY DEF StepAway, HandBack
<1>2. \A i \in DOMAIN queue' : queue'[i].user = queue[i].user
  BY HandBackEvolves DEF StepAway, Evolves
<1>3. ~Alive => queue' = queue
  BY DEF StepAway, HandBack
<1>4. ASSUME k \in DOMAIN queue', Alive
      PROVE  /\ queue'[k].state # "DOWNLOADING"
             /\ queue'[k].failed <= queue'[k].tries
             /\ queue'[k].tries <= queue'[k].failed + restarts
             /\ queue'[k].state = "ERROR" => queue'[k].tries >= MaxTries
  <2>1. k \in DOMAIN queue /\ queue[k] \in Row /\ queue[k].user = u
    BY <1>0, <1>1, <1>4 DEF Sound, AttemptSound, PerAccount, TypeOK
  <2>2. /\ queue[k].tries = attempt[u].tries + 1
        /\ queue[k].failed + 1 <= queue[k].tries
        /\ queue[k].tries <= queue[k].failed + 1 + restarts
    BY <1>4, <2>1 DEF Busy, RowSound, Flying, InFlight
  <2>3. /\ queue'[k].state = "QUEUED" /\ queue'[k].tries = attempt[u].tries
        /\ queue'[k].failed = queue[k].failed
    BY <1>4, <2>1 DEF StepAway, HandBack, Row
  <2>4. queue[k].failed \in Nat /\ restarts \in Nat /\ queue[k].tries \in Nat
    BY <1>0, <2>1 DEF Row, TypeOK
  <2> HIDE DEF k
  <2> QED  BY <1>0, <2>2, <2>3, <2>4
<1> HIDE DEF k
<1>5. EndAttempt(u)
  BY DEF StepAway
<1> QED  BY <1>1, <1>2, <1>3, <1>4, <1>5, BusyEnds DEF k

LEMMA BusyFails ==
  ASSUME Sound, Busy, NEW u \in Users, attempt[u].pc # "idle", RecordFailure(u), EndAttempt(u),
         UNCHANGED <<worker, restarts>>
  PROVE  Busy'
<1> DEFINE k == attempt[u].row
           t == attempt[u].tries + 1
<1>0. TypeOK /\ t \in Nat
  BY DEF Sound, TypeOK, Attempt
<1>1. DOMAIN queue' = DOMAIN queue /\ \A i \in DOMAIN queue \ {k} : queue'[i] = queue[i]
  BY DEF RecordFailure
<1>2. \A i \in DOMAIN queue' : queue'[i].user = queue[i].user
  BY FailureEvolves DEF Evolves
<1>3. ~Alive => queue' = queue
  BY DEF RecordFailure
<1>4. ASSUME k \in DOMAIN queue', Alive
      PROVE  /\ queue'[k].state # "DOWNLOADING"
             /\ queue'[k].failed <= queue'[k].tries
             /\ queue'[k].tries <= queue'[k].failed + restarts
             /\ queue'[k].state = "ERROR" => queue'[k].tries >= MaxTries
  <2>1. k \in DOMAIN queue /\ queue[k] \in Row /\ queue[k].user = u
    BY <1>0, <1>1, <1>4 DEF Sound, AttemptSound, PerAccount, TypeOK
  <2>2. /\ queue[k].tries = t
        /\ queue[k].failed + 1 <= queue[k].tries
        /\ queue[k].tries <= queue[k].failed + 1 + restarts
    BY <1>4, <2>1 DEF Busy, RowSound, Flying, InFlight
  <2>3. queue'[k] = Failed(queue[k], t, NextPosition(queue, u))
    BY <1>4, <2>1 DEF RecordFailure
  <2>4. /\ queue'[k].state = IF t < MaxTries THEN "QUEUED" ELSE "ERROR"
        /\ queue'[k].tries = t
        /\ queue'[k].failed = queue[k].failed + 1
    <3> HIDE DEF k, t
    <3> QED  BY <2>1, <2>3 DEF Failed, Row
  <2>5. queue[k].failed \in Nat /\ restarts \in Nat /\ MaxTries \in Nat
    BY <1>0, <2>1, DownloadsAssumption DEF Row, TypeOK
  <2> HIDE DEF k, t
  <2> QED  BY <1>0, <2>2, <2>4, <2>5
<1> HIDE DEF k
<1> QED  BY <1>1, <1>2, <1>3, <1>4, BusyEnds DEF k

LEMMA BusyCompletes ==
  ASSUME Sound, Busy, NEW u \in Users, attempt[u].pc # "idle", EndAttempt(u), Alive,
         queue' = Delete(queue, {attempt[u].row}), UNCHANGED <<worker, restarts>>
  PROVE  Busy'
<1>1. /\ DOMAIN queue' = DOMAIN queue \ {attempt[u].row}
      /\ \A i \in DOMAIN queue' : queue'[i] = queue[i]
  BY DEF Delete
<1> QED  BY <1>1, BusyEnds

LEMMA BusyAttempt ==
  ASSUME Sound, Busy, NEW u \in Users, AttemptStep(u)
  PROVE  Busy'
<1>1. attempt[u].pc # "idle" /\ AttemptFrame /\ UNCHANGED <<worker, restarts>>
  BY DEF AttemptStep, ListPages, OpenPartial, StorePage, FinishAsFolder, FinishAsCbz, FileStep,
         Complete, AttemptFails, AttemptFrame
<1>2. ASSUME NEW pc \in AttemptPC \ {"idle"}, Goto(u, pc) PROVE Busy'
  <2> DEFINE a == [attempt[u] EXCEPT !.pc = pc]
  <2>1. attempt[u] \in Attempt
    BY DEF Sound, TypeOK
  <2>2. a.pc # "idle" /\ a.row = attempt[u].row /\ a.tries = attempt[u].tries
    BY <2>1 DEF Attempt
  <2>3. attempt' = [attempt EXCEPT ![u] = a] /\ UNCHANGED <<queue, running>>
    BY <1>2 DEF Goto
  <2> HIDE DEF a
  <2> QED  BY <1>1, <2>2, <2>3, BusyMoves
<1>3. ASSUME NEW present \in SUBSET Pages, NEW done, NextPage(u, present, done) PROVE Busy'
  <2>1. UNCHANGED <<queue, running>>
    BY <1>3 DEF NextPage
  <2>2. PICK a \in Attempt :
            /\ attempt' = [attempt EXCEPT ![u] = a]
            /\ a.pc # "idle"
            /\ a.row = attempt[u].row
            /\ a.tries = attempt[u].tries
    BY <1>1, <1>3, NextPageMoves
  <2> QED  BY <1>1, <2>1, <2>2, BusyMoves
<1>4. CASE ListPages(u)
  <2>1. "opening" \in AttemptPC \ {"idle"}
    BY DEF AttemptPC
  <2> QED  BY <1>1, <1>2, <1>4, <2>1, BusyStepAway DEF ListPages
<1>5. CASE OpenPartial(u)
  <2>1. PagesIn(MakePartial(AttemptFiles(u)).partial) \in SUBSET Pages
    BY DEF PagesIn
  <2> QED  BY <1>1, <1>3, <1>5, <2>1, BusyStepAway DEF OpenPartial
<1>6. CASE StorePage(u)
  <2>1. attempt[u].present \in SUBSET Pages
    BY DEF Sound, TypeOK, Attempt
  <2> QED  BY <1>1, <1>3, <1>6, <2>1, BusyStepAway DEF StorePage
<1>7. CASE FinishAsFolder(u)
  <2>1. {"rmDir", "publishDir", "landed"} \subseteq AttemptPC \ {"idle"}
    BY DEF AttemptPC
  <2> QED  BY <1>2, <1>7, <2>1 DEF FinishAsFolder, FileStep
<1>8. CASE FinishAsCbz(u)
  <2>1. {"rmDirForCbz", "publishCbz", "rmPartial", "landed"} \subseteq AttemptPC \ {"idle"}
    BY DEF AttemptPC
  <2> QED  BY <1>2, <1>8, <2>1 DEF FinishAsCbz, FileStep
<1>9. CASE Complete(u)
  BY <1>1, <1>9, BusyStepAway, BusyCompletes DEF Complete
<1>10. CASE AttemptFails(u)
  BY <1>1, <1>10, BusyFails DEF AttemptFails
<1> QED  BY <1>4, <1>5, <1>6, <1>7, <1>8, <1>9, <1>10 DEF AttemptStep

LEMMA BusyProcess ==
  ASSUME Sound, Busy, StopWorker \/ Exit \/ StartDownloadWorker
  PROVE  Busy'
<1> DEFINE r == ReleaseInFlight(queue)
<1>0. TypeOK /\ restarts \in Nat
  BY DEF Sound, TypeOK
<1>1. /\ DOMAIN r = DOMAIN queue
      /\ \A i \in DOMAIN queue :
            /\ r[i].user = queue[i].user
            /\ r[i].state = IF queue[i].state = "DOWNLOADING" THEN "QUEUED" ELSE queue[i].state
            /\ r[i].tries = queue[i].tries
            /\ r[i].failed = queue[i].failed
  BY <1>0, QueueIsTable, RequeueLeaves DEF ReleaseInFlight, Evolves
<1>2. \A i \in DOMAIN queue : /\ queue[i].tries \in Nat /\ queue[i].failed \in Nat
                              /\ RowSound(i)
  BY <1>0 DEF TypeOK, Row, Busy
<1> HIDE DEF r
<1>3. CASE StopWorker
  <2>1. /\ queue' = r /\ worker' = "stopping" /\ running' = {} /\ restarts' = restarts + 1
        /\ ~Alive' /\ Alive
    BY <1>3 DEF StopWorker, Alive, r
  <2>2. ASSUME NEW i \in DOMAIN queue' PROVE RowSound(i)'
    <3>1. /\ queue[i].failed <= queue[i].tries
          /\ queue[i].tries <= queue[i].failed + restarts + 1
      BY <1>0, <1>1, <1>2, <2>1 DEF RowSound
    <3>2. queue[i].state = "ERROR" => queue[i].tries >= MaxTries
      BY <1>1, <1>2, <2>1 DEF RowSound
    <3> QED  BY <1>0, <1>1, <1>2, <2>1, <3>1, <3>2 DEF RowSound, Flying
  <2> QED  BY <2>1, <2>2 DEF Busy, StartedHasWork, DownIsIdle
<1>4. CASE Exit
  <2>1. /\ queue' = queue /\ worker' = "down" /\ running' = {}
        /\ \A u \in Users : attempt'[u].pc = "idle"
        /\ \/ ~Alive /\ restarts' = restarts
           \/ restarts' = restarts + 1
        /\ ~Alive'
    BY <1>4 DEF Exit, persistent, NoAttempt, Alive
  <2>2. ASSUME NEW i \in DOMAIN queue' PROVE RowSound(i)'
    <3>1. /\ queue[i].failed <= queue[i].tries
          /\ queue[i].tries <= queue[i].failed + restarts'
      BY <1>0, <1>2, <2>1 DEF RowSound, Flying
    <3>2. queue[i].state = "ERROR" => queue[i].tries >= MaxTries
      BY <1>2, <2>1 DEF RowSound
    <3> QED  BY <1>0, <2>1, <3>1, <3>2 DEF RowSound, Flying
  <2> QED  BY <2>1, <2>2 DEF Busy, StartedHasWork, DownIsIdle
<1>5. CASE StartDownloadWorker
  <2>1. /\ queue' = r /\ worker' = "up" /\ attempt' = attempt /\ restarts' = restarts
        /\ ~Alive /\ running' = {} /\ \A u \in Users : attempt[u].pc = "idle"
    BY <1>5 DEF StartDownloadWorker, memory, Alive, Busy, DownIsIdle, r
  <2>2. ASSUME NEW i \in DOMAIN queue' PROVE RowSound(i)'
    <3>1. /\ queue[i].failed <= queue[i].tries
          /\ queue[i].tries <= queue[i].failed + restarts
      BY <1>0, <1>1, <1>2, <2>1 DEF RowSound, Flying
    <3>2. queue[i].state = "ERROR" => queue[i].tries >= MaxTries
      BY <1>1, <1>2, <2>1 DEF RowSound
    <3>3. queue[i].user \in Users
      BY <1>0, <1>1, <2>1 DEF TypeOK, Row
    <3> QED  BY <1>0, <1>1, <1>2, <2>1, <3>1, <3>2, <3>3 DEF RowSound, Flying, InFlight
  <2> QED  BY <2>1, <2>2 DEF Busy, StartedHasWork, DownIsIdle
<1> QED  BY <1>3, <1>4, <1>5

LEMMA BusyDeletion ==
  ASSUME Sound, Busy, NEW u \in Users, DeleteDownloaded(u)
  PROVE  Busy'
<1>1. UNCHANGED <<queue, worker, running, attempt, restarts>>
  BY DEF DeleteDownloaded, DeleteBegin, DeleteDir, DeletePartial, DeleteCbz, DeleteFlags,
         DeleteFails, persistent
<1> QED  BY <1>1 DEF Busy, RowSound, Flying, InFlight, StartedHasWork, DownIsIdle, Alive

LEMMA BusyNext == Sound /\ Busy /\ [Next]_vars => Busy'
<1> SUFFICES ASSUME Sound, Busy, [Next]_vars PROVE Busy'
  OBVIOUS
<1>1. CASE UNCHANGED vars
  BY <1>1 DEF vars, Busy, RowSound, Flying, InFlight, StartedHasWork, DownIsIdle, Alive
<1> QED
  BY <1>1, BusyMutation, BusyDeletion, BusyFillSlots, BusyAttempt, BusyProcess DEF Next

LEMMA BusyAlways == Spec => [](Sound /\ Busy)
BY SoundInit, SoundNext, BusyInit, BusyNext, PTL DEF Spec

(* A row reads DOWNLOADING only while an attempt on exactly that row is in *)
(* flight for a STARTED account.                                           *)
THEOREM DownloadingRowsAreReal == Spec => []DownloadingIsReal
<1>1. Sound /\ Busy => DownloadingIsReal
  BY DEF Busy, RowSound, Flying, DownloadingIsReal
<1> QED  BY <1>1, BusyAlways, PTL

(* A STARTED account has a chapter waiting or an attempt in flight.        *)
THEOREM StartedAccountsHaveWork == Spec => []StartedHasWork
<1>1. Sound /\ Busy => StartedHasWork
  BY DEF Busy
<1> QED  BY <1>1, BusyAlways, PTL

(* tries counts the failed attempts, the one in flight and at most one for *)
(* each stop of the process.                                               *)
THEOREM TriesAreAttempts == Spec => []TriesCountAttempts
<1>1. Sound /\ Busy => TriesCountAttempts
  <2> SUFFICES ASSUME Sound, Busy, NEW i \in DOMAIN queue
               PROVE  LET now == IF Alive /\ InFlight(queue[i].user, i) THEN 1 ELSE 0
                      IN  queue[i].failed + now <= queue[i].tries
                          /\ queue[i].tries <= queue[i].failed + now + restarts
    BY DEF TriesCountAttempts
  <2>1. queue[i].failed \in Nat /\ queue[i].tries \in Nat /\ restarts \in Nat
    BY DEF Sound, TypeOK, Row
  <2>2. CASE Flying(queue[i].user, i)
    BY <2>1, <2>2 DEF Busy, RowSound, Flying
  <2>3. CASE ~Flying(queue[i].user, i)
    BY <2>1, <2>3 DEF Busy, RowSound, Flying
  <2> QED  BY <2>2, <2>3
<1> QED  BY <1>1, BusyAlways, PTL

(* A chapter is given up only after MAX_TRIES attempts, of which all but   *)
(* those a stop of the process cut short failed.                           *)
THEOREM ErrorsAreExhausted == Spec => []ErrorMeansExhausted
<1>1. Sound /\ Busy => ErrorMeansExhausted
  <2> SUFFICES ASSUME Sound, Busy, NEW i \in DOMAIN queue, queue[i].state = "ERROR"
               PROVE  queue[i].tries >= MaxTries /\ queue[i].failed + restarts >= MaxTries
    BY DEF ErrorMeansExhausted
  <2>1. /\ queue[i].failed \in Nat /\ queue[i].tries \in Nat /\ restarts \in Nat
        /\ MaxTries \in Nat
    BY DownloadsAssumption DEF Sound, TypeOK, Row
  <2>2. /\ queue[i].tries >= MaxTries
        /\ queue[i].tries <= queue[i].failed + restarts
    BY DEF Busy, RowSound
  <2> QED  BY <2>1, <2>2
<1> QED  BY <1>1, BusyAlways, PTL

-----------------------------------------------------------------------------
(* Positions.                                                              *)

LEMMA DistinctNext ==
  ASSUME Sound, Distinct(queue), [Next]_vars
  PROVE  Distinct(queue')
<1>0. /\ TypeOK /\ PerAccount(queue)
      /\ IsTable(queue, nextId - 1) /\ nextId - 1 \in Nat
  BY QueueIsTable DEF Sound
<1>1. ASSUME DOMAIN queue' \subseteq DOMAIN queue,
             \A i \in DOMAIN queue' : /\ queue'[i].user = queue[i].user
                                      /\ queue'[i].position = queue[i].position
      PROVE  Distinct(queue')
  BY <1>1 DEF Distinct
<1>2. CASE UNCHANGED queue
  BY <1>2
<1>3. ASSUME Mutation PROVE Distinct(queue')
  <2>1. PICK u \in Users :
            \/ \E b \in Batches : EnqueueDownloads(u, b)
            \/ \E b \in Batches : DequeueDownloads(u, Range(b))
            \/ StartDownloader(u)
            \/ StopDownloader(u)
            \/ ClearDownloader(u)
            \/ \E c \in Chapters, to \in Targets : ReorderDownload(u, c, to)
    BY <1>3 DEF Mutation
  <2>2. ASSUME NEW b \in Batches, EnqueueDownloads(u, b) PROVE Distinct(queue')
    <3> DEFINE n == nextId - 1
               r == Enqueue(queue, n, downloaded, u, b)
    <3>1. /\ IsTable(r, n + Len(b))
          /\ DOMAIN queue \subseteq DOMAIN r
          /\ \A i \in DOMAIN queue : r[i] = queue[i]
          /\ \A i \in DOMAIN r \ DOMAIN queue :
                 /\ i > n
                 /\ r[i].user = u
                 /\ r[i].state = "QUEUED"
                 /\ r[i].tries = 0
                 /\ r[i].failed = 0
          /\ PerAccount(queue) => PerAccount(r)
          /\ Distinct(queue) => Distinct(r)
      <4>1. b \in Seq(Chapters) /\ \A j, k \in DOMAIN b : b[j] = b[k] => j = k
        BY DownloadsAssumption
      <4>2. IsTable(queue, n) /\ n \in Nat /\ u \in Users
        BY <1>0, <2>1
      <4> HIDE DEF n
      <4> QED  BY <4>1, <4>2, EnqueueAppends
    <3>2. queue' = r
      BY <2>2 DEF EnqueueDownloads
    <3> HIDE DEF r
    <3> QED  BY <3>1, <3>2
  <2>3. ASSUME NEW b \in Batches, DequeueDownloads(u, Range(b)) PROVE Distinct(queue')
    BY <1>0, <2>3, DequeueLeaves DEF DequeueDownloads
  <2>4. ASSUME StartDownloader(u) PROVE Distinct(queue')
    BY <1>2, <2>4 DEF StartDownloader, persistent
  <2>5. ASSUME StopDownloader(u) PROVE Distinct(queue')
    BY <1>0, <2>5, RequeueLeaves DEF StopDownloader, Pause
  <2>6. ASSUME ClearDownloader(u) PROVE Distinct(queue')
    BY <1>1, <2>6 DEF ClearDownloader, Clear, Delete
  <2>7. ASSUME NEW c \in Chapters, NEW to \in Targets, ReorderDownload(u, c, to)
        PROVE  Distinct(queue')
    <3>1. to \in Int
      BY DownloadsAssumption
    <3> QED  BY <1>0, <2>7, <3>1, ReorderEvolves DEF ReorderDownload
  <2> QED  BY <2>1, <2>2, <2>3, <2>4, <2>5, <2>6, <2>7
<1>4. ASSUME NEW u \in Users, DeleteDownloaded(u) PROVE UNCHANGED queue
  BY <1>4 DEF DeleteDownloaded, DeleteBegin, DeleteDir, DeletePartial, DeleteCbz, DeleteFlags, DeleteFails,
              persistent
<1>5. ASSUME FillSlots PROVE Distinct(queue')
  <2>1. \A i \in DOMAIN queue : queue'[i].user = queue[i].user /\ queue'[i].position = queue[i].position
    BY <1>0, <1>5 DEF FillSlots, TypeOK, Row
  <2> QED  BY <1>1, <1>5, <2>1 DEF FillSlots
<1>6. ASSUME NEW u \in Users, HandBack(u) PROVE Distinct(queue')
  <2>1. \A i \in DOMAIN queue : queue'[i].user = queue[i].user /\ queue'[i].position = queue[i].position
    BY <1>0, <1>6 DEF HandBack, TypeOK, Row
  <2> QED  BY <1>1, <1>6, <2>1 DEF HandBack
<1>7. ASSUME NEW u \in Users, attempt[u].pc # "idle", RecordFailure(u) PROVE Distinct(queue')
  <2> DEFINE k == attempt[u].row
             tail == NextPosition(queue, u)
  <2>1. tail \in Nat /\ \A i \in RowsOf(queue, u) : queue[i].position < tail
    BY <1>0, NextPositionIsPast
  <2>2. CASE Alive /\ k \in DOMAIN queue
    <3>1. queue[k] \in Row /\ queue[k].user = u
      BY <1>0, <1>7, <2>2 DEF Sound, AttemptSound, PerAccount, TypeOK
    <3>2. /\ DOMAIN queue' = DOMAIN queue
          /\ \A i \in DOMAIN queue \ {k} : queue'[i] = queue[i]
          /\ queue'[k] = Failed(queue[k], attempt[u].tries + 1, tail)
      BY <1>7, <2>2 DEF RecordFailure
    <3>3. queue'[k].user = u /\ queue'[k].position \in {queue[k].position, tail}
      <4> HIDE DEF k, tail
      <4> QED  BY <3>1, <3>2 DEF Failed, Row
    <3>4. \A i \in DOMAIN queue \ {k} : queue[i].user = u =>
                queue[i].position # tail /\ queue[i].position # queue[k].position
      <4>1. \A i \in DOMAIN queue : queue[i].user = u => queue[i].position < tail /\ queue[i].position \in Nat
        BY <1>0, <2>1 DEF RowsOf, TypeOK, Row
      <4>2. \A i \in DOMAIN queue \ {k} : queue[i].user = u => queue[i].position # queue[k].position
        BY <2>2, <3>1 DEF Distinct
      <4> HIDE DEF k, tail
      <4> QED  BY <2>1, <4>1, <4>2
    <3> HIDE DEF k, tail
    <3> QED  BY <3>2, <3>3, <3>4 DEF Distinct
  <2>3. CASE ~(Alive /\ k \in DOMAIN queue)
    BY <1>2, <1>7, <2>3 DEF RecordFailure
  <2> QED  BY <2>2, <2>3
<1>8. ASSUME NEW u \in Users, AttemptStep(u) PROVE Distinct(queue')
  <2>1. \/ UNCHANGED queue
        \/ HandBack(u)
        \/ attempt[u].pc # "idle" /\ RecordFailure(u)
        \/ queue' = Delete(queue, {attempt[u].row})
    BY <1>8 DEF AttemptStep, ListPages, OpenPartial, StorePage, FinishAsFolder, FinishAsCbz,
                FileStep, Complete, AttemptFails, Goto, NextPage, StepAway
  <2>2. CASE queue' = Delete(queue, {attempt[u].row})
    BY <1>1, <2>2 DEF Delete
  <2> QED  BY <1>2, <1>6, <1>7, <2>1, <2>2
<1>9. ASSUME StopWorker \/ Exit \/ StartDownloadWorker PROVE Distinct(queue')
  BY <1>0, <1>2, <1>9, RequeueLeaves
     DEF StopWorker, Exit, StartDownloadWorker, ReleaseInFlight, persistent
<1> QED  BY <1>2, <1>3, <1>4, <1>5, <1>8, <1>9 DEF Next, vars

(* No two rows of an account ever share a position.                        *)
THEOREM PositionsStayDistinct == Spec => []PositionsDistinct
<1>1. Init => Distinct(queue)
  BY DEF Init, Distinct
<1>2. Sound /\ Distinct(queue) /\ [Next]_vars => Distinct(queue)'
  BY DistinctNext
<1>3. Distinct(queue) => PositionsDistinct
  BY DEF Distinct, PositionsDistinct
<1> QED  BY <1>1, <1>2, <1>3, SoundInit, SoundNext, PTL DEF Spec

-----------------------------------------------------------------------------
(* Slots.                                                                  *)

(* A pass never chooses more accounts than there are slots left: every     *)
(* account it chose but the last is ahead of the last.                     *)
LEMMA ChosenFit ==
  ASSUME TypeOK, Chosen # {}
  PROVE  /\ IsFiniteSet(Chosen) /\ IsFiniteSet(Active)
         /\ Cardinality(Chosen) \in Nat /\ Cardinality(Active) \in Nat
         /\ Cardinality(Chosen) + Cardinality(Active) <= MaxActive
<1>1. IsFiniteSet(Users) /\ Chosen \subseteq Candidates /\ Candidates \subseteq Users
      /\ Active \subseteq Users
  BY AccountsAssumption DEF Chosen, Candidates, Active, TypeOK
<1>2. /\ IsFiniteSet(Chosen) /\ IsFiniteSet(Active) /\ IsFiniteSet(Candidates)
      /\ Cardinality(Chosen) \in Nat /\ Cardinality(Active) \in Nat
  BY <1>1, FS_Subset, FS_CardinalityType
<1>3. PICK l \in Chosen : \A v \in Chosen : l = v \/ Ahead(v, l)
  BY LastChosen
<1> DEFINE ahead == {v \in Candidates : Ahead(v, l)}
<1>4. IsFiniteSet(ahead) /\ Cardinality(ahead) \in Nat
  <2>1. ahead \in SUBSET Candidates
    OBVIOUS
  <2> HIDE DEF ahead
  <2> QED  BY <1>2, <2>1, FS_Subset, FS_CardinalityType
<1>5. Cardinality(ahead) + Cardinality(Active) < MaxActive
  BY DEF Chosen
<1>6. Chosen \ {l} \subseteq ahead
  BY <1>1, <1>3
<1>7. Cardinality(Chosen \ {l}) <= Cardinality(ahead)
  <2> HIDE DEF ahead
  <2> QED  BY <1>4, <1>6, FS_Subset
<1>8. Cardinality(Chosen \ {l}) = Cardinality(Chosen) - 1
  BY <1>2, FS_RemoveElement
<1> HIDE DEF ahead
<1> QED  BY <1>2, <1>4, <1>5, <1>7, <1>8, DownloadsAssumption

(* Never more than MAX_ACTIVE chapters are in flight.                      *)
THEOREM ActiveStaysBounded == Spec => []ActiveBounded
<1>1. Init => ActiveBounded
  <2> SUFFICES ASSUME Init PROVE ActiveBounded
    OBVIOUS
  <2>1. Active = {}
    BY DEF Init, Active, NoAttempt
  <2> QED  BY <2>1, FS_EmptySet, DownloadsAssumption DEF ActiveBounded
<1>2. ASSUME Sound, ActiveBounded, [Next]_vars PROVE ActiveBounded'
  <2>1. /\ TypeOK /\ MaxActive \in Nat
        /\ IsFiniteSet(Active) /\ Cardinality(Active) \in Nat
    <3>1. Active \in SUBSET Users
      BY DEF Active
    <3>2. IsFiniteSet(Active)
      BY <3>1, AccountsAssumption, FS_Subset
    <3> QED  BY <1>2, <3>2, DownloadsAssumption, FS_CardinalityType DEF Sound
  <2>2. CASE FillSlots
    <3>1. Active' = Active \cup Chosen
      BY <2>1, <2>2 DEF FillSlots, Active, Chosen, Candidates, TypeOK
    <3>2. Active \cap Chosen = {}
      BY DEF Active, Chosen, Candidates
    <3>3. Chosen # {}
      BY <2>2 DEF FillSlots
    <3>4. Cardinality(Active \cup Chosen) = Cardinality(Active) + Cardinality(Chosen)
      BY <2>1, <3>2, <3>3, ChosenFit, FS_Union, FS_EmptySet
    <3> QED  BY <2>1, <3>1, <3>3, <3>4, ChosenFit DEF ActiveBounded
  <2>3. CASE ~FillSlots
    <3>1. \A u \in Users : attempt[u].pc = "idle" => attempt'[u].pc = "idle"
      <4>1. CASE UNCHANGED attempt
        BY <4>1
      <4>2. ASSUME NEW u \in Users, AttemptStep(u)
            PROVE  \A v \in Users : attempt[v].pc = "idle" => attempt'[v].pc = "idle"
        <5>1. attempt[u].pc # "idle"
          BY <4>2 DEF AttemptStep, ListPages, OpenPartial, StorePage, FinishAsFolder, FinishAsCbz,
                      FileStep, Complete, AttemptFails
        <5>2. \A v \in Users \ {u} : attempt'[v] = attempt[v]
          BY <2>1, <4>2
             DEF AttemptStep, ListPages, OpenPartial, StorePage, FinishAsFolder, FinishAsCbz,
                 FileStep, Complete, AttemptFails, Goto, NextPage, StepAway, EndAttempt, TypeOK
        <5> QED  BY <5>1, <5>2
      <4>3. CASE Exit
        BY <4>3 DEF Exit, NoAttempt
      <4>4. CASE Mutation \/ (\E u \in Users : DeleteDownloaded(u)) \/ StopWorker
                 \/ StartDownloadWorker \/ UNCHANGED vars
        BY <4>1, <4>4
           DEF Mutation, EnqueueDownloads, DequeueDownloads, StartDownloader, StopDownloader,
               ClearDownloader, ReorderDownload, DeleteDownloaded, DeleteBegin, DeleteDir,
               DeletePartial, DeleteCbz, DeleteFlags, DeleteFails, StopWorker, StartDownloadWorker, memory, vars
      <4> QED  BY <1>2, <2>3, <4>2, <4>3, <4>4 DEF Next
    <3>2. Active' \in SUBSET Active
      BY <3>1 DEF Active
    <3>3. Cardinality(Active') <= Cardinality(Active) /\ Cardinality(Active') \in Nat
      BY <2>1, <3>2, FS_Subset, FS_CardinalityType
    <3> QED  BY <1>2, <2>1, <3>3 DEF ActiveBounded
  <2> QED  BY <2>2, <2>3
<1> QED  BY <1>1, <1>2, SoundInit, SoundNext, PTL DEF Spec

-----------------------------------------------------------------------------
(* The stop.                                                               *)

(* Once stop() has run, an attempt that ends or goes on writes nothing to  *)
(* the queue and marks nothing as downloaded.                              *)
THEOREM StoppedWritesNothing == Spec => NoWritesAfterStop
<1>1. ASSUME [Next]_vars, ~Alive, NEW u \in Users, attempt'[u] # attempt[u]
      PROVE  UNCHANGED <<queue, downloaded>>
  <2>1. ASSUME NEW v \in Users, AttemptStep(v) PROVE UNCHANGED <<queue, downloaded>>
    BY <1>1, <2>1
       DEF AttemptStep, ListPages, OpenPartial, StorePage, FinishAsFolder, FinishAsCbz, FileStep,
           Complete, AttemptFails, Goto, NextPage, StepAway, HandBack, RecordFailure, Wanted
  <2>2. CASE Exit
    BY <2>2 DEF Exit, persistent
  <2>3. ~(Mutation \/ (\E v \in Users : DeleteDownloaded(v)) \/ FillSlots \/ StopWorker
          \/ StartDownloadWorker \/ UNCHANGED vars)
    BY <1>1
       DEF Mutation, EnqueueDownloads, DequeueDownloads, StartDownloader, StopDownloader,
           ClearDownloader, ReorderDownload, DeleteDownloaded, DeleteBegin, DeleteDir,
           DeletePartial, DeleteCbz, DeleteFlags, DeleteFails, FillSlots, StopWorker, StartDownloadWorker,
           memory, vars
  <2> QED  BY <1>1, <2>1, <2>2, <2>3 DEF Next
<1>2. [Next]_vars => [~Alive /\ (\E u \in Users : attempt'[u] # attempt[u])
                        => UNCHANGED <<queue, downloaded>>]_vars
  BY <1>1
<1> QED  BY <1>2, PTL DEF Spec, NoWritesAfterStop

-----------------------------------------------------------------------------
(* What a table says of a chapter.                                         *)

StatusIn(q, c) ==
    IF \E i \in DOMAIN q : q[i].chapter = c
    THEN q[CHOOSE i \in DOMAIN q : q[i].chapter = c].state
    ELSE "none"

LEMMA StatusOfIs == \A c : StatusOf(c) = StatusIn(queue, c) /\ StatusOf(c)' = StatusIn(queue', c)
BY DEF StatusOf, StatusIn

(* A chapter's status is the state of its one row, or "none".              *)
LEMMA StatusOfRow ==
  ASSUME NEW q, PerAccount(q), NEW i \in DOMAIN q
  PROVE  StatusIn(q, q[i].chapter) = q[i].state
<1> DEFINE j == CHOOSE j \in DOMAIN q : q[j].chapter = q[i].chapter
<1>1. j \in DOMAIN q /\ q[j].chapter = q[i].chapter
  OBVIOUS
<1>2. j = i
  BY <1>1 DEF PerAccount
<1> QED  BY <1>2 DEF StatusIn

LEMMA StatusOfNone ==
  ASSUME NEW q, NEW c, \A i \in DOMAIN q : q[i].chapter # c
  PROVE  StatusIn(q, c) = "none"
BY DEF StatusIn

(* What a step that only lets rows evolve does to a chapter's status.      *)
LEMMA StatusEvolves ==
  ASSUME NEW q, PerAccount(q), NEW r, Evolves(q, r), NEW c
  PROVE  \/ /\ \A i \in DOMAIN q : q[i].chapter # c
            /\ StatusIn(q, c) = "none" /\ StatusIn(r, c) = "none"
         \/ \E i \in DOMAIN q :
                /\ q[i].chapter = c /\ q[i].user = Owner[c]
                /\ StatusIn(q, c) = q[i].state
                /\ StatusIn(r, c) = IF i \in DOMAIN r THEN r[i].state ELSE "none"
<1>1. CASE \A i \in DOMAIN q : q[i].chapter # c
  <2>1. \A i \in DOMAIN r : r[i].chapter # c
    BY <1>1 DEF Evolves
  <2> QED  BY <1>1, <2>1, StatusOfNone
<1>2. CASE \E i \in DOMAIN q : q[i].chapter = c
  <2>1. PICK i \in DOMAIN q : q[i].chapter = c
    BY <1>2
  <2>2. StatusIn(q, c) = q[i].state /\ q[i].user = Owner[c]
    BY <2>1, StatusOfRow DEF PerAccount
  <2>3. StatusIn(r, c) = IF i \in DOMAIN r THEN r[i].state ELSE "none"
    <3>1. CASE i \in DOMAIN r
      <4>1. r[i].chapter = c /\ PerAccount(r)
        BY <2>1, <3>1 DEF Evolves, PerAccount
      <4> QED  BY <3>1, <4>1, StatusOfRow
    <3>2. CASE i \notin DOMAIN r
      <4>1. \A j \in DOMAIN r : r[j].chapter # c
        BY <2>1, <3>2 DEF Evolves, PerAccount
      <4> QED  BY <3>2, <4>1, StatusOfNone
    <3> QED  BY <3>1, <3>2
  <2> QED  BY <2>1, <2>2, <2>3
<1> QED  BY <1>1, <1>2

(* The rows an account has in some state are its chapters of that status.  *)
LEMMA WorkIsStatus ==
  ASSUME NEW q, NEW n, IsTable(q, n), PerAccount(q), NEW u
  PROVE  /\ HasQueuedWork(q, u) <=>
                \E c \in Chapters : Owner[c] = u /\ StatusIn(q, c) = "QUEUED"
         /\ HasPendingWork(q, u) <=>
                \E c \in Chapters : Owner[c] = u /\ StatusIn(q, c) \in {"QUEUED", "DOWNLOADING"}
<1>1. ASSUME NEW i \in RowsOf(q, u)
      PROVE  q[i].chapter \in Chapters /\ Owner[q[i].chapter] = u
             /\ StatusIn(q, q[i].chapter) = q[i].state
  BY StatusOfRow DEF RowsOf, IsTable, Row, PerAccount
<1>2. ASSUME NEW c \in Chapters, Owner[c] = u, StatusIn(q, c) # "none"
      PROVE  \E i \in RowsOf(q, u) : q[i].state = StatusIn(q, c)
  <2>1. PICK i \in DOMAIN q : q[i].chapter = c
    BY <1>2, StatusOfNone
  <2>2. q[i].user = u /\ q[i].state = StatusIn(q, c)
    BY <1>2, <2>1, StatusOfRow DEF PerAccount
  <2> QED  BY <2>1, <2>2 DEF RowsOf
<1> QED  BY <1>1, <1>2 DEF HasQueuedWork, HasPendingWork, QueuedRows, PendingRows

-----------------------------------------------------------------------------
(* The actions of the contract, said of the queue's statuses.              *)

LEMMA ContractQueue ==
  ASSUME NEW u \in Users, NEW cs \in SUBSET Chapters,
         \A c \in cs : Owner[c] = u /\ StatusOf(c) = "none" /\ c \notin downloaded,
         \A c \in Chapters : StatusOf(c)' = IF c \in cs THEN "QUEUED" ELSE StatusOf(c),
         running' = running, downloaded' = downloaded
  PROVE  Contract!ContractNext
<1>1. Contract!Queue(u, cs)
  BY DEF Contract!Queue, Contract!Of, Contract!With, Contract!Set
<1> QED  BY <1>1 DEF Contract!ContractNext

LEMMA ContractTakeOut ==
  ASSUME NEW u \in Users, NEW cs \in SUBSET Chapters,
         \A c \in cs : Owner[c] = u,
         \A c \in Chapters : StatusOf(c)' = IF c \in cs THEN "none" ELSE StatusOf(c),
         running' = IF \E c \in Chapters \ cs :
                            Owner[c] = u /\ StatusOf(c) \in {"QUEUED", "DOWNLOADING"}
                    THEN running ELSE running \ {u},
         downloaded' = downloaded
  PROVE  Contract!ContractNext
<1>1. Contract!TakeOut(u, cs)
  BY DEF Contract!TakeOut, Contract!Of, Contract!With, Contract!Set, Contract!Pending
<1> QED  BY <1>1 DEF Contract!ContractNext

LEMMA ContractStart ==
  ASSUME NEW u \in Users,
         \A c \in Chapters : StatusOf(c)' = StatusOf(c),
         running' = IF \E c \in Chapters :
                            Owner[c] = u /\ StatusOf(c) \in {"QUEUED", "DOWNLOADING"}
                    THEN running \cup {u} ELSE running \ {u},
         downloaded' = downloaded
  PROVE  Contract!ContractNext
<1>1. Contract!Start(u)
  BY DEF Contract!Start, Contract!Of, Contract!With, Contract!Pending
<1> QED  BY <1>1 DEF Contract!ContractNext

LEMMA ContractStop ==
  ASSUME NEW u \in Users,
         \A c \in Chapters :
            StatusOf(c)' = IF Owner[c] = u /\ StatusOf(c) = "DOWNLOADING" THEN "QUEUED" ELSE StatusOf(c),
         running' = running \ {u}, downloaded' = downloaded
  PROVE  Contract!ContractNext
<1>1. Contract!Stop(u)
  BY DEF Contract!Stop, Contract!Of, Contract!With, Contract!Set, Contract!Requeued
<1> QED  BY <1>1 DEF Contract!ContractNext

LEMMA ContractEmpty ==
  ASSUME NEW u \in Users,
         \A c \in Chapters : StatusOf(c)' = IF Owner[c] = u THEN "none" ELSE StatusOf(c),
         running' = running \ {u}, downloaded' = downloaded
  PROVE  Contract!ContractNext
<1>1. Contract!Empty(u)
  BY DEF Contract!Empty, Contract!Of, Contract!Set
<1> QED  BY <1>1 DEF Contract!ContractNext

LEMMA ContractBegin ==
  ASSUME NEW cs \in SUBSET Chapters, cs # {},
         \A c \in cs : /\ StatusOf(c) = "QUEUED"
                       /\ Owner[c] \in running
                       /\ \A d \in Chapters : Owner[d] = Owner[c] => StatusOf(d) # "DOWNLOADING"
                       /\ \A d \in cs : Owner[d] = Owner[c] => d = c,
         Cardinality(cs) + Cardinality({c \in Chapters : StatusOf(c) = "DOWNLOADING"}) <= MaxActive,
         \A c \in Chapters : StatusOf(c)' = IF c \in cs THEN "DOWNLOADING" ELSE StatusOf(c),
         running' = running, downloaded' = downloaded
  PROVE  Contract!ContractNext
<1>1. Contract!With({"DOWNLOADING"}) = {c \in Chapters : StatusOf(c) = "DOWNLOADING"}
  BY DEF Contract!With
<1>0. \A S : Contract!Cardinality(S) = Cardinality(S)
  BY DEF Contract!Cardinality, Cardinality
<1>2. Contract!Begin(cs)
  BY <1>0, <1>1 DEF Contract!Begin, Contract!Of, Contract!Set
<1> QED  BY <1>2 DEF Contract!ContractNext

LEMMA ContractForget ==
  ASSUME NEW cs \in SUBSET Chapters, downloaded' = downloaded \ cs,
         \A c \in Chapters : StatusOf(c)' = StatusOf(c), running' = running
  PROVE  Contract!ContractNext
<1>1. Contract!Forget(cs)
  BY DEF Contract!Forget
<1> QED  BY <1>1 DEF Contract!ContractNext

Stops(u) ==
    running' = IF \A c \in Chapters : Owner[c] = u => StatusOf(c)' # "QUEUED"
               THEN running \ {u} ELSE running

LEMMA ContractLand ==
  ASSUME NEW c \in Chapters, downloaded' = downloaded \cup {c}, Stops(Owner[c]),
         \/ \A d \in Chapters : StatusOf(d)' = StatusOf(d)
         \/ \A d \in Chapters : StatusOf(d)' = IF d = c THEN "none" ELSE StatusOf(d)
  PROVE  Contract!ContractNext
<1>1. Contract!Ended(Owner[c])
  BY DEF Stops, Contract!Ended, Contract!Of
<1>2. Contract!Land(c)
  BY <1>1 DEF Contract!Land, Contract!Set
<1> QED  BY <1>2 DEF Contract!ContractNext

LEMMA ContractReturn ==
  ASSUME NEW c \in Chapters, downloaded' = downloaded, Stops(Owner[c]),
         \/ \A d \in Chapters : StatusOf(d)' = StatusOf(d)
         \/ /\ StatusOf(c) \in {"QUEUED", "DOWNLOADING"}
            /\ StatusOf(c)' \in {"QUEUED", "ERROR"}
            /\ \A d \in Chapters \ {c} : StatusOf(d)' = StatusOf(d)
  PROVE  Contract!ContractNext
<1>1. Contract!Ended(Owner[c])
  BY DEF Stops, Contract!Ended, Contract!Of
<1>2. Contract!Return(c)
  BY <1>1 DEF Contract!Return, Contract!Set
<1> QED  BY <1>2 DEF Contract!ContractNext

LEMMA ContractHalt ==
  ASSUME running' = {}, downloaded' = downloaded,
         \/ \A c \in Chapters : StatusOf(c)' = StatusOf(c)
         \/ \A c \in Chapters :
                StatusOf(c)' = IF StatusOf(c) = "DOWNLOADING" THEN "QUEUED" ELSE StatusOf(c)
  PROVE  Contract!ContractNext
<1>1. Contract!Halt
  BY DEF Contract!Halt, Contract!Requeued, Contract!Set, Contract!With
<1> QED  BY <1>1 DEF Contract!ContractNext

LEMMA ContractStutter ==
  ASSUME \A c \in Chapters : StatusOf(c)' = StatusOf(c), running' = running, downloaded' = downloaded
  PROVE  UNCHANGED <<[c \in Chapters |-> StatusOf(c)], running, downloaded>>
OBVIOUS

-----------------------------------------------------------------------------
(* The mutations keep the contract.                                        *)

Same == UNCHANGED <<[c \in Chapters |-> StatusOf(c)], running, downloaded>>

(* What the invariants say of the queue before and after a step.           *)
LEMMA Tables ==
  ASSUME Sound, Sound'
  PROVE  /\ IsTable(queue, nextId - 1) /\ PerAccount(queue) /\ nextId - 1 \in Nat
         /\ IsTable(queue', nextId' - 1) /\ PerAccount(queue')
<1>1. IsTable(queue, nextId - 1) /\ PerAccount(queue) /\ nextId - 1 \in Nat
  BY QueueIsTable DEF Sound
<1>2. IsTable(queue', nextId' - 1) /\ PerAccount(queue')
  BY DEF Sound, TypeOK, IsTable
<1> QED  BY <1>1, <1>2

LEMMA KeepsEnqueue ==
  ASSUME Sound, Sound', NEW u \in Users, NEW b \in Batches, EnqueueDownloads(u, b)
  PROVE  Contract!ContractNext
<1> DEFINE n == nextId - 1
           accepted == Accepted(queue, downloaded, u, b)
           cs == {b[k] : k \in accepted}
<1>0. /\ IsTable(queue, n) /\ PerAccount(queue) /\ n \in Nat /\ PerAccount(queue')
      /\ b \in Seq(Chapters)
  BY Tables, DownloadsAssumption
<1>1. queue' = Enqueue(queue, n, downloaded, u, b) /\ running' = running /\ downloaded' = downloaded
  BY DEF EnqueueDownloads, memory
<1>2. \A k \in accepted : b[k] \in Chapters /\ Acceptable(queue, downloaded, u, b[k]) /\ k \in 1..Len(b)
  BY <1>0 DEF Accepted
<1>3. /\ DOMAIN queue' = DOMAIN queue \cup {n + k : k \in accepted}
      /\ \A k \in accepted : n + k \notin DOMAIN queue
      /\ \A i \in DOMAIN queue : queue'[i] = queue[i]
      /\ \A k \in accepted : queue'[n + k].chapter = b[k] /\ queue'[n + k].state = "QUEUED"
  <2>1. \A k \in accepted : n + k \notin 1..n /\ (n + k) - n = k
    BY <1>0, <1>2
  <2>2. \A k \in accepted : n + k \notin DOMAIN queue
    BY <1>0, <2>1 DEF IsTable
  <2> HIDE DEF accepted, n
  <2>3. \A i \in DOMAIN queue : i \notin {n + k : k \in accepted}
    BY <2>2
  <2> QED  BY <1>1, <2>1, <2>2, <2>3 DEF Enqueue, accepted
<1> HIDE DEF accepted, n
<1>4. \A c \in cs : c \in Chapters /\ Owner[c] = u /\ StatusOf(c) = "none" /\ c \notin downloaded
  BY <1>2, StatusOfNone, StatusOfIs DEF Acceptable
<1>5. ASSUME NEW c \in Chapters
      PROVE  StatusOf(c)' = IF c \in cs THEN "QUEUED" ELSE StatusOf(c)
  <2>1. CASE c \in cs
    <3>1. PICK k \in accepted : b[k] = c
      BY <2>1
    <3>2. n + k \in DOMAIN queue' /\ queue'[n + k].chapter = c /\ queue'[n + k].state = "QUEUED"
      BY <1>3, <3>1
    <3> QED  BY <1>0, <2>1, <3>2, StatusOfRow, StatusOfIs
  <2>2. CASE c \notin cs /\ \E i \in DOMAIN queue : queue[i].chapter = c
    <3>1. PICK i \in DOMAIN queue : queue[i].chapter = c
      BY <2>2
    <3>2. i \in DOMAIN queue' /\ queue'[i] = queue[i]
      BY <1>3
    <3>3. StatusIn(queue, c) = queue[i].state /\ StatusIn(queue', c) = queue[i].state
      BY <1>0, <3>1, <3>2, StatusOfRow
    <3> QED  BY <2>2, <3>3, StatusOfIs
  <2>3. CASE c \notin cs /\ \A i \in DOMAIN queue : queue[i].chapter # c
    <3>1. \A i \in DOMAIN queue' : queue'[i].chapter # c
      BY <1>3, <2>3
    <3> QED  BY <2>3, <3>1, StatusOfNone, StatusOfIs
  <2> QED  BY <2>1, <2>2, <2>3
<1>6. cs \in SUBSET Chapters
  BY <1>4
<1> HIDE DEF cs
<1> QED  BY <1>1, <1>4, <1>5, <1>6, ContractQueue

LEMMA KeepsDequeue ==
  ASSUME Sound, Sound', NEW u \in Users, NEW b \in Batches, DequeueDownloads(u, Range(b))
  PROVE  Contract!ContractNext
<1> DEFINE S == Range(b)
           cs == {c \in Chapters : c \in S /\ Owner[c] = u}
<1>0. /\ IsTable(queue, nextId - 1) /\ PerAccount(queue) /\ nextId - 1 \in Nat
      /\ IsTable(queue', nextId' - 1) /\ PerAccount(queue')
  BY Tables
<1>1. queue' = Dequeue(queue, u, S) /\ downloaded' = downloaded
      /\ running' = IF u \in running /\ HasPendingWork(queue', u) THEN running \cup {u} ELSE running \ {u}
  BY DEF DequeueDownloads, SetDownloaderState
<1>2. /\ DOMAIN queue' = DOMAIN queue \ {i \in RowsOf(queue, u) : queue[i].chapter \in S}
      /\ Evolves(queue, queue')
      /\ SameProgress(queue, queue')
  <2> DEFINE r == Dequeue(queue, u, S)
  <2>1. /\ DOMAIN r = DOMAIN queue \ {i \in RowsOf(queue, u) : queue[i].chapter \in S}
        /\ Evolves(queue, r)
        /\ SameProgress(queue, r)
    <3> DEFINE n == nextId - 1
    <3>1. IsTable(queue, n) /\ n \in Nat
      BY <1>0
    <3> HIDE DEF n, cs, S
    <3>2. Evolves(queue, r)
      BY <3>1, DequeueLeaves
    <3>3. SameProgress(queue, r)
      BY <3>1, DequeueLeaves
    <3>4. DOMAIN r = DOMAIN queue \ {i \in RowsOf(queue, u) : queue[i].chapter \in S}
      BY <3>1, DequeueLeaves
    <3> QED  BY <3>2, <3>3, <3>4
  <2> HIDE DEF r
  <2>2. queue' = r
    BY <1>1 DEF r
  <2> QED  BY <2>1, <2>2
<1> HIDE DEF S
<1>3. ASSUME NEW c \in Chapters
      PROVE  StatusOf(c)' = IF c \in cs THEN "none" ELSE StatusOf(c)
  <2>1. CASE /\ \A i \in DOMAIN queue : queue[i].chapter # c
             /\ StatusIn(queue, c) = "none" /\ StatusIn(queue', c) = "none"
    BY <2>1, StatusOfIs
  <2>2. ASSUME NEW i \in DOMAIN queue,
               queue[i].chapter = c /\ queue[i].user = Owner[c],
               StatusIn(queue, c) = queue[i].state,
               StatusIn(queue', c) = IF i \in DOMAIN queue' THEN queue'[i].state ELSE "none"
        PROVE  StatusOf(c)' = IF c \in cs THEN "none" ELSE StatusOf(c)
    <3>1. i \in DOMAIN queue' <=> c \notin cs
      BY <1>2, <2>2 DEF RowsOf
    <3> HIDE DEF cs
    <3> QED  BY <1>2, <2>2, <3>1, StatusOfIs DEF SameProgress
  <2> QED  BY <1>0, <1>2, <2>1, <2>2, StatusEvolves
<1>4. HasPendingWork(queue', u) <=>
        \E c \in Chapters \ cs : Owner[c] = u /\ StatusOf(c) \in {"QUEUED", "DOWNLOADING"}
  <2>1. HasPendingWork(queue', u) <=>
          \E c \in Chapters : Owner[c] = u /\ StatusOf(c)' \in {"QUEUED", "DOWNLOADING"}
    BY <1>0, WorkIsStatus, StatusOfIs
  <2> HIDE DEF cs
  <2> QED  BY <1>3, <2>1
<1>5. running' = IF \E c \in Chapters \ cs : Owner[c] = u /\ StatusOf(c) \in {"QUEUED", "DOWNLOADING"}
                 THEN running ELSE running \ {u}
  <2> HIDE DEF cs
  <2> QED  BY <1>1, <1>4
<1>6. cs \in SUBSET Chapters /\ \A c \in cs : Owner[c] = u
  OBVIOUS
<1> HIDE DEF cs
<1> QED  BY <1>1, <1>3, <1>5, <1>6, ContractTakeOut

LEMMA KeepsStart ==
  ASSUME Sound, Sound', NEW u \in Users, StartDownloader(u)
  PROVE  Contract!ContractNext
<1>0. IsTable(queue, nextId - 1) /\ PerAccount(queue)
  BY Tables
<1>1. /\ queue' = queue /\ downloaded' = downloaded
      /\ running' = IF HasPendingWork(queue, u) THEN running \cup {u} ELSE running \ {u}
  BY DEF StartDownloader, SetDownloaderState, persistent
<1>2. HasPendingWork(queue, u) <=>
        \E c \in Chapters : Owner[c] = u /\ StatusOf(c) \in {"QUEUED", "DOWNLOADING"}
  BY <1>0, WorkIsStatus, StatusOfIs
<1>3. \A c \in Chapters : StatusOf(c)' = StatusOf(c)
  BY <1>1, StatusOfIs
<1>4. running' = IF \E c \in Chapters : Owner[c] = u /\ StatusOf(c) \in {"QUEUED", "DOWNLOADING"}
                 THEN running \cup {u} ELSE running \ {u}
  BY <1>1, <1>2
<1> QED  BY <1>1, <1>3, <1>4, ContractStart

(* What pause and releaseInFlight do to a chapter's status.                *)
LEMMA StatusRequeued ==
  ASSUME Sound, Sound', NEW ids, queue' = Requeue(queue, ids), NEW c \in Chapters
  PROVE  StatusOf(c)' =
            IF StatusOf(c) = "DOWNLOADING"
               /\ \E i \in DOMAIN queue : queue[i].chapter = c /\ i \in ids
            THEN "QUEUED" ELSE StatusOf(c)
<1>1. IsTable(queue, nextId - 1) /\ PerAccount(queue) /\ nextId - 1 \in Nat
  BY Tables
<1>2. /\ DOMAIN queue' = DOMAIN queue
      /\ Evolves(queue, queue')
      /\ \A i \in DOMAIN queue :
            queue'[i].state = IF i \in ids /\ queue[i].state = "DOWNLOADING"
                              THEN "QUEUED" ELSE queue[i].state
  BY <1>1, RequeueLeaves
<1>3. CASE /\ \A i \in DOMAIN queue : queue[i].chapter # c
           /\ StatusIn(queue, c) = "none" /\ StatusIn(queue', c) = "none"
  BY <1>3, StatusOfIs
<1>4. ASSUME NEW i \in DOMAIN queue, queue[i].chapter = c,
             StatusIn(queue, c) = queue[i].state,
             StatusIn(queue', c) = IF i \in DOMAIN queue' THEN queue'[i].state ELSE "none"
      PROVE  StatusOf(c)' =
                IF StatusOf(c) = "DOWNLOADING"
                   /\ \E j \in DOMAIN queue : queue[j].chapter = c /\ j \in ids
                THEN "QUEUED" ELSE StatusOf(c)
  <2>1. (\E j \in DOMAIN queue : queue[j].chapter = c /\ j \in ids) <=> i \in ids
    BY <1>1, <1>4 DEF PerAccount
  <2> QED  BY <1>2, <1>4, <2>1, StatusOfIs
<1> QED  BY <1>1, <1>2, <1>3, <1>4, StatusEvolves

LEMMA KeepsStop ==
  ASSUME Sound, Sound', NEW u \in Users, StopDownloader(u)
  PROVE  Contract!ContractNext
<1>0. IsTable(queue, nextId - 1) /\ PerAccount(queue)
  BY Tables
<1>1. /\ queue' = Requeue(queue, RowsOf(queue, u)) /\ downloaded' = downloaded
      /\ running' = running \ {u}
  BY DEF StopDownloader, SetDownloaderState, Pause
<1>2. ASSUME NEW c \in Chapters
      PROVE  StatusOf(c)' =
                IF Owner[c] = u /\ StatusOf(c) = "DOWNLOADING" THEN "QUEUED" ELSE StatusOf(c)
  <2>1. StatusOf(c) = "DOWNLOADING" => \E i \in DOMAIN queue : queue[i].chapter = c
    BY StatusOfNone, StatusOfIs
  <2>2. \A i \in DOMAIN queue : queue[i].chapter = c => (i \in RowsOf(queue, u) <=> Owner[c] = u)
    BY <1>0 DEF RowsOf, PerAccount
  <2>3. StatusOf(c)' =
            IF StatusOf(c) = "DOWNLOADING"
               /\ \E i \in DOMAIN queue : queue[i].chapter = c /\ i \in RowsOf(queue, u)
            THEN "QUEUED" ELSE StatusOf(c)
    BY <1>1, StatusRequeued
  <2> QED  BY <2>1, <2>2, <2>3
<1> QED  BY <1>1, <1>2, ContractStop

LEMMA KeepsClear ==
  ASSUME Sound, Sound', NEW u \in Users, ClearDownloader(u)
  PROVE  Contract!ContractNext
<1>0. IsTable(queue, nextId - 1) /\ PerAccount(queue) /\ nextId - 1 \in Nat
  BY Tables
<1>1. /\ queue' = Delete(queue, RowsOf(queue, u)) /\ downloaded' = downloaded
      /\ running' = running \ {u}
  BY DEF ClearDownloader, SetDownloaderState, Clear
<1>2. /\ DOMAIN queue' = DOMAIN queue \ RowsOf(queue, u)
      /\ \A i \in DOMAIN queue' : queue'[i] = queue[i]
      /\ Evolves(queue, queue')
  <2> DEFINE ids == RowsOf(queue, u)
             r == Delete(queue, ids)
  <2>1. DOMAIN r = DOMAIN queue \ ids /\ \A i \in DOMAIN queue \ ids : r[i] = queue[i]
    <3> HIDE DEF ids
    <3> QED  BY <1>0, DeleteLeaves
  <2> HIDE DEF r
  <2>2. queue' = r
    BY <1>1 DEF r
  <2> QED  BY <1>0, <2>1, <2>2 DEF Evolves, IsTable
<1>3. ASSUME NEW c \in Chapters
      PROVE  StatusOf(c)' = IF Owner[c] = u THEN "none" ELSE StatusOf(c)
  <2>1. CASE /\ \A i \in DOMAIN queue : queue[i].chapter # c
             /\ StatusIn(queue, c) = "none" /\ StatusIn(queue', c) = "none"
    BY <2>1, StatusOfIs
  <2>2. ASSUME NEW i \in DOMAIN queue,
               queue[i].user = Owner[c],
               StatusIn(queue, c) = queue[i].state,
               StatusIn(queue', c) = IF i \in DOMAIN queue' THEN queue'[i].state ELSE "none"
        PROVE  StatusOf(c)' = IF Owner[c] = u THEN "none" ELSE StatusOf(c)
    BY <1>2, <2>2, StatusOfIs DEF RowsOf
  <2> QED  BY <1>0, <1>2, <2>1, <2>2, StatusEvolves
<1> QED  BY <1>1, <1>3, ContractEmpty

(* A table whose rows only move keeps every status.                        *)
LEMMA StatusStays ==
  ASSUME Sound, Evolves(queue, queue'), DOMAIN queue' = DOMAIN queue,
         \A i \in DOMAIN queue : queue'[i].state = queue[i].state
  PROVE  \A c \in Chapters : StatusOf(c)' = StatusOf(c)
<1> SUFFICES ASSUME NEW c \in Chapters PROVE StatusIn(queue', c) = StatusIn(queue, c)
  BY StatusOfIs
<1>1. PerAccount(queue)
  BY DEF Sound
<1> QED  BY <1>1, StatusEvolves

LEMMA KeepsReorder ==
  ASSUME Sound, Sound', NEW u \in Users, NEW c \in Chapters, NEW to \in Targets,
         ReorderDownload(u, c, to)
  PROVE  Same
<1>1. IsTable(queue, nextId - 1) /\ PerAccount(queue) /\ nextId - 1 \in Nat /\ to \in Int
  BY Tables, DownloadsAssumption
<1>2. queue' = Reorder(queue, u, c, to) /\ running' = running /\ downloaded' = downloaded
  BY DEF ReorderDownload, memory
<1>3. DOMAIN queue' = DOMAIN queue /\ Evolves(queue, queue') /\ SameProgress(queue, queue')
  BY <1>1, <1>2, ReorderEvolves
<1> QED  BY <1>2, <1>3, StatusStays DEF Same, SameProgress

LEMMA KeepsMutation ==
  ASSUME Sound, Sound', Mutation
  PROVE  Contract!ContractNext \/ Same
BY KeepsEnqueue, KeepsDequeue, KeepsStart, KeepsStop, KeepsClear, KeepsReorder DEF Mutation

-----------------------------------------------------------------------------
(* So do deletions ...                                                     *)

LEMMA KeepsDeletion ==
  ASSUME Sound, NEW u \in Users, DeleteDownloaded(u)
  PROVE  Contract!ContractNext \/ Same
<1>1. queue' = queue /\ running' = running /\ \A c \in Chapters : StatusOf(c)' = StatusOf(c)
  BY StatusOfIs DEF DeleteDownloaded, DeleteBegin, DeleteDir, DeletePartial, DeleteCbz, DeleteFlags,
                    DeleteFails, persistent
<1>2. CASE DeleteFlags(u)
  <2>1. downloaded' = downloaded \ deleting[u].all /\ deleting[u].all \in SUBSET Chapters
    BY <1>2 DEF DeleteFlags, Sound, TypeOK, Deletion
  <2> QED  BY <1>1, <2>1, ContractForget
<1>3. CASE ~DeleteFlags(u)
  <2>1. downloaded' = downloaded
    BY <1>3 DEF DeleteDownloaded, DeleteBegin, DeleteDir, DeletePartial, DeleteCbz, DeleteFails, persistent
  <2> QED  BY <1>1, <2>1 DEF Same
<1> QED  BY <1>2, <1>3

-----------------------------------------------------------------------------
(* ... the claims ...                                                      *)

(* A chapter that reads DOWNLOADING is the one its account's attempt holds.*)
LEMMA DownloadingIsHeld ==
  ASSUME Sound, Busy, Alive, NEW c \in Chapters, StatusOf(c) = "DOWNLOADING"
  PROVE  Owner[c] \in Active /\ attempt[Owner[c]].chapter = c
<1>1. PerAccount(queue)
  BY DEF Sound
<1>2. PICK i \in DOMAIN queue : queue[i].chapter = c
  BY StatusOfNone, StatusOfIs
<1>3. queue[i].state = "DOWNLOADING" /\ queue[i].user = Owner[c] /\ Owner[c] \in Users
  BY <1>1, <1>2, StatusOfRow, StatusOfIs, AccountsAssumption DEF PerAccount
<1>4. InFlight(Owner[c], i)
  BY <1>2, <1>3 DEF Busy, RowSound, Flying, Alive
<1> QED  BY <1>2, <1>3, <1>4 DEF InFlight, Active, Sound, AttemptSound

LEMMA KeepsFillSlots ==
  ASSUME Sound, Sound', Busy, FillSlots
  PROVE  Contract!ContractNext
<1> DEFINE head == [u \in Chosen |-> queue[NextQueued(queue, u)].chapter]
           cs == {head[u] : u \in Chosen}
           D == {c \in Chapters : StatusOf(c) = "DOWNLOADING"}
<1>0. /\ IsTable(queue, nextId - 1) /\ PerAccount(queue) /\ TypeOK /\ Alive /\ Chosen # {}
      /\ running' = running /\ downloaded' = downloaded
  BY Tables DEF Sound, FillSlots
<1>1. ASSUME NEW u \in Chosen
      PROVE  /\ u \in Users /\ u \in running /\ u \notin Active
             /\ NextQueued(queue, u) \in DOMAIN queue
             /\ head[u] \in Chapters /\ Owner[head[u]] = u
             /\ StatusOf(head[u]) = "QUEUED"
  <2> DEFINE i == NextQueued(queue, u)
  <2>1. /\ u \in Users /\ u \in running /\ attempt[u].pc = "idle"
        /\ i \in DOMAIN queue /\ queue[i] \in Row /\ queue[i].user = u /\ queue[i].state = "QUEUED"
    BY <1>0, ClaimsNext
  <2> HIDE DEF i
  <2>2. StatusIn(queue, queue[i].chapter) = "QUEUED" /\ Owner[queue[i].chapter] = u
        /\ queue[i].chapter \in Chapters
    BY <1>0, <2>1, StatusOfRow DEF PerAccount, Row
  <2>3. head[u] = queue[i].chapter
    BY DEF i
  <2> QED  BY <2>1, <2>2, <2>3, StatusOfIs DEF Active, i
<1>2. Evolves(queue, queue')
  BY <1>0, ClaimsEvolve
<1>3. \A i \in DOMAIN queue : /\ i \in DOMAIN queue'
                             /\ queue'[i].state = IF i \in Claimed THEN "DOWNLOADING" ELSE queue[i].state
  <2>1. \A i \in DOMAIN queue : queue[i] \in Row
    BY <1>0 DEF TypeOK
  <2> QED  BY <2>1 DEF FillSlots, Row
<1>4. \A i \in DOMAIN queue : i \in Claimed <=> queue[i].chapter \in cs
  <2>1. ASSUME NEW i \in DOMAIN queue, i \in Claimed PROVE queue[i].chapter \in cs
    BY <2>1 DEF Claimed
  <2>2. ASSUME NEW i \in DOMAIN queue, queue[i].chapter \in cs PROVE i \in Claimed
    <3>1. PICK u \in Chosen : head[u] = queue[i].chapter
      BY <2>2
    <3>2. NextQueued(queue, u) = i
      BY <1>0, <1>1, <3>1 DEF PerAccount
    <3> QED  BY <3>2 DEF Claimed
  <2> QED  BY <2>1, <2>2
<1>5. ASSUME NEW c \in Chapters
      PROVE  StatusOf(c)' = IF c \in cs THEN "DOWNLOADING" ELSE StatusOf(c)
  <2> HIDE DEF cs
  <2>1. CASE /\ \A i \in DOMAIN queue : queue[i].chapter # c
             /\ StatusIn(queue, c) = "none" /\ StatusIn(queue', c) = "none"
    <3>1. c \notin cs
      BY <1>1, <2>1 DEF cs
    <3> QED  BY <2>1, <3>1, StatusOfIs
  <2>2. ASSUME NEW i \in DOMAIN queue, queue[i].chapter = c,
               StatusIn(queue, c) = queue[i].state,
               StatusIn(queue', c) = IF i \in DOMAIN queue' THEN queue'[i].state ELSE "none"
        PROVE  StatusOf(c)' = IF c \in cs THEN "DOWNLOADING" ELSE StatusOf(c)
    BY <1>3, <1>4, <2>2, StatusOfIs
  <2> QED  BY <1>0, <1>2, <2>1, <2>2, StatusEvolves
<1>6. ASSUME NEW c \in cs
      PROVE  /\ c \in Chapters /\ StatusOf(c) = "QUEUED" /\ Owner[c] \in running
             /\ \A d \in Chapters : Owner[d] = Owner[c] => StatusOf(d) # "DOWNLOADING"
             /\ \A d \in cs : Owner[d] = Owner[c] => d = c
  <2>1. PICK u \in Chosen : c = head[u]
    OBVIOUS
  <2>2. \A d \in cs : Owner[d] = u => d = c
    BY <1>1, <2>1
  <2> HIDE DEF cs, head
  <2> QED  BY <1>0, <1>1, <2>1, <2>2, DownloadingIsHeld
<1>7. Cardinality(cs) + Cardinality(D) <= MaxActive
  <2>1. /\ IsFiniteSet(Chosen) /\ IsFiniteSet(Active)
        /\ Cardinality(Chosen) \in Nat /\ Cardinality(Active) \in Nat
        /\ Cardinality(Chosen) + Cardinality(Active) <= MaxActive
    BY <1>0, ChosenFit
  <2>2. IsFiniteSet(cs) /\ Cardinality(cs) <= Cardinality(Chosen)
    <3>1. head \in Surjection(Chosen, cs)
      BY DEF Surjection
    <3> HIDE DEF head, cs
    <3> QED  BY <2>1, <3>1, FS_Surjection
  <2> DEFINE held == [u \in Active |-> attempt[u].chapter]
             E == {held[u] : u \in Active}
  <2>3. IsFiniteSet(E) /\ Cardinality(E) <= Cardinality(Active)
    <3>1. held \in Surjection(Active, E)
      BY DEF Surjection
    <3> HIDE DEF held, E
    <3> QED  BY <2>1, <3>1, FS_Surjection
  <2>4. D \in SUBSET E
    BY <1>0, DownloadingIsHeld
  <2>5. Cardinality(D) <= Cardinality(E) /\ IsFiniteSet(D)
    <3> HIDE DEF D, E
    <3> QED  BY <2>3, <2>4, FS_Subset
  <2>6. Cardinality(cs) \in Nat /\ Cardinality(D) \in Nat /\ Cardinality(E) \in Nat
    <3> HIDE DEF cs, D, E
    <3> QED  BY <2>2, <2>3, <2>5, FS_CardinalityType
  <2> HIDE DEF cs, D, E
  <2> QED  BY <2>1, <2>2, <2>3, <2>5, <2>6, DownloadsAssumption
<1>8. cs \in SUBSET Chapters /\ cs # {}
  BY <1>0, <1>6
<1> HIDE DEF cs
<1> QED  BY <1>0, <1>5, <1>6, <1>7, <1>8, ContractBegin

-----------------------------------------------------------------------------
(* ... the attempts ...                                                    *)

(* An attempt that ends turns its account off when nothing waits.          *)
LEMMA EndStops ==
  ASSUME Sound, Sound', NEW u \in Users, Alive, EndAttempt(u)
  PROVE  Stops(u)
<1>1. IsTable(queue', nextId' - 1) /\ PerAccount(queue')
  BY Tables
<1>2. HasQueuedWork(queue', u) <=>
        \E c \in Chapters : Owner[c] = u /\ StatusOf(c)' = "QUEUED"
  BY <1>1, WorkIsStatus, StatusOfIs
<1> QED  BY <1>2 DEF EndAttempt, Stops

(* The status of the chapter an attempt holds.                             *)
LEMMA HeldStatus ==
  ASSUME Sound, Busy, NEW u \in Users, Alive, attempt[u].pc # "idle"
  PROVE  LET c == attempt[u].chapter
             i == attempt[u].row
         IN  /\ c \in Chapters /\ Owner[c] = u
             /\ i \in DOMAIN queue =>
                    /\ queue[i].chapter = c /\ queue[i].user = u
                    /\ StatusOf(c) = queue[i].state
                    /\ StatusOf(c) \in {"QUEUED", "DOWNLOADING"}
<1> DEFINE c == attempt[u].chapter
           i == attempt[u].row
<1>1. /\ c \in Chapters /\ Owner[c] = u /\ PerAccount(queue) /\ TypeOK
      /\ i \in DOMAIN queue => queue[i].chapter = c
  BY DEF Sound, AttemptSound
<1> HIDE DEF c, i
<1>2. ASSUME i \in DOMAIN queue
      PROVE  /\ queue[i].user = u /\ StatusOf(c) = queue[i].state
             /\ StatusOf(c) \in {"QUEUED", "DOWNLOADING"}
  <2>1. queue[i].user = u /\ StatusOf(c) = queue[i].state /\ queue[i] \in Row
    BY <1>1, <1>2, StatusOfRow, StatusOfIs DEF PerAccount, TypeOK
  <2>2. Flying(u, i)
    BY DEF Flying, InFlight, i
  <2>3. queue[i].state # "ERROR"
    BY <1>2, <2>1, <2>2 DEF Busy, RowSound
  <2> QED  BY <2>1, <2>3 DEF Row, RowState
<1> QED  BY <1>1, <1>2 DEF c, i

(* An attempt that gives its row back, to be tried again or given up.      *)
LEMMA KeepsReturn ==
  ASSUME Sound, Sound', Busy, NEW u \in Users, attempt[u].pc # "idle", EndAttempt(u),
         downloaded' = downloaded,
         \/ queue' = queue
         \/ /\ Alive /\ attempt[u].row \in DOMAIN queue
            /\ Evolves(queue, queue')
            /\ DOMAIN queue' = DOMAIN queue
            /\ queue'[attempt[u].row].state \in {"QUEUED", "ERROR"}
            /\ \A i \in DOMAIN queue \ {attempt[u].row} : queue'[i].state = queue[i].state
  PROVE  Contract!ContractNext \/ Same
<1>1. CASE ~Alive
  <2>1. queue' = queue /\ running' = running
    BY <1>1 DEF EndAttempt
  <2> QED  BY <2>1, StatusOfIs DEF Same
<1>2. CASE Alive
  <2>0. attempt[u].chapter \in Chapters
    BY <1>2, HeldStatus
  <2>c. PICK c \in Chapters : c = attempt[u].chapter
    BY <2>0
  <2> DEFINE i == attempt[u].row
  <2>1. /\ c \in Chapters /\ Owner[c] = u /\ PerAccount(queue)
        /\ i \in DOMAIN queue => /\ queue[i].chapter = c /\ StatusOf(c) = queue[i].state
                                 /\ StatusOf(c) \in {"QUEUED", "DOWNLOADING"}
    <3>1. LET d == attempt[u].chapter
          IN  /\ d \in Chapters /\ Owner[d] = u
              /\ i \in DOMAIN queue =>
                    /\ queue[i].chapter = d /\ queue[i].user = u
                    /\ StatusOf(d) = queue[i].state
                    /\ StatusOf(d) \in {"QUEUED", "DOWNLOADING"}
      BY <1>2, HeldStatus
    <3> HIDE DEF i
    <3> QED  BY <2>c, <3>1 DEF Sound
  <2>2. Stops(Owner[c])
    BY <1>2, <2>1, EndStops
  <2>3. CASE queue' = queue
    <3>1. \A d \in Chapters : StatusOf(d)' = StatusOf(d)
      BY <2>3, StatusOfIs
    <3> QED  BY <2>1, <2>2, <3>1, ContractReturn
  <2>4. CASE /\ i \in DOMAIN queue
             /\ Evolves(queue, queue')
             /\ DOMAIN queue' = DOMAIN queue
             /\ queue'[i].state \in {"QUEUED", "ERROR"}
             /\ \A j \in DOMAIN queue \ {i} : queue'[j].state = queue[j].state
    <3> HIDE DEF i
    <3>1. StatusOf(c)' \in {"QUEUED", "ERROR"}
      <4>1. PerAccount(queue') /\ i \in DOMAIN queue' /\ queue'[i].chapter = c
        BY <2>1, <2>4, Tables DEF Evolves
      <4>2. StatusIn(queue', queue'[i].chapter) = queue'[i].state
        BY <4>1, StatusOfRow
      <4> QED  BY <2>4, <4>1, <4>2, StatusOfIs
    <3>2. ASSUME NEW d \in Chapters \ {c} PROVE StatusOf(d)' = StatusOf(d)
      <4>1. CASE StatusIn(queue, d) = "none" /\ StatusIn(queue', d) = "none"
        BY <4>1, StatusOfIs
      <4>2. ASSUME NEW j \in DOMAIN queue, queue[j].chapter = d,
                   StatusIn(queue, d) = queue[j].state,
                   StatusIn(queue', d) = IF j \in DOMAIN queue' THEN queue'[j].state ELSE "none"
            PROVE  StatusOf(d)' = StatusOf(d)
        BY <2>1, <2>4, <3>2, <4>2, StatusOfIs
      <4> QED  BY <2>1, <2>4, <4>1, <4>2, StatusEvolves
    <3>3. StatusOf(c) \in {"QUEUED", "DOWNLOADING"} /\ c \in Chapters
      BY <2>1, <2>4
    <3> QED  BY <2>2, <3>1, <3>2, <3>3, ContractReturn
  <2> QED  BY <1>2, <2>3, <2>4
<1> QED  BY <1>1, <1>2

LEMMA KeepsStepAway ==
  ASSUME Sound, Sound', Busy, NEW u \in Users, attempt[u].pc # "idle", StepAway(u),
         downloaded' = downloaded
  PROVE  Contract!ContractNext \/ Same
<1> DEFINE i == attempt[u].row
           row == [queue[i] EXCEPT !.state = "QUEUED", !.tries = attempt[u].tries]
<1>1. Evolves(queue, queue') /\ EndAttempt(u) /\ HandBack(u) /\ TypeOK
  BY HandBackEvolves DEF StepAway, Sound
<1>2. CASE Alive /\ i \in DOMAIN queue
  <2>1. queue' = [queue EXCEPT ![i] = row]
    BY <1>1, <1>2 DEF HandBack
  <2>2. row.state = "QUEUED"
    BY <1>1, <1>2 DEF TypeOK, Row
  <2> HIDE DEF row
  <2>3. /\ DOMAIN queue' = DOMAIN queue /\ queue'[i].state = "QUEUED"
        /\ \A j \in DOMAIN queue \ {i} : queue'[j].state = queue[j].state
    BY <1>2, <2>1, <2>2
  <2> QED  BY <1>1, <1>2, <2>3, KeepsReturn
<1>3. CASE ~(Alive /\ i \in DOMAIN queue)
  <2>1. queue' = queue
    BY <1>1, <1>3 DEF HandBack
  <2> QED  BY <1>1, <2>1, KeepsReturn
<1> QED  BY <1>2, <1>3

LEMMA KeepsFailure ==
  ASSUME Sound, Sound', Busy, NEW u \in Users, AttemptFails(u)
  PROVE  Contract!ContractNext \/ Same
<1> DEFINE i == attempt[u].row
           row == Failed(queue[i], attempt[u].tries + 1, NextPosition(queue, u))
<1>1. /\ Evolves(queue, queue') /\ EndAttempt(u) /\ RecordFailure(u) /\ TypeOK
      /\ attempt[u].pc # "idle" /\ downloaded' = downloaded
  BY FailureEvolves DEF AttemptFails, Sound
<1>2. CASE Alive /\ i \in DOMAIN queue
  <2>1. queue' = [queue EXCEPT ![i] = row]
    BY <1>1, <1>2 DEF RecordFailure
  <2>2. row.state \in {"QUEUED", "ERROR"}
    <3>1. queue[i] \in Row
      BY <1>1, <1>2 DEF TypeOK
    <3> HIDE DEF i
    <3> QED  BY <3>1 DEF Failed, Row
  <2> HIDE DEF row
  <2>3. /\ DOMAIN queue' = DOMAIN queue /\ queue'[i].state \in {"QUEUED", "ERROR"}
        /\ \A j \in DOMAIN queue \ {i} : queue'[j].state = queue[j].state
    BY <1>2, <2>1, <2>2
  <2> QED  BY <1>1, <1>2, <2>3, KeepsReturn
<1>3. CASE ~(Alive /\ i \in DOMAIN queue)
  <2>1. queue' = queue
    BY <1>1, <1>3 DEF RecordFailure
  <2> QED  BY <1>1, <2>1, KeepsReturn
<1> QED  BY <1>2, <1>3

LEMMA KeepsComplete ==
  ASSUME Sound, Sound', Busy, NEW u \in Users, Complete(u)
  PROVE  Contract!ContractNext \/ Same
<1>0. attempt[u].pc # "idle"
  BY DEF Complete
<1>1. CASE ~Alive
  BY <1>0, <1>1, KeepsStepAway DEF Complete
<1>2. CASE Alive
  <2>0. attempt[u].chapter \in Chapters
    BY <1>0, <1>2, HeldStatus
  <2>c. PICK c \in Chapters : c = attempt[u].chapter
    BY <2>0
  <2> DEFINE i == attempt[u].row
  <2>1. /\ downloaded' = downloaded \cup {c}
        /\ queue' = Delete(queue, {i})
        /\ EndAttempt(u)
    BY <1>2, <2>c DEF Complete
  <2>2. /\ c \in Chapters /\ Owner[c] = u /\ PerAccount(queue) /\ PerAccount(queue')
        /\ IsTable(queue, nextId - 1) /\ nextId - 1 \in Nat
        /\ i \in DOMAIN queue => queue[i].chapter = c
    BY <1>0, <1>2, <2>c, HeldStatus, Tables
  <2>3. Stops(Owner[c])
    BY <1>2, <2>1, <2>2, EndStops
  <2>4. Evolves(queue, queue') /\ DOMAIN queue' = DOMAIN queue \ {i}
        /\ \A j \in DOMAIN queue' : queue'[j] = queue[j]
    <3> HIDE DEF i
    <3> QED  BY <2>1, <2>2 DEF Delete, Evolves, IsTable
  <2> HIDE DEF i
  <2>5. CASE i \notin DOMAIN queue
    <3>1. \A d \in Chapters : StatusOf(d)' = StatusOf(d)
      BY <2>4, <2>5, StatusStays
    <3> QED  BY <2>1, <2>2, <2>3, <3>1, ContractLand
  <2>6. CASE i \in DOMAIN queue
    <3>1. ASSUME NEW d \in Chapters
          PROVE  StatusOf(d)' = IF d = c THEN "none" ELSE StatusOf(d)
      <4>1. CASE /\ \A j \in DOMAIN queue : queue[j].chapter # d
                 /\ StatusIn(queue, d) = "none" /\ StatusIn(queue', d) = "none"
        BY <4>1, StatusOfIs
      <4>2. ASSUME NEW j \in DOMAIN queue, queue[j].chapter = d,
                   StatusIn(queue, d) = queue[j].state,
                   StatusIn(queue', d) = IF j \in DOMAIN queue' THEN queue'[j].state ELSE "none"
            PROVE  StatusOf(d)' = IF d = c THEN "none" ELSE StatusOf(d)
        <5>1. j = i <=> d = c
          BY <2>2, <2>6, <4>2 DEF PerAccount
        <5> QED  BY <2>4, <4>2, <5>1, StatusOfIs
      <4> QED  BY <2>2, <2>4, <4>1, <4>2, StatusEvolves
    <3> QED  BY <2>1, <2>2, <2>3, <3>1, ContractLand
  <2> QED  BY <2>5, <2>6
<1> QED  BY <1>1, <1>2

LEMMA KeepsAttempt ==
  ASSUME Sound, Sound', Busy, NEW u \in Users, AttemptStep(u)
  PROVE  Contract!ContractNext \/ Same
<1>1. ASSUME UNCHANGED <<queue, running, downloaded>> PROVE Same
  BY <1>1, StatusOfIs DEF Same
<1>2. CASE ListPages(u) \/ OpenPartial(u) \/ StorePage(u)
  <2>1. attempt[u].pc # "idle" /\ downloaded' = downloaded
    BY <1>2 DEF ListPages, OpenPartial, StorePage
  <2>2. StepAway(u) \/ UNCHANGED <<queue, running>>
    BY <1>2 DEF ListPages, OpenPartial, StorePage, Goto, NextPage
  <2> QED  BY <1>1, <2>1, <2>2, KeepsStepAway
<1>3. CASE FinishAsFolder(u) \/ FinishAsCbz(u)
  BY <1>1, <1>3 DEF FinishAsFolder, FinishAsCbz, FileStep, Goto
<1> QED  BY <1>2, <1>3, KeepsComplete, KeepsFailure DEF AttemptStep

-----------------------------------------------------------------------------
(* ... and the process.                                                    *)

LEMMA KeepsProcess ==
  ASSUME Sound, Sound', Busy, StopWorker \/ Exit \/ StartDownloadWorker
  PROVE  Contract!ContractNext
<1>1. running' = {} /\ downloaded' = downloaded
  BY DEF StopWorker, Exit, StartDownloadWorker, persistent, memory, Busy, DownIsIdle
<1>2. CASE Exit
  BY <1>1, <1>2, StatusOfIs, ContractHalt DEF Exit, persistent
<1>3. CASE StopWorker \/ StartDownloadWorker
  <2>1. queue' = Requeue(queue, DOMAIN queue)
    BY <1>3 DEF StopWorker, StartDownloadWorker, ReleaseInFlight
  <2>2. \A c \in Chapters :
            StatusOf(c)' = IF StatusOf(c) = "DOWNLOADING" THEN "QUEUED" ELSE StatusOf(c)
    <3>1. \A c \in Chapters : StatusOf(c) = "DOWNLOADING" => \E i \in DOMAIN queue : queue[i].chapter = c
      BY StatusOfNone, StatusOfIs
    <3> QED  BY <2>1, <3>1, StatusRequeued
  <2> QED  BY <1>1, <2>2, ContractHalt
<1> QED  BY <1>2, <1>3

(* The downloader implements its contract: seen as a status per chapter,   *)
(* the set of STARTED accounts and the set of downloaded chapters, every   *)
(* step of queue, attempts and process is one the contract allows.         *)
THEOREM ContractIsKept == Spec => KeepsContract
<1>1. ASSUME Init PROVE Contract!ContractInit
  <2>1. \A c \in Chapters : StatusOf(c) = "none"
    BY <1>1 DEF Init, StatusOf
  <2> QED  BY <1>1, <2>1 DEF Init, Contract!ContractInit
<1>2. ASSUME Sound, Sound', Busy, [Next]_vars
      PROVE  Contract!ContractNext \/ Same
  <2>1. CASE UNCHANGED vars
    BY <2>1, StatusOfIs DEF vars, Same
  <2> QED
    BY <1>2, <2>1, KeepsMutation, KeepsDeletion, KeepsFillSlots, KeepsAttempt, KeepsProcess DEF Next
<1>3. Sound /\ Sound' /\ Busy /\ [Next]_vars => [Contract!ContractNext]_(Contract!contract)
  BY <1>2 DEF Contract!contract, Same
<1> QED  BY <1>1, <1>3, BusyAlways, PTL DEF Spec, KeepsContract, Contract!ContractSpec

-----------------------------------------------------------------------------
(* Why rows leave.                                                         *)

(* A row leaves the queue only when the attempt on that row has landed and *)
(* its chapter is called downloaded, or its account takes it out.          *)
THEOREM RowsStayUntilDone == Spec => RowsLeaveForAReason
<1> DEFINE Reason(i) ==
        \/ /\ InFlight(queue[i].user, i) /\ attempt[queue[i].user].pc = "landed"
           /\ queue[i].chapter \in downloaded'
        \/ \E b \in Batches : DequeueDownloads(queue[i].user, Range(b))
        \/ ClearDownloader(queue[i].user)
<1>1. ASSUME Sound, Sound', [Next]_vars, NEW i \in DOMAIN queue, i \notin DOMAIN queue'
      PROVE  Reason(i)
  <2>0. IsTable(queue, nextId - 1) /\ PerAccount(queue) /\ nextId - 1 \in Nat
    BY <1>1, Tables
  <2>1. CASE Mutation
    <3>1. PICK u \in Users :
            \/ \E b \in Batches : EnqueueDownloads(u, b)
            \/ \E b \in Batches : DequeueDownloads(u, Range(b))
            \/ StartDownloader(u)
            \/ StopDownloader(u)
            \/ ClearDownloader(u)
            \/ \E c \in Chapters, to \in Targets : ReorderDownload(u, c, to)
      BY <2>1 DEF Mutation
    <3>2. ~\E b \in Batches : EnqueueDownloads(u, b)
      BY <1>1 DEF EnqueueDownloads, Enqueue
    <3>3. ASSUME NEW b \in Batches, DequeueDownloads(u, Range(b)) PROVE queue[i].user = u
      <4> DEFINE r == Dequeue(queue, u, Range(b))
      <4>1. DOMAIN r = DOMAIN queue \ {j \in RowsOf(queue, u) : queue[j].chapter \in Range(b)}
        BY <2>0, DequeueLeaves
      <4>2. queue' = r
        BY <3>3 DEF DequeueDownloads
      <4> HIDE DEF r
      <4> QED  BY <1>1, <4>1, <4>2 DEF RowsOf
    <3>4. ~StartDownloader(u) /\ ~StopDownloader(u)
      BY <1>1 DEF StartDownloader, StopDownloader, persistent, Pause, Requeue
    <3>5. ASSUME ClearDownloader(u) PROVE queue[i].user = u
      BY <1>1, <3>5 DEF ClearDownloader, Clear, Delete, RowsOf
    <3>6. ~\E c \in Chapters, to \in Targets : ReorderDownload(u, c, to)
      BY <1>1 DEF ReorderDownload, Reorder
    <3> QED  BY <3>1, <3>2, <3>3, <3>4, <3>5, <3>6
  <2>2. ASSUME NEW u \in Users, AttemptStep(u) PROVE Reason(i)
    <3>1. Complete(u) /\ Alive
      BY <1>1, <2>2
         DEF AttemptStep, ListPages, OpenPartial, StorePage, FinishAsFolder, FinishAsCbz, FileStep,
             Complete, AttemptFails, Goto, NextPage, StepAway, HandBack, RecordFailure
    <3>2. /\ attempt[u].pc = "landed"
          /\ downloaded' = downloaded \cup {attempt[u].chapter}
          /\ queue' = Delete(queue, {attempt[u].row})
      BY <3>1 DEF Complete
    <3>3. attempt[u].row = i
      BY <1>1, <3>2 DEF Delete
    <3>4. queue[i].chapter = attempt[u].chapter /\ queue[i].user = u
      BY <1>1, <2>0, <3>2, <3>3 DEF Sound, AttemptSound, PerAccount
    <3> QED  BY <3>2, <3>3, <3>4 DEF InFlight
  <2>3. ~((\E u \in Users : DeleteDownloaded(u)) \/ FillSlots \/ StopWorker \/ Exit
          \/ StartDownloadWorker \/ UNCHANGED vars)
    BY <1>1
       DEF DeleteDownloaded, DeleteBegin, DeleteDir, DeletePartial, DeleteCbz, DeleteFlags, DeleteFails,
           FillSlots, StopWorker, Exit, StartDownloadWorker, ReleaseInFlight, Requeue,
           persistent, vars
  <2> QED  BY <1>1, <2>1, <2>2, <2>3 DEF Next
<1>2. Sound /\ Sound' /\ [Next]_vars =>
        [\A i \in DOMAIN queue \ DOMAIN queue' :
            LET u == queue[i].user
            IN  \/ /\ InFlight(u, i) /\ attempt[u].pc = "landed"
                   /\ queue[i].chapter \in downloaded'
                \/ \E b \in Batches : DequeueDownloads(u, Range(b))
                \/ ClearDownloader(u)]_vars
  BY <1>1
<1> QED  BY <1>2, SoundInit, SoundNext, PTL DEF Spec, RowsLeaveForAReason

-----------------------------------------------------------------------------
(* The files: the inductive invariant.                                     *)

Partly(folder, c) ==
    folder # NoFiles => \A p \in Pages : folder[p] \in {c, NoPage, Gone}

Wholly(folder, c) ==
    folder # NoFiles => \A p \in Pages : folder[p] \in {c, Gone}

(* The places where finish() still needs the partial folder.               *)
Publishing == {"rmCbz", "rmDir", "publishDir", "pack"}

(* What holds of a location that belongs to chapter c alone while a is the *)
(* attempt of its account: no page of another chapter is in it, what is    *)
(* packed or finished was whole, and an attempt that has gone past a page  *)
(* left it in the folder, unless a deletion took it or the folder itself.  *)
FilesSound(c, loc, a) ==
    /\ Partly(loc.partial, c)
    /\ Wholly(loc.pending, c)
    /\ Wholly(loc.dir, c)
    /\ Wholly(loc.cbz, c)
    /\ a.chapter = c /\ a.pc = "fetching" /\ loc.partial # NoFiles =>
            \A p \in Pages : p \in a.present \/ p < a.page => loc.partial[p] \in {c, Gone}
    /\ a.chapter = c /\ a.pc \in Publishing => Wholly(loc.partial, c)

(* What holds of the location of any attempt a: the page it fetches is not *)
(* one that it found, and neither that page nor a later one that it did    *)
(* not find has come into the folder since.                                *)
ResumeSound(loc, a) ==
    a.pc = "fetching" =>
        /\ a.page \notin a.present
        /\ loc.partial # NoFiles =>
                \A p \in Pages : p >= a.page /\ p \notin a.present => loc.partial[p] = NoPage

Alone(c) == \A d \in Chapters : LocationOf[d] = LocationOf[c] => d = c

Kept ==
    /\ \A c \in Chapters : Alone(c) => FilesSound(c, FilesOf(c), attempt[Owner[c]])
    /\ \A u \in Users : attempt[u].pc # "idle" => ResumeSound(AttemptFiles(u), attempt[u])

-----------------------------------------------------------------------------
(* The steps that take files away, and those of an attempt.                *)

(* A path of the location is as it was, lacks one more page, or is gone.   *)
Lessens(new, old) == new \in {old, NoFiles} \cup Unlinked(old)

Thinned(new, old) ==
    /\ Lessens(new.partial, old.partial)
    /\ Lessens(new.pending, old.pending)
    /\ Lessens(new.dir, old.dir)
    /\ Lessens(new.cbz, old.cbz)

(* The places where what an attempt knows of the folder matters.           *)
Working == Publishing \cup {"fetching"}

(* An attempt that has looked at its folder, or just stored a page, and    *)
(* goes on to the next one or to finish().                                 *)
Proceeds(a, present, done, b) ==
    /\ b.chapter = a.chapter
    /\ b.present = present
    /\ IF Missing(present, done) = {}
       THEN b.pc \in {"rmCbz", "pack"}
       ELSE /\ b.pc = "fetching"
            /\ b.page \in Missing(present, done)
            /\ \A r \in Missing(present, done) : b.page <= r

Rests(b) == b.pc \notin Working

(* What one step of attempt a makes of its location and of itself.         *)
Advances(old, a, new, b) ==
    \/ /\ Thinned(new, old)
       /\ \/ Rests(b)
          \/ a.pc \in Publishing /\ b.pc \in Publishing /\ b.chapter = a.chapter
    \/ /\ new = MakePartial(old)
       /\ Rests(b) \/ Proceeds(a, PagesIn(new.partial), 0, b)
    \/ /\ a.pc = "fetching" /\ old.partial # NoFiles
       /\ new = WritePage(old, a.page, a.chapter)
       /\ Rests(b) \/ Proceeds(a, a.present, a.page, b)
    \/ /\ a.pc = "publishDir" /\ old.partial # NoFiles
       /\ new = PublishDir(old) /\ Rests(b)
    \/ /\ a.pc = "pack" /\ old.partial # NoFiles
       /\ new = Pack(old) /\ Rests(b)
    \/ /\ a.pc = "publishCbz" /\ new = PublishCbz(old) /\ Rests(b)

LEMMA LessOfIt ==
  ASSUME NEW old \in Content, NEW new, Lessens(new, old), new # NoFiles
  PROVE  /\ old # NoFiles /\ old \in Folder
         /\ \A p \in Pages : new[p] = old[p] \/ (new[p] = Gone /\ old[p] \notin {NoPage, Gone})
<1>1. CASE new = old
  BY <1>1 DEF Content
<1>2. CASE new \in Unlinked(old)
  <2>1. old # NoFiles /\ \E q \in PagesIn(old) : new = [old EXCEPT ![q] = Gone]
    BY <1>2 DEF Unlinked
  <2> QED  BY <2>1 DEF Content, Folder, PagesIn
<1> QED  BY <1>1, <1>2 DEF Lessens

LEMMA LessIsKept ==
  ASSUME NEW old \in Content, NEW new, Lessens(new, old), NEW c
  PROVE  /\ Partly(old, c) => Partly(new, c)
         /\ Wholly(old, c) => Wholly(new, c)
BY LessOfIt DEF Partly, Wholly

LEMMA PathsTyped ==
  ASSUME NEW loc \in Location
  PROVE  loc.partial \in Content /\ loc.pending \in Content /\ loc.dir \in Content /\ loc.cbz \in Content
BY DEF Location

LEMMA ThinnedSound ==
  ASSUME NEW c \in Chapters, NEW old \in Location, NEW new, NEW a, NEW b,
         FilesSound(c, old, a), Thinned(new, old), b = a \/ Rests(b) \/ b.chapter # c
  PROVE  FilesSound(c, new, b)
<1>1. /\ Partly(new.partial, c) /\ Wholly(new.pending, c)
      /\ Wholly(new.dir, c) /\ Wholly(new.cbz, c)
      /\ Wholly(old.partial, c) => Wholly(new.partial, c)
  BY PathsTyped, LessIsKept DEF FilesSound, Thinned
<1>2. ASSUME b.chapter = c, b.pc = "fetching", new.partial # NoFiles,
             NEW p \in Pages, p \in b.present \/ p < b.page
      PROVE  new.partial[p] \in {c, Gone}
  <2>1. b = a
    BY <1>2 DEF Rests, Working
  <2>2. old.partial # NoFiles /\ (new.partial[p] = old.partial[p] \/ new.partial[p] = Gone)
    BY <1>2, PathsTyped, LessOfIt DEF Thinned
  <2>3. old.partial[p] \in {c, Gone}
    BY <1>2, <2>1, <2>2 DEF FilesSound
  <2> QED  BY <2>2, <2>3
<1>3. b.chapter = c /\ b.pc \in Publishing => Wholly(new.partial, c)
  BY <1>1 DEF FilesSound, Rests, Working
<1> QED  BY <1>1, <1>2, <1>3 DEF FilesSound

LEMMA ThinnedResume ==
  ASSUME NEW old \in Location, NEW new, NEW a, NEW b,
         ResumeSound(old, a), Thinned(new, old), b = a \/ Rests(b)
  PROVE  ResumeSound(new, b)
<1> SUFFICES ASSUME b.pc = "fetching" PROVE ResumeSound(new, b)
  BY DEF ResumeSound
<1>1. b = a
  BY DEF Rests, Working
<1>2. ASSUME new.partial # NoFiles, NEW p \in Pages, p >= a.page, p \notin a.present
      PROVE  new.partial[p] = NoPage
  <2>1. old.partial # NoFiles /\ (new.partial[p] = old.partial[p] \/ old.partial[p] \notin {NoPage, Gone})
    BY <1>2, PathsTyped, LessOfIt DEF Thinned
  <2>2. old.partial[p] = NoPage
    BY <1>1, <1>2, <2>1 DEF ResumeSound
  <2> QED  BY <2>1, <2>2
<1> QED  BY <1>1, <1>2 DEF ResumeSound

LEMMA AdvanceSound ==
  ASSUME NEW c \in Chapters, NEW old \in Location, NEW new, NEW a \in Attempt, NEW b \in Attempt,
         a.chapter = c, FilesSound(c, old, a), Advances(old, a, new, b)
  PROVE  FilesSound(c, new, b)
<1>0. c # NoPage
  BY FilesAssumption
<1>1. CASE /\ Thinned(new, old)
           /\ \/ Rests(b)
              \/ a.pc \in Publishing /\ b.pc \in Publishing /\ b.chapter = a.chapter
  <2>1. CASE Rests(b)
    BY <1>1, <2>1, ThinnedSound
  <2>2. CASE a.pc \in Publishing /\ b.pc \in Publishing /\ b.chapter = a.chapter
    <3>1. Wholly(old.partial, c)
      BY <2>2 DEF FilesSound
    <3>2. /\ Partly(new.partial, c) /\ Wholly(new.partial, c) /\ Wholly(new.pending, c)
          /\ Wholly(new.dir, c) /\ Wholly(new.cbz, c)
      BY <1>1, <3>1, PathsTyped, LessIsKept DEF FilesSound, Thinned
    <3> QED  BY <2>2, <3>2 DEF FilesSound, Publishing
  <2> QED  BY <1>1, <2>1, <2>2
<1>2. CASE /\ new = MakePartial(old)
           /\ Rests(b) \/ Proceeds(a, PagesIn(new.partial), 0, b)
  <2>1. /\ new.partial # NoFiles
        /\ \A p \in Pages : new.partial[p] \in {c, NoPage}
        /\ new.pending = old.pending /\ new.dir = old.dir /\ new.cbz = old.cbz
    <3> DEFINE made == IF old.partial = NoFiles THEN EmptyFolder
                       ELSE [p \in Pages |-> IF old.partial[p] = Gone THEN NoPage ELSE old.partial[p]]
    <3>1. new = [old EXCEPT !.partial = made]
      BY <1>2 DEF MakePartial
    <3>2. made \in Folder /\ \A p \in Pages : made[p] \in {c, NoPage}
      BY FilesAssumption DEF EmptyFolder, FilesSound, Partly, Folder
    <3> HIDE DEF made
    <3> QED  BY <3>1, <3>2, FilesAssumption DEF Location, Folder, Pages
  <2>2. \A p \in PagesIn(new.partial) : new.partial[p] = c
    BY <2>1 DEF PagesIn
  <2>3. CASE Rests(b)
    BY <2>1, <2>3 DEF FilesSound, Partly, Rests, Working
  <2>4. CASE Proceeds(a, PagesIn(new.partial), 0, b)
    <3> DEFINE P == PagesIn(new.partial)
    <3>1. \A p \in Pages : p > 0 /\ p \in Int
      BY DEF Pages
    <3>2. CASE Missing(P, 0) = {}
      <4>1. \A p \in Pages : new.partial[p] = c
        BY <2>2, <3>1, <3>2 DEF Missing
      <4> QED  BY <2>1, <2>4, <3>2, <4>1 DEF FilesSound, Partly, Wholly, Proceeds
    <3>3. CASE Missing(P, 0) # {}
      <4>1. /\ b.pc = "fetching" /\ b.present = P /\ b.page \in Pages
            /\ \A r \in Missing(P, 0) : b.page <= r
        BY <2>4, <3>3 DEF Proceeds, Missing
      <4>2. \A p \in Pages : p \in b.present \/ p < b.page => new.partial[p] = c
        BY <2>2, <3>1, <4>1 DEF Missing
      <4> QED  BY <2>1, <4>1, <4>2 DEF FilesSound, Partly, Wholly, Publishing
    <3> QED  BY <3>2, <3>3
  <2> QED  BY <1>2, <2>3, <2>4
<1>3. CASE /\ a.pc = "fetching" /\ old.partial # NoFiles
           /\ new = WritePage(old, a.page, a.chapter)
           /\ Rests(b) \/ Proceeds(a, a.present, a.page, b)
  <2>0. old.partial \in Folder
    BY <1>3 DEF Location, Content
  <2>1. /\ new.partial = [old.partial EXCEPT ![a.page] = c]
        /\ new.pending = old.pending /\ new.dir = old.dir /\ new.cbz = old.cbz
    BY <1>3 DEF WritePage, Location
  <2>2. \A p \in Pages : new.partial[p] = IF p = a.page THEN c ELSE old.partial[p]
    BY <2>0, <2>1 DEF Folder
  <2>3. \A p \in Pages : new.partial[p] \in {c, NoPage, Gone}
    BY <1>3, <2>2 DEF FilesSound, Partly
  <2>4. \A p \in Pages : p \in a.present \/ p <= a.page => new.partial[p] \in {c, Gone}
    <3>1. \A p \in Pages : p \in a.present \/ p < a.page => old.partial[p] \in {c, Gone}
      BY <1>3 DEF FilesSound
    <3>2. a.page \in Int /\ Pages \subseteq Int
      BY FilesAssumption DEF Attempt, Pages
    <3> QED  BY <2>2, <3>1, <3>2
  <2>5. CASE Rests(b)
    BY <2>1, <2>3, <2>5 DEF FilesSound, Partly, Rests, Working
  <2>6. CASE Proceeds(a, a.present, a.page, b)
    <3>1. a.page \in Int /\ \A p \in Pages : p \in Int
      BY FilesAssumption DEF Attempt, Pages
    <3>2. CASE Missing(a.present, a.page) = {}
      <4>1. \A p \in Pages : new.partial[p] \in {c, Gone}
        BY <2>4, <3>1, <3>2 DEF Missing
      <4> QED  BY <2>1, <2>6, <3>2, <4>1 DEF FilesSound, Partly, Wholly, Proceeds
    <3>3. CASE Missing(a.present, a.page) # {}
      <4>1. /\ b.pc = "fetching" /\ b.present = a.present /\ b.page \in Pages
            /\ \A r \in Missing(a.present, a.page) : b.page <= r
        BY <2>6, <3>3 DEF Proceeds, Missing
      <4>2. \A p \in Pages : p \in b.present \/ p < b.page => new.partial[p] \in {c, Gone}
        BY <2>4, <3>1, <4>1 DEF Missing
      <4> QED  BY <2>1, <2>3, <4>1, <4>2 DEF FilesSound, Partly, Wholly, Publishing
    <3> QED  BY <3>2, <3>3
  <2> QED  BY <1>3, <2>5, <2>6
<1>4. CASE /\ a.pc = "publishDir" /\ old.partial # NoFiles
           /\ new = PublishDir(old) /\ Rests(b)
  <2>1. Wholly(old.partial, c)
    BY <1>4 DEF FilesSound, Publishing
  <2>2. /\ new.dir = old.partial /\ new.partial = NoFiles
        /\ new.pending = old.pending /\ new.cbz = old.cbz
    BY <1>4 DEF PublishDir, Location
  <2> QED  BY <1>4, <2>1, <2>2 DEF FilesSound, Partly, Wholly, Rests, Working
<1>5. CASE /\ a.pc = "pack" /\ old.partial # NoFiles
           /\ new = Pack(old) /\ Rests(b)
  <2>1. Wholly(old.partial, c)
    BY <1>5 DEF FilesSound, Publishing
  <2>2. /\ new.pending = old.partial /\ new.partial = old.partial
        /\ new.dir = old.dir /\ new.cbz = old.cbz
    BY <1>5 DEF Pack, Location
  <2> QED  BY <1>5, <2>1, <2>2 DEF FilesSound, Partly, Wholly, Rests, Working
<1>6. CASE a.pc = "publishCbz" /\ new = PublishCbz(old) /\ Rests(b)
  <2>1. /\ new.cbz = old.pending /\ new.pending = NoFiles
        /\ new.dir = old.dir /\ new.partial = old.partial
    BY <1>6 DEF PublishCbz, Location
  <2> QED  BY <1>6, <2>1 DEF FilesSound, Partly, Wholly, Rests, Working
<1> QED  BY <1>1, <1>2, <1>3, <1>4, <1>5, <1>6 DEF Advances

LEMMA AdvanceResume ==
  ASSUME NEW old \in Location, NEW new, NEW a \in Attempt, NEW b \in Attempt,
         ResumeSound(old, a), Advances(old, a, new, b)
  PROVE  ResumeSound(new, b)
<1> SUFFICES ASSUME b.pc = "fetching" PROVE ResumeSound(new, b)
  BY DEF ResumeSound
<1>0. ~Rests(b) /\ b.pc \notin Publishing
  BY DEF Rests, Working, Publishing
<1>1. Pages \subseteq Int /\ \A p \in Pages : p > 0
  BY FilesAssumption DEF Pages
<1>2. CASE new = MakePartial(old) /\ Proceeds(a, PagesIn(new.partial), 0, b)
  <2> DEFINE P == PagesIn(new.partial)
  <2>1. b.present = P /\ b.page \in Missing(P, 0)
    BY <1>0, <1>2 DEF Proceeds, Publishing
  <2>2. b.page \notin P /\ \A p \in Pages : p \notin P => new.partial[p] = NoPage
    <3>1. \A p \in Pages : new.partial[p] # Gone
      BY <1>2, FilesAssumption DEF MakePartial, EmptyFolder, Location
    <3> QED  BY <2>1, <3>1 DEF Missing, PagesIn
  <2> QED  BY <2>1, <2>2 DEF ResumeSound
<1>3. CASE /\ a.pc = "fetching" /\ old.partial # NoFiles
           /\ new = WritePage(old, a.page, a.chapter)
           /\ Proceeds(a, a.present, a.page, b)
  <2>1. b.present = a.present /\ b.page \in Missing(a.present, a.page)
    BY <1>0, <1>3 DEF Proceeds, Publishing
  <2>2. b.page \in Pages /\ b.page > a.page /\ b.page \notin a.present /\ a.page \in Int
    BY <2>1, FilesAssumption DEF Missing, Attempt
  <2>3. new.partial = [old.partial EXCEPT ![a.page] = a.chapter] /\ old.partial \in Folder
    BY <1>3 DEF WritePage, Location, Content
  <2>4. ASSUME NEW p \in Pages, p >= b.page, p \notin b.present
        PROVE  new.partial[p] = NoPage
    <3>0. p \in Int /\ b.page \in Int
      BY <1>1, <2>2
    <3>1. p # a.page /\ p >= a.page /\ p \notin a.present
      BY <2>1, <2>2, <2>4, <3>0
    <3>2. old.partial[p] = NoPage
      BY <1>3, <3>1 DEF ResumeSound
    <3> QED  BY <2>3, <3>1, <3>2 DEF Folder
  <2> QED  BY <2>1, <2>2, <2>4 DEF ResumeSound
<1> QED  BY <1>0, <1>2, <1>3 DEF Advances

-----------------------------------------------------------------------------
(* Every step is of one of two kinds.                                      *)

(* Files are only taken away, and an attempt stays as it is or comes to    *)
(* rest.                                                                   *)
StepThins ==
    /\ \A l \in Locations : Thinned(disk'[l], disk[l])
    /\ \A u \in Users : attempt'[u] = attempt[u] \/ Rests(attempt'[u])

(* The attempt of u advances, at its own location.                         *)
StepAdvances(u) ==
    /\ attempt[u].pc # "idle"
    /\ \E files \in Location :
        /\ SetFiles(attempt[u].chapter, files)
        /\ Advances(AttemptFiles(u), attempt[u], files, attempt'[u])
    /\ attempt'[u].pc # "idle" => attempt'[u].chapter = attempt[u].chapter
    /\ \A v \in Users \ {u} : attempt'[v] = attempt[v]

LEMMA KeptThins ==
  ASSUME Sound, Sound', Kept, StepThins
  PROVE  Kept'
<1>0. TypeOK /\ TypeOK'
  BY DEF Sound
<1>1. ASSUME NEW c \in Chapters, Alone(c)
      PROVE  FilesSound(c, FilesOf(c), attempt[Owner[c]])'
  <2>1. FilesOf(c) \in Location /\ Owner[c] \in Users /\ LocationOf[c] \in Locations
    BY <1>0, LocationTyped, AccountsAssumption, DownloadsAssumption
  <2>2. Thinned(FilesOf(c)', FilesOf(c))
    BY <2>1 DEF StepThins, FilesOf
  <2>3. FilesSound(c, FilesOf(c), attempt[Owner[c]])
    BY <1>1 DEF Kept
  <2>4. attempt'[Owner[c]] = attempt[Owner[c]] \/ Rests(attempt'[Owner[c]])
    BY <2>1 DEF StepThins
  <2> QED  BY <2>1, <2>2, <2>3, <2>4, ThinnedSound
<1>2. ASSUME NEW u \in Users, attempt'[u].pc # "idle"
      PROVE  ResumeSound(AttemptFiles(u), attempt[u])'
  <2>1. CASE Rests(attempt'[u])
    BY <2>1 DEF ResumeSound, Rests, Working
  <2>2. CASE attempt'[u] = attempt[u]
    <3>1. attempt[u].chapter \in Chapters /\ AttemptFiles(u) \in Location
      BY <1>0, <1>2, <2>2, LocationTyped DEF Sound, AttemptSound, AttemptFiles
    <3>2. Thinned(AttemptFiles(u)', AttemptFiles(u))
      BY <2>2, <3>1, DownloadsAssumption DEF StepThins, AttemptFiles, FilesOf
    <3>3. ResumeSound(AttemptFiles(u), attempt[u])
      BY <1>2, <2>2 DEF Kept
    <3> QED  BY <2>2, <3>1, <3>2, <3>3, ThinnedResume
  <2> QED  BY <2>1, <2>2 DEF StepThins
<1> QED  BY <1>1, <1>2 DEF Kept, Alone

LEMMA KeptAdvances ==
  ASSUME Sound, Sound', Kept, NEW u \in Users, StepAdvances(u)
  PROVE  Kept'
<1> DEFINE c == attempt[u].chapter
<1>0. TypeOK /\ TypeOK' /\ attempt[u] \in Attempt /\ attempt'[u] \in Attempt
  BY DEF Sound, TypeOK
<1>1. c \in Chapters /\ Owner[c] = u /\ AttemptFiles(u) \in Location /\ LocationOf[c] \in Locations
  BY <1>0, LocationTyped, DownloadsAssumption DEF StepAdvances, Sound, AttemptSound, AttemptFiles
<1>2. PICK files \in Location :
        /\ SetFiles(c, files)
        /\ Advances(AttemptFiles(u), attempt[u], files, attempt'[u])
  BY DEF StepAdvances
<1>3. \A d \in Chapters : FilesOf(d)' = IF LocationOf[d] = LocationOf[c] THEN files ELSE FilesOf(d)
  BY <1>0, <1>1, <1>2, DownloadsAssumption DEF SetFiles, FilesOf, TypeOK
<1>4. ASSUME NEW d \in Chapters, Alone(d)
      PROVE  FilesSound(d, FilesOf(d), attempt[Owner[d]])'
  <2>1. FilesSound(d, FilesOf(d), attempt[Owner[d]]) /\ FilesOf(d) \in Location
    BY <1>0, <1>4, LocationTyped DEF Kept
  <2>2. CASE LocationOf[d] = LocationOf[c]
    <3>1. d = c
      BY <1>1, <1>4, <2>2 DEF Alone
    <3> QED  BY <1>0, <1>1, <1>2, <1>3, <2>1, <3>1, AdvanceSound DEF AttemptFiles
  <2>3. CASE LocationOf[d] # LocationOf[c]
    <3> DEFINE v == Owner[d]
    <3>1. FilesOf(d)' = FilesOf(d) /\ v \in Users /\ d # c
      BY <1>3, <2>3, AccountsAssumption
    <3>2. attempt'[v] = attempt[v] \/ Rests(attempt'[v]) \/ attempt'[v].chapter # d
      BY <3>1 DEF StepAdvances, Rests, Working, Publishing
    <3>3. Thinned(FilesOf(d)', FilesOf(d))
      BY <3>1 DEF Thinned, Lessens
    <3> QED  BY <2>1, <3>1, <3>2, <3>3, ThinnedSound
  <2> QED  BY <2>2, <2>3
<1>5. ASSUME NEW v \in Users, attempt'[v].pc # "idle"
      PROVE  ResumeSound(AttemptFiles(v), attempt[v])'
  <2>1. CASE v = u
    <3>1. ResumeSound(AttemptFiles(u), attempt[u])
      BY DEF Kept, StepAdvances
    <3>2. ResumeSound(files, attempt'[u])
      BY <1>0, <1>1, <1>2, <3>1, AdvanceResume
    <3>3. attempt'[u].chapter = c
      BY <1>5, <2>1 DEF StepAdvances
    <3> QED  BY <1>1, <1>3, <2>1, <3>2, <3>3 DEF AttemptFiles, FilesOf
  <2>2. CASE v # u
    <3> DEFINE d == attempt[v].chapter
    <3>1. attempt'[v] = attempt[v]
      BY <2>2 DEF StepAdvances
    <3>2. d \in Chapters /\ Owner[d] = v
      BY <1>5, <3>1 DEF Sound, AttemptSound
    <3>3. LocationOf[d] # LocationOf[c]
      BY <1>1, <2>2, <3>2, DownloadsAssumption
    <3>4. AttemptFiles(v)' = AttemptFiles(v)
      BY <1>3, <3>1, <3>2, <3>3 DEF AttemptFiles, FilesOf
    <3> QED  BY <1>5, <3>1, <3>4 DEF Kept
  <2> QED  BY <2>1, <2>2
<1> QED  BY <1>4, <1>5 DEF Kept, Alone

-----------------------------------------------------------------------------
(* Each action is of one of the two kinds.                                 *)

LEMMA SameThins == \A loc : Thinned(loc, loc)
BY DEF Thinned, Lessens

(* A step that leaves the disk alone and brings attempts to rest.          *)
LEMMA QuietStep ==
  ASSUME disk' = disk, \A u \in Users : attempt'[u] = attempt[u] \/ Rests(attempt'[u])
  PROVE  StepThins
BY SameThins DEF StepThins

(* Every removal takes a file, a folder, or one file of a folder.          *)
LEMMA OneLess ==
  ASSUME NEW loc \in Location
  PROVE  /\ \A f \in ThinDir(loc) \cup {RemoveDir(loc)} : Thinned(f, loc)
         /\ \A f \in ThinPartial(loc) \cup {RemovePartial(loc)} : Thinned(f, loc)
         /\ Thinned(RemoveCbz(loc), loc)
<1>1. \A x : Lessens(x, x) /\ Lessens(NoFiles, x) /\ \A f \in Unlinked(x) : Lessens(f, x)
  BY DEF Lessens
<1>2. \A f : Lessens(f, loc.dir) => Thinned([loc EXCEPT !.dir = f], loc)
  BY <1>1 DEF Thinned, Location
<1>3. \A f : Lessens(f, loc.partial) => Thinned([loc EXCEPT !.partial = f], loc)
  BY <1>1 DEF Thinned, Location
<1>4. Thinned(RemoveCbz(loc), loc)
  BY <1>1 DEF Thinned, RemoveCbz, Location
<1> QED  BY <1>1, <1>2, <1>3, <1>4 DEF ThinDir, ThinPartial, RemoveDir, RemovePartial

LEMMA DeletionThins ==
  ASSUME Sound, NEW u \in Users, DeleteDownloaded(u)
  PROVE  StepThins
<1>0. TypeOK /\ deleting[u] \in Deletion /\ attempt' = attempt
  BY DEF Sound, TypeOK, DeleteDownloaded, DeleteBegin, DeleteDir, DeletePartial, DeleteCbz, DeleteFlags, DeleteFails
<1>1. ASSUME NEW c \in Chapters, NEW files, Thinned(files, FilesOf(c)), SetFiles(c, files)
      PROVE  StepThins
  <2>1. LocationOf[c] \in Locations
    BY DownloadsAssumption
  <2>2. \A l \in Locations : disk'[l] = IF l = LocationOf[c] THEN files ELSE disk[l]
    BY <1>0, <1>1, <2>1 DEF SetFiles, TypeOK
  <2> QED  BY <1>0, <1>1, <2>2, SameThins DEF StepThins, FilesOf
<1>2. \A c \in Chapters : FilesOf(c) \in Location
  BY <1>0, LocationTyped
<1>3. CASE DeleteDir(u)
  <2>1. PICK c \in InHand(u) :
            \E files \in ThinDir(FilesOf(c)) \cup {RemoveDir(FilesOf(c))} : SetFiles(c, files)
    BY <1>3 DEF DeleteDir
  <2>2. c \in Chapters
    BY <1>0, <1>3, <2>1 DEF Deletion, InHand
  <2>3. \A files \in ThinDir(FilesOf(c)) \cup {RemoveDir(FilesOf(c))} : Thinned(files, FilesOf(c))
    BY <1>2, <2>2, OneLess
  <2> QED  BY <1>1, <2>1, <2>2, <2>3
<1>4. CASE DeletePartial(u)
  <2> DEFINE c == deleting[u].current
  <2>1. c \in Chapters
    BY <1>4 DEF DeletePartial, Sound, DeletionSound
  <2>2. PICK files \in ThinPartial(FilesOf(c)) \cup {RemovePartial(FilesOf(c))} : SetFiles(c, files)
    BY <1>4 DEF DeletePartial
  <2> HIDE DEF c
  <2>3. Thinned(files, FilesOf(c))
    BY <1>2, <2>1, <2>2, OneLess
  <2> QED  BY <1>1, <2>1, <2>2, <2>3
<1>5. CASE DeleteCbz(u)
  <2> DEFINE c == deleting[u].current
  <2>1. c \in Chapters /\ SetFiles(c, RemoveCbz(FilesOf(c)))
    BY <1>5 DEF DeleteCbz, Sound, DeletionSound
  <2>2. Thinned(RemoveCbz(FilesOf(c)), FilesOf(c))
    BY <1>2, <2>1, OneLess
  <2> HIDE DEF c
  <2> QED  BY <1>1, <2>1, <2>2
<1>6. CASE DeleteFlags(u) \/ DeleteFails(u) \/ \E cs \in DeleteBatches : DeleteBegin(u, cs)
  BY <1>0, <1>6, QuietStep DEF DeleteFlags, DeleteFails, DeleteBegin, persistent
<1> QED  BY <1>3, <1>4, <1>5, <1>6 DEF DeleteDownloaded

(* The rest of a step that does nothing to files.                          *)
LEMMA OthersThin ==
  ASSUME Sound, Mutation \/ FillSlots \/ StopWorker \/ Exit \/ StartDownloadWorker \/ UNCHANGED vars
  PROVE  StepThins
<1>1. CASE Mutation
  <2>1. disk' = disk /\ attempt' = attempt
    BY <1>1 DEF Mutation, EnqueueDownloads, DequeueDownloads, StartDownloader, StopDownloader,
                ClearDownloader, ReorderDownload, memory, persistent
  <2> QED  BY <2>1, QuietStep
<1>2. CASE FillSlots
  <2>1. disk' = disk
    BY <1>2 DEF FillSlots
  <2>2. ASSUME NEW u \in Users PROVE attempt'[u] = attempt[u] \/ Rests(attempt'[u])
    BY <1>2 DEF FillSlots, Rests, Working, Publishing
  <2> QED  BY <2>1, <2>2, QuietStep
<1>3. CASE StopWorker \/ StartDownloadWorker \/ UNCHANGED vars
  BY <1>3, QuietStep DEF StopWorker, StartDownloadWorker, memory, vars
<1>4. CASE Exit
  <2>1. disk' = disk /\ \A u \in Users : attempt'[u].pc = "idle"
    BY <1>4 DEF Exit, persistent, NoAttempt
  <2> QED  BY <2>1, QuietStep DEF Rests, Working, Publishing
<1> QED  BY <1>1, <1>2, <1>3, <1>4

LEMMA NextPageProceeds ==
  ASSUME Sound, NEW u \in Users, NEW present \in SUBSET Pages, NEW done, NextPage(u, present, done)
  PROVE  /\ Proceeds(attempt[u], present, done, attempt'[u])
         /\ \A v \in Users \ {u} : attempt'[v] = attempt[v]
<1>0. attempt \in [Users -> Attempt] /\ attempt[u] \in Attempt
  BY DEF Sound, TypeOK
<1>1. CASE Missing(present, done) = {}
  <2>1. PICK pc \in {"rmCbz", "pack"} :
            attempt' = [attempt EXCEPT ![u] = [attempt[u] EXCEPT !.pc = pc, !.present = present]]
    BY <1>1 DEF NextPage
  <2> DEFINE b == [attempt[u] EXCEPT !.pc = pc, !.present = present]
  <2>2. b.pc = pc /\ b.chapter = attempt[u].chapter /\ b.present = present
    BY <1>0 DEF Attempt
  <2> HIDE DEF b
  <2>3. attempt'[u] = b /\ \A v \in Users \ {u} : attempt'[v] = attempt[v]
    BY <1>0, <2>1 DEF b
  <2> QED  BY <1>1, <2>1, <2>2, <2>3 DEF Proceeds
<1>2. CASE Missing(present, done) # {}
  <2>1. PICK p \in Missing(present, done) :
            /\ \A r \in Missing(present, done) : p <= r
            /\ attempt' = [attempt EXCEPT ![u] =
                [attempt[u] EXCEPT !.pc = "fetching", !.page = p, !.present = present]]
    BY <1>2 DEF NextPage
  <2> DEFINE b == [attempt[u] EXCEPT !.pc = "fetching", !.page = p, !.present = present]
  <2>2. b.pc = "fetching" /\ b.page = p /\ b.chapter = attempt[u].chapter /\ b.present = present
    BY <1>0 DEF Attempt
  <2> HIDE DEF b
  <2>3. attempt'[u] = b /\ \A v \in Users \ {u} : attempt'[v] = attempt[v]
    BY <1>0, <2>1 DEF b
  <2> QED  BY <1>2, <2>1, <2>2, <2>3 DEF Proceeds
<1> QED  BY <1>1, <1>2

LEMMA StepsAside ==
  ASSUME Sound, NEW u \in Users, EndAttempt(u)
  PROVE  Rests(attempt'[u]) /\ \A v \in Users \ {u} : attempt'[v] = attempt[v]
BY DEF EndAttempt, NoAttempt, Sound, TypeOK, Rests, Working, Publishing

(* One await of finish().                                                  *)
LEMMA FileStepAdvances ==
  ASSUME Sound, NEW u \in Users, NEW from \in AttemptPC \ {"idle"}, NEW possible,
         NEW files \in Location, NEW to \in AttemptPC \ {"idle"},
         FileStep(u, from, possible, files, to),
         \A b \in Attempt : b.pc = to /\ b.chapter = attempt[u].chapter
                => Advances(AttemptFiles(u), attempt[u], files, b)
  PROVE  StepAdvances(u)
<1>1. attempt[u] \in Attempt /\ attempt \in [Users -> Attempt]
  BY DEF Sound, TypeOK
<1>2. /\ attempt' = [attempt EXCEPT ![u] = [attempt[u] EXCEPT !.pc = to]]
      /\ attempt[u].pc # "idle" /\ SetFiles(attempt[u].chapter, files)
  BY DEF FileStep, Goto
<1> DEFINE b == [attempt[u] EXCEPT !.pc = to]
<1>3. b \in Attempt /\ b.pc = to /\ b.chapter = attempt[u].chapter
  BY <1>1 DEF Attempt
<1> HIDE DEF b
<1>4. attempt'[u] = b /\ \A v \in Users \ {u} : attempt'[v] = attempt[v]
  BY <1>1, <1>2 DEF b
<1>5. Advances(AttemptFiles(u), attempt[u], files, attempt'[u])
  BY <1>3, <1>4
<1> QED  BY <1>2, <1>3, <1>4, <1>5 DEF StepAdvances

LEMMA AttemptAdvances ==
  ASSUME Sound, NEW u \in Users, AttemptStep(u)
  PROVE  StepThins \/ StepAdvances(u)
<1>0. TypeOK /\ attempt \in [Users -> Attempt] /\ attempt[u] \in Attempt
  BY DEF Sound, TypeOK
<1> DEFINE old == AttemptFiles(u)
<1>1. ASSUME attempt[u].pc # "idle"
      PROVE  attempt[u].chapter \in Chapters /\ old \in Location
  BY <1>0, <1>1, LocationTyped DEF Sound, AttemptSound, AttemptFiles
<1>2. CASE ListPages(u)
  <2>1. disk' = disk
    BY <1>2 DEF ListPages
  <2>2. ASSUME Goto(u, "opening") PROVE \A v \in Users : attempt'[v] = attempt[v] \/ Rests(attempt'[v])
    BY <1>0, <2>2 DEF Goto, Attempt, Rests, Working, Publishing
  <2> QED  BY <1>2, <2>1, <2>2, StepsAside, QuietStep DEF ListPages, StepAway
<1>3. CASE Complete(u) \/ AttemptFails(u)
  <2>1. disk' = disk /\ EndAttempt(u)
    BY <1>3 DEF Complete, AttemptFails, StepAway
  <2> QED  BY <2>1, StepsAside, QuietStep
<1>4. CASE OpenPartial(u)
  <2> DEFINE files == MakePartial(old)
             P == PagesIn(files.partial)
  <2>1. /\ attempt[u].pc # "idle" /\ SetFiles(attempt[u].chapter, files)
        /\ NextPage(u, P, 0) \/ StepAway(u)
    BY <1>4 DEF OpenPartial
  <2>2. files \in Location /\ P \in SUBSET Pages
    BY <1>1, <2>1, FileOperationsTyped DEF PagesIn
  <2>3. /\ Rests(attempt'[u]) \/ Proceeds(attempt[u], P, 0, attempt'[u])
        /\ \A v \in Users \ {u} : attempt'[v] = attempt[v]
        /\ attempt'[u].pc # "idle" => attempt'[u].chapter = attempt[u].chapter
    <3> HIDE DEF P
    <3>1. CASE NextPage(u, P, 0)
      BY <2>2, <3>1, NextPageProceeds DEF Proceeds
    <3>2. CASE StepAway(u)
      BY <1>0, <3>2, StepsAside DEF StepAway, EndAttempt, NoAttempt
    <3> QED  BY <2>1, <3>1, <3>2
  <2>4. Advances(old, attempt[u], files, attempt'[u])
    BY <2>3 DEF Advances
  <2> QED  BY <2>1, <2>2, <2>3, <2>4 DEF StepAdvances
<1>5. CASE StorePage(u)
  <2> DEFINE files == WritePage(old, attempt[u].page, attempt[u].chapter)
             P == attempt[u].present
             n == attempt[u].page
  <2>1. /\ attempt[u].pc = "fetching" /\ SetFiles(attempt[u].chapter, files)
        /\ old.partial # NoFiles
        /\ NextPage(u, P, n) \/ StepAway(u)
    BY <1>5 DEF StorePage
  <2>2. files \in Location /\ P \in SUBSET Pages
    <3>1. n \in Pages
      BY <2>1 DEF Sound, AttemptSound
    <3> QED  BY <1>0, <1>1, <2>1, <3>1, FileOperationsTyped DEF Attempt
  <2>3. /\ Rests(attempt'[u]) \/ Proceeds(attempt[u], P, n, attempt'[u])
        /\ \A v \in Users \ {u} : attempt'[v] = attempt[v]
        /\ attempt'[u].pc # "idle" => attempt'[u].chapter = attempt[u].chapter
    <3> HIDE DEF P, n
    <3>1. CASE NextPage(u, P, n)
      BY <2>2, <3>1, NextPageProceeds DEF Proceeds
    <3>2. CASE StepAway(u)
      BY <1>0, <3>2, StepsAside DEF StepAway, EndAttempt, NoAttempt
    <3> QED  BY <2>1, <3>1, <3>2
  <2>4. Advances(old, attempt[u], files, attempt'[u])
    BY <2>1, <2>3 DEF Advances
  <2> QED  BY <2>1, <2>2, <2>3, <2>4 DEF StepAdvances
<1>6. CASE FinishAsFolder(u)
  <2>0. attempt[u].pc # "idle"
    BY <1>6 DEF FinishAsFolder, FileStep
  <2>1. {"rmCbz", "rmDir", "publishDir", "landed"} \subseteq AttemptPC \ {"idle"}
    BY DEF AttemptPC
  <2>2. RemoveCbz(old) \in Location /\ RemoveDir(old) \in Location /\ PublishDir(old) \in Location
    BY <1>1, <2>0, FileOperationsTyped
  <2>3. /\ Thinned(RemoveCbz(old), old) /\ Thinned(RemoveDir(old), old)
        /\ \A less \in ThinDir(old) : Thinned(less, old) /\ less \in Location
    BY <1>1, <2>0, OneLess, FileOperationsTyped
  <2>4. CASE FileStep(u, "rmCbz", TRUE, RemoveCbz(old), "rmDir")
    <3>1. \A b \in Attempt : b.pc = "rmDir" /\ b.chapter = attempt[u].chapter
                => Advances(old, attempt[u], RemoveCbz(old), b)
      BY <2>3, <2>4 DEF Advances, Publishing, FileStep
    <3> QED  BY <2>1, <2>2, <2>4, <3>1, FileStepAdvances
  <2>5. CASE FileStep(u, "rmDir", TRUE, RemoveDir(old), "publishDir")
    <3>1. \A b \in Attempt : b.pc = "publishDir" /\ b.chapter = attempt[u].chapter
                => Advances(old, attempt[u], RemoveDir(old), b)
      BY <2>3, <2>5 DEF Advances, Publishing, FileStep
    <3> QED  BY <2>1, <2>2, <2>5, <3>1, FileStepAdvances
  <2>6. CASE FileStep(u, "publishDir", old.partial # NoFiles, PublishDir(old), "landed")
    <3>1. \A b \in Attempt : b.pc = "landed" /\ b.chapter = attempt[u].chapter
                => Advances(old, attempt[u], PublishDir(old), b)
      BY <2>6 DEF Advances, Rests, Working, Publishing, FileStep
    <3> QED  BY <2>1, <2>2, <2>6, <3>1, FileStepAdvances
  <2>7. ASSUME NEW less \in ThinDir(old), FileStep(u, "rmDir", TRUE, less, "rmDir")
        PROVE  StepAdvances(u)
    <3>1. \A b \in Attempt : b.pc = "rmDir" /\ b.chapter = attempt[u].chapter
                => Advances(old, attempt[u], less, b)
      BY <2>3, <2>7 DEF Advances, Publishing, FileStep
    <3> QED  BY <2>1, <2>3, <2>7, <3>1, FileStepAdvances
  <2> QED  BY <1>6, <2>4, <2>5, <2>6, <2>7 DEF FinishAsFolder
<1>7. CASE FinishAsCbz(u)
  <2>0. attempt[u].pc # "idle"
    BY <1>7 DEF FinishAsCbz, FileStep
  <2>1. {"pack", "rmDirForCbz", "publishCbz", "rmPartial", "landed"} \subseteq AttemptPC \ {"idle"}
    BY DEF AttemptPC
  <2>2. /\ Pack(old) \in Location /\ RemoveDir(old) \in Location
        /\ PublishCbz(old) \in Location /\ RemovePartial(old) \in Location
    BY <1>1, <2>0, FileOperationsTyped
  <2>3. /\ Thinned(RemoveDir(old), old) /\ Thinned(RemovePartial(old), old)
        /\ \A less \in ThinDir(old) \cup ThinPartial(old) : Thinned(less, old) /\ less \in Location
    BY <1>1, <2>0, OneLess, FileOperationsTyped
  <2>4. CASE FileStep(u, "pack", old.partial # NoFiles, Pack(old), "rmDirForCbz")
    <3>1. \A b \in Attempt : b.pc = "rmDirForCbz" /\ b.chapter = attempt[u].chapter
                => Advances(old, attempt[u], Pack(old), b)
      BY <2>4 DEF Advances, Rests, Working, Publishing, FileStep
    <3> QED  BY <2>1, <2>2, <2>4, <3>1, FileStepAdvances
  <2>5. CASE FileStep(u, "rmDirForCbz", TRUE, RemoveDir(old), "publishCbz")
    <3>1. \A b \in Attempt : b.pc = "publishCbz" /\ b.chapter = attempt[u].chapter
                => Advances(old, attempt[u], RemoveDir(old), b)
      BY <2>3, <2>5 DEF Advances, Rests, Working, Publishing, FileStep
    <3> QED  BY <2>1, <2>2, <2>5, <3>1, FileStepAdvances
  <2>6. CASE FileStep(u, "publishCbz", TRUE, PublishCbz(old), "rmPartial")
    <3>1. \A b \in Attempt : b.pc = "rmPartial" /\ b.chapter = attempt[u].chapter
                => Advances(old, attempt[u], PublishCbz(old), b)
      BY <2>6 DEF Advances, Rests, Working, Publishing, FileStep
    <3> QED  BY <2>1, <2>2, <2>6, <3>1, FileStepAdvances
  <2>7. CASE FileStep(u, "rmPartial", TRUE, RemovePartial(old), "landed")
    <3>1. \A b \in Attempt : b.pc = "landed" /\ b.chapter = attempt[u].chapter
                => Advances(old, attempt[u], RemovePartial(old), b)
      BY <2>3, <2>7 DEF Advances, Rests, Working, Publishing, FileStep
    <3> QED  BY <2>1, <2>2, <2>7, <3>1, FileStepAdvances
  <2>8. ASSUME NEW less \in ThinDir(old) \cup ThinPartial(old), NEW pc \in {"rmDirForCbz", "rmPartial"},
               FileStep(u, pc, TRUE, less, pc)
        PROVE  StepAdvances(u)
    <3>1. \A b \in Attempt : b.pc = pc /\ b.chapter = attempt[u].chapter
                => Advances(old, attempt[u], less, b)
      BY <2>3 DEF Advances, Rests, Working, Publishing
    <3> QED  BY <2>1, <2>3, <2>8, <3>1, FileStepAdvances
  <2> QED  BY <1>7, <2>4, <2>5, <2>6, <2>7, <2>8 DEF FinishAsCbz
<1> QED  BY <1>2, <1>3, <1>4, <1>5, <1>6, <1>7 DEF AttemptStep

LEMMA KeptInit == Init => Kept
<1> SUFFICES ASSUME Init PROVE Kept
  OBVIOUS
<1>1. \A c \in Chapters : FilesOf(c) = EmptyLocation
  BY DownloadsAssumption DEF Init, FilesOf
<1>2. \A u \in Users : attempt[u] = NoAttempt
  BY DEF Init
<1>3. \A c \in Chapters : FilesSound(c, EmptyLocation, NoAttempt)
  BY DEF FilesSound, Partly, Wholly, EmptyLocation, NoAttempt, Publishing
<1>4. ASSUME NEW c \in Chapters PROVE FilesSound(c, FilesOf(c), attempt[Owner[c]])
  <2>1. Owner[c] \in Users
    BY AccountsAssumption
  <2>2. FilesOf(c) = EmptyLocation /\ attempt[Owner[c]] = NoAttempt
    BY <1>1, <1>2, <2>1
  <2> QED  BY <1>3, <2>2
<1>5. \A u \in Users : attempt[u].pc = "idle"
  BY <1>2 DEF NoAttempt
<1> QED  BY <1>4, <1>5 DEF Kept

LEMMA KeptNext == Sound /\ Kept /\ [Next]_vars => Kept'
<1> SUFFICES ASSUME Sound, Kept, [Next]_vars PROVE Kept'
  OBVIOUS
<1>1. Sound'
  BY SoundNext
<1>2. StepThins \/ \E u \in Users : StepAdvances(u)
  BY DeletionThins, OthersThin, AttemptAdvances DEF Next
<1> QED  BY <1>1, <1>2, KeptThins, KeptAdvances

-----------------------------------------------------------------------------
(* The theorems.                                                           *)

(* Whatever pauses, failures, deletions, stops and crashes came before, a  *)
(* finished folder or cbz of a chapter with a location of its own holds    *)
(* every page of that chapter, but those a removal has taken one by one    *)
(* (paths.ts:130, worker.ts:206), and no page of another.                  *)
THEOREM FinishedFormsStayWhole == Spec => []FinishedFormsAreWhole
<1>1. Sound /\ Kept => FinishedFormsAreWhole
  <2> SUFFICES ASSUME Sound, Kept, NEW c \in Chapters, Alone(c)
               PROVE  HoldsOnly(FilesOf(c), c)
    BY DEF FinishedFormsAreWhole, Alone
  <2> QED  BY DEF Kept, FilesSound, Wholly, HoldsOnly
<1> QED  BY <1>1, SoundInit, SoundNext, KeptInit, KeptNext, PTL DEF Spec

(* A page is asked of the source only while it has no file, also when      *)
(* chapters of one account share the folder it goes to.                    *)
THEOREM ResumesFetchTheMissing == Spec => ResumeFetchesOnlyMissing
<1>1. ASSUME Sound, Kept, NEW u \in Users, StorePage(u)
      PROVE  AttemptFiles(u).partial[attempt[u].page] = NoPage
  <2>1. attempt[u].pc = "fetching" /\ AttemptFiles(u).partial # NoFiles
    BY <1>1 DEF StorePage
  <2>2. attempt[u].page \in Pages
    BY <1>1, <2>1 DEF Sound, AttemptSound
  <2>3. ResumeSound(AttemptFiles(u), attempt[u])
    BY <1>1, <2>1 DEF Kept
  <2>4. attempt[u].page \in Int
    BY <2>2 DEF Pages
  <2> QED  BY <2>1, <2>2, <2>3, <2>4 DEF ResumeSound
<1>2. Sound /\ Kept /\ [Next]_vars =>
        [\A u \in Users :
            StorePage(u) => AttemptFiles(u).partial[attempt[u].page] = NoPage]_vars
  BY <1>1
<1> QED  BY <1>2, SoundInit, SoundNext, KeptInit, KeptNext, PTL DEF Spec, ResumeFetchesOnlyMissing
===============================================================================
