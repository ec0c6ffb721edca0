---------------------------- MODULE DownloadQueue ----------------------------
(***************************************************************************)
(* The table download_queue and the statements downloads/store.ts runs on  *)
(* it.  The table is a function from primary keys to rows; every operator  *)
(* takes the table and returns the table one transaction leaves behind.    *)
(*                                                                         *)
(* Of a row the model keeps what decides something: whose it is, which     *)
(* chapter, its position, its state and its tries.  progress, error and    *)
(* enqueued_at are written for the screen and read by nothing else.        *)
(* "failed" is not a column: it counts the attempts that ended in an       *)
(* error, so that the meaning of tries can be stated.                      *)
(***************************************************************************)
EXTENDS Integers, FiniteSets, Functions

CONSTANTS
    Users,      \* accounts; names are ordered, as usersWithWork sorts them
    Chapters,   \* rows of the table chapter
    Owner       \* chapter.user_id

ASSUME AccountsAssumption ==
    /\ Users \subseteq Nat \ {0}
    /\ IsFiniteSet(Users)
    /\ Owner \in [Chapters -> Users]

\* FINISHED is declared in the source and never written.
RowState == {"QUEUED", "DOWNLOADING", "ERROR"}

Row == [user : Users, chapter : Chapters, position : Nat,
        state : RowState, tries : Nat, failed : Nat]

RowsOf(q, u) == {i \in DOMAIN q : q[i].user = u}

QueuedRows(q, u) == {i \in RowsOf(q, u) : q[i].state = "QUEUED"}

PendingRows(q, u) ==
    {i \in RowsOf(q, u) : q[i].state \in {"QUEUED", "DOWNLOADING"}}

HasQueuedWork(q, u) == QueuedRows(q, u) # {}

HasPendingWork(q, u) == PendingRows(q, u) # {}

\* ORDER BY position, id
Before(q, i, j) ==
    \/ q[i].position < q[j].position
    \/ q[i].position = q[j].position /\ i < j

IsHead(q, u, i) ==
    /\ i \in QueuedRows(q, u)
    /\ \A j \in QueuedRows(q, u) \ {i} : Before(q, i, j)

NextQueued(q, u) == CHOOSE i \in QueuedRows(q, u) : IsHead(q, u, i)

\* The 0-based place of row i among its account's rows in the set S.
Rank(q, S, i) == Cardinality({j \in S : q[j].user = q[i].user /\ Before(q, j, i)})

\* COALESCE(MAX(position), -1) + 1
\* Mutant: the number of rows, right only while positions have no gaps.
NextPositionByCount(q, u) == Cardinality(RowsOf(q, u))

NextPosition(q, u) ==
    CHOOSE n \in {0} \cup {q[i].position + 1 : i \in RowsOf(q, u)} :
        \A i \in RowsOf(q, u) : q[i].position < n

Delete(q, ids) == [i \in DOMAIN q \ ids |-> q[i]]

Renumber(q, u) ==
    [i \in DOMAIN q |->
        IF q[i].user = u
        THEN [q[i] EXCEPT !.position = Rank(q, DOMAIN q, i)]
        ELSE q[i]]

(***************************************************************************)
(* enqueue: the chapters of the list "wanted" (no duplicates, the Set in   *)
(* ids() sees to that) that are the account's own, not on disk and not     *)
(* queued are appended in the list's order.  Only the freshness and the    *)
(* order of the primary keys matter, so the k-th chapter of the list takes *)
(* the k-th key whether or not the chapters before it were skipped.        *)
(***************************************************************************)
\* Mutant: without the account in the SELECT, any chapter's id will do.
AcceptableOfAny(q, downloaded, u, c) ==
    /\ c \notin downloaded
    /\ \A i \in DOMAIN q : q[i].chapter # c

Acceptable(q, downloaded, u, c) ==
    /\ Owner[c] = u
    /\ c \notin downloaded
    /\ \A i \in DOMAIN q : q[i].chapter # c

Accepted(q, downloaded, u, wanted) ==
    {k \in DOMAIN wanted : Acceptable(q, downloaded, u, wanted[k])}

Enqueue(q, next, downloaded, u, wanted) ==
    LET accepted == Accepted(q, downloaded, u, wanted)
        tail     == NextPosition(q, u)
        fresh    == {next + k : k \in accepted}
    IN  [i \in DOMAIN q \cup fresh |->
            IF i \in fresh
            THEN [user |-> u, chapter |-> wanted[i - next],
                  position |-> tail + Cardinality({k \in accepted : k < i - next}),
                  state |-> "QUEUED", tries |-> 0, failed |-> 0]
            ELSE q[i]]

Dequeue(q, u, chapters) ==
    Renumber(Delete(q, {i \in RowsOf(q, u) : q[i].chapter \in chapters}), u)

Clear(q, u) == Delete(q, RowsOf(q, u))

(***************************************************************************)
(* reorder: the row of the chapter is taken out and put back at the        *)
(* clamped index; every row of the account is numbered again.              *)
(***************************************************************************)
\* Mutant: clamped at the end of the queue only.
ClampAbove(n, high) == IF n > high THEN high ELSE n

Clamp(n, high) == IF n < 0 THEN 0 ELSE IF n > high THEN high ELSE n

Reorder(q, u, c, to) ==
    LET mine   == RowsOf(q, u)
        moved  == {i \in mine : q[i].chapter = c}
        others == mine \ moved
        target == Clamp(to, Cardinality(others))
        place(i) == Rank(q, others, i)
    IN  IF moved = {} THEN q
        ELSE [i \in DOMAIN q |->
                IF i \in moved THEN [q[i] EXCEPT !.position = target]
                ELSE IF i \in others
                THEN [q[i] EXCEPT !.position =
                        IF place(i) < target THEN place(i) ELSE place(i) + 1]
                ELSE q[i]]

\* UPDATE ... SET state = 'QUEUED' over the rows "ids" that are DOWNLOADING.
Requeue(q, ids) ==
    [i \in DOMAIN q |->
        IF i \in ids /\ q[i].state = "DOWNLOADING"
        THEN [q[i] EXCEPT !.state = "QUEUED"]
        ELSE q[i]]

Pause(q, u) == Requeue(q, RowsOf(q, u))

ReleaseInFlight(q) == Requeue(q, DOMAIN q)
=============================================================================
