---------------------------- MODULE TrackerProofs ----------------------------
(***************************************************************************)
(* Theorems about tracking, for any services, titles, accounts and calls.  *)
(***************************************************************************)
EXTENDS Tracker, WellFoundedInduction, TLAPS

-----------------------------------------------------------------------------
(* A loop over the services always has a next one.                         *)

LEMMA SmallestOf ==
  ASSUME NEW S \in SUBSET Nat, S # {}
  PROVE  \E n \in S : \A k \in S : n <= k
<1> DEFINE R == OpToRel(<, Nat)
<1>1. IsWellFoundedOn(R, Nat)
  BY NatLessThanWellFounded
<1>2. \A x, y \in Nat : x < y => <<x, y>> \in R
  BY DEF OpToRel
<1> HIDE DEF R
<1>3. PICK n \in S : \A k \in S : <<k, n>> \notin R
  BY <1>1, WFMin
<1>4. \A k \in S : ~(k < n)
  BY <1>2, <1>3
<1>5. n \in Nat /\ \A k \in S : k \in Nat
  BY <1>3
<1> QED  BY <1>3, <1>4, <1>5

-----------------------------------------------------------------------------
(* The inductive invariant: what a call holds while it waits.              *)

WorkSound(w) ==
    w # None => /\ w.account \in Accounts
                /\ w.kind # "import" => w.title \in Titles
                /\ w.at \in {"sending", "sent"} => w.kind = "report"

Tracked ==
    /\ TypeOK
    /\ \A o \in Calls : WorkSound(work[o])

LEMMA WholeTyped ==
  ASSUME NEW chapter \in Progress
  PROVE  Whole(chapter) \in Progress /\ Whole(chapter) <= chapter
<1>1. chapter \in Nat /\ MaxChapter \in Nat /\ chapter <= MaxChapter
  BY TrackerAssumption DEF Progress
<1>2. 2 * (chapter \div 2) \in Nat /\ 2 * (chapter \div 2) <= chapter
  BY <1>1
<1>3. Whole(chapter) \in Nat /\ Whole(chapter) <= chapter
  BY <1>2 DEF Whole
<1> QED  BY <1>1, <1>3 DEF Progress

LEMMA LargerTyped ==
  ASSUME NEW a \in Progress, NEW b \in Progress
  PROVE  /\ Larger(a, b) \in Progress
         /\ Larger(a, b) >= a /\ Larger(a, b) >= b
BY TrackerAssumption DEF Larger, Progress

(* Where a report goes next: to a service it has not told, under the       *)
(* account signed in there, or nowhere.                                    *)
LEMMA NextReportTyped ==
  ASSUME Tracked, NEW w \in Work, w.kind = "report"
  PROVE  LET next == NextReport(w)
         IN  /\ next \in Work \cup {None}
             /\ WorkSound(next)
             /\ next # None => next.account = credential[next.tracker]
<1> DEFINE due == {t \in Trackers : w.behind[t] # None}
           first == CHOOSE t \in due : \A s \in due : t <= s
           sent == [w EXCEPT !.at = "sending", !.tracker = first, !.title = w.behind[first],
                             !.account = credential[first], !.behind[first] = None]
<1>1. NextReport(w) = IF due = {} THEN None ELSE IF ~SignedIn(first) THEN None ELSE sent
  BY DEF NextReport
<1>2. CASE due = {} \/ ~SignedIn(first)
  <2> HIDE DEF due, first, sent
  <2> QED  BY <1>1, <1>2 DEF WorkSound
<1>3. CASE due # {} /\ SignedIn(first)
  <2>1. due \in SUBSET Nat
    BY TrackerAssumption
  <2>2. \E t \in due : \A s \in due : t <= s
    BY <1>3, <2>1, SmallestOf
  <2>3. first \in due
    BY <2>2
  <2>4. first \in Trackers /\ w.behind[first] \in Titles
    BY <2>3 DEF Work
  <2>5. credential[first] \in Accounts
    BY <1>3, <2>4 DEF SignedIn, Tracked, TypeOK, Credential
  <2> HIDE DEF due, first
  <2>6. [w.behind EXCEPT ![first] = None] \in [Trackers -> Titles \cup {None}]
    BY DEF Work
  <2>7. /\ sent \in Work
        /\ sent.account = credential[first] /\ sent.tracker = first
        /\ sent.title = w.behind[first] /\ sent.kind = w.kind
    BY <2>4, <2>5, <2>6 DEF Work, Credential
  <2> HIDE DEF sent
  <2>8. NextReport(w) = sent
    BY <1>1, <1>3
  <2> QED  BY <2>4, <2>5, <2>7, <2>8 DEF WorkSound
<1> QED  BY <1>2, <1>3

LEMMA UpsertTyped ==
  ASSUME NEW row \in Record, NEW title \in Titles, NEW last \in Progress
  PROVE  /\ Upsert(row, title, last) \in Record
         /\ Upsert(row, title, last) # NoRecord
         /\ Upsert(row, title, last).last >= row.last
<1>1. row.last \in Progress
  BY TrackerAssumption DEF Record, NoRecord, Progress
<1>2. Larger(last, row.last) \in Progress /\ Larger(last, row.last) >= row.last
  BY <1>1, LargerTyped
<1>3. None \notin Titles
  BY TrackerAssumption
<1> QED  BY <1>2, <1>3 DEF Upsert, Record, NoRecord

-----------------------------------------------------------------------------
(* The rows: typed after every step, and never down.                       *)

\* What a step may do to the rows.
RowsMove ==
    /\ record' \in [Manga -> [Trackers -> Record]]
    /\ \A m \in Manga, t \in Trackers :
            record'[m][t] # NoRecord => record'[m][t].last >= record[m][t].last

LEMMA RowsStay ==
  ASSUME Tracked, UNCHANGED record
  PROVE  RowsMove
<1>1. \A m \in Manga, t \in Trackers : record[m][t] \in Record
  BY DEF Tracked, TypeOK
<1>2. \A row \in Record : row.last \in Nat
  BY TrackerAssumption DEF Record, NoRecord, Progress
<1>3. \A m \in Manga, t \in Trackers : record[m][t].last >= record[m][t].last
  BY <1>1, <1>2
<1> QED  BY <1>3 DEF RowsMove, Tracked, TypeOK

(* One row is written, by upsertRecord or not at all.                      *)
LEMMA RowsUpserted ==
  ASSUME Tracked, NEW t \in Trackers,
         record' \in [Manga -> [Trackers -> Record]],
         \A m \in Manga :
            \/ record'[m] = record[m]
            \/ \E title \in Titles, last \in Progress :
                  record'[m] = [record[m] EXCEPT ![t] = Upsert(record[m][t], title, last)]
  PROVE  RowsMove
<1> SUFFICES ASSUME NEW m \in Manga, NEW s \in Trackers
             PROVE  record'[m][s].last >= record[m][s].last
  BY DEF RowsMove
<1>1. record[m] \in [Trackers -> Record] /\ record[m][s] \in Record /\ record[m][t] \in Record
  BY DEF Tracked, TypeOK
<1>2. \A row \in Record : row.last \in Nat
  BY TrackerAssumption DEF Record, NoRecord, Progress
<1>3. record[m][s].last >= record[m][s].last
  BY <1>1, <1>2
<1>4. CASE record'[m] = record[m]
  BY <1>3, <1>4
<1>5. ASSUME NEW title \in Titles, NEW last \in Progress,
             record'[m] = [record[m] EXCEPT ![t] = Upsert(record[m][t], title, last)]
      PROVE  record'[m][s].last >= record[m][s].last
  <2>1. CASE s = t
    <3>1. record'[m][s] = Upsert(record[m][t], title, last)
      BY <1>1, <1>5, <2>1
    <3> QED  BY <1>1, <2>1, <3>1, UpsertTyped
  <2>2. CASE s # t
    <3>1. record'[m][s] = record[m][s]
      BY <1>1, <1>5, <2>2
    <3> QED  BY <1>3, <3>1
  <2> QED  BY <2>1, <2>2
<1> QED  BY <1>4, <1>5

(* The answer to a report moves rows of the title that are behind.         *)
LEMMA RowsMoved ==
  ASSUME Tracked, NEW o \in Calls, Waits(o, "sending") \/ Waits(o, "sent"),
         record' = Moved(work[o])
  PROVE  RowsMove
<1> DEFINE w == work[o]
           t == w.tracker
<1>1. w \in Work /\ w.title \in Titles
  BY DEF Waits, Free, Tracked, TypeOK, WorkSound
<1>2. t \in Trackers /\ w.chapter \in Progress
  BY <1>1 DEF Work
<1>3. \A m \in Manga : record[m] \in [Trackers -> Record]
  BY DEF Tracked, TypeOK
<1> HIDE DEF w, t
<1>4. \A m \in Manga :
        record'[m] = IF record[m][t].title = w.title /\ record[m][t].last < w.chapter
                     THEN [record[m] EXCEPT ![t].last = w.chapter]
                     ELSE record[m]
  BY DEF Moved, w, t
<1>5. SUFFICES ASSUME NEW m \in Manga
               PROVE  /\ record'[m] \in [Trackers -> Record]
                      /\ \A s \in Trackers : record'[m][s].last >= record[m][s].last
  <2>1. DOMAIN record' = Manga /\ record' = [x \in Manga |-> record'[x]]
    BY DEF Moved
  <2> QED  BY <1>5, <2>1 DEF RowsMove
<1>6. \A s \in Trackers : record[m][s] \in Record /\ record[m][s].last \in Nat
  BY <1>3, TrackerAssumption DEF Record, NoRecord, Progress
<1>7. CASE record[m][t].title = w.title /\ record[m][t].last < w.chapter
  <2> DEFINE row == [record[m][t] EXCEPT !.last = w.chapter]
  <2>1. record[m][t] \in [title : Titles, last : Progress]
    BY <1>1, <1>2, <1>6, <1>7, TrackerAssumption DEF Record, NoRecord
  <2>2. row \in Record /\ row.last = w.chapter
    BY <1>2, <2>1 DEF Record
  <2>3. record'[m] = [record[m] EXCEPT ![t] = row]
    BY <1>4, <1>7
  <2> HIDE DEF row
  <2>4. record'[m] \in [Trackers -> Record]
    BY <1>3, <2>2, <2>3
  <2>5. ASSUME NEW s \in Trackers
        PROVE  record'[m][s].last >= record[m][s].last
    <3>0. w.chapter \in Nat
      BY <1>2, TrackerAssumption DEF Progress
    <3>1. record[m][t].last < row.last /\ row.last \in Nat /\ record[m][t].last \in Nat
      BY <1>2, <1>6, <1>7, <2>2, <3>0
    <3>2. CASE s = t
      <4>1. record'[m][s] = row
        BY <1>2, <1>3, <2>3, <3>2
      <4> QED  BY <3>1, <3>2, <4>1
    <3>3. CASE s # t
      <4>1. record'[m][s] = record[m][s]
        BY <1>3, <2>3, <3>3
      <4>2. record[m][s].last \in Nat
        BY <1>6
      <4>3. record[m][s].last >= record[m][s].last
        BY <4>2
      <4> QED  BY <4>1, <4>3
    <3> QED  BY <3>2, <3>3
  <2> QED  BY <2>4, <2>5
<1>8. CASE ~(record[m][t].title = w.title /\ record[m][t].last < w.chapter)
  <2>1. record'[m] = record[m]
    BY <1>4, <1>8
  <2>2. \A s \in Trackers : record[m][s].last >= record[m][s].last
    BY <1>6
  <2> QED  BY <1>3, <2>1, <2>2
<1> QED  BY <1>7, <1>8

-----------------------------------------------------------------------------
(* The calls: sound after every step.                                      *)

WorkTyped ==
    /\ work \in [Calls -> Work \cup {None}]
    /\ \A o \in Calls : WorkSound(work[o])

LEMMA WorkBecomes ==
  ASSUME Tracked, NEW o \in Calls, NEW w \in Work \cup {None}, WorkSound(w), Becomes(o, w)
  PROVE  WorkTyped'
<1>1. work' = [work EXCEPT ![o] = w] /\ work \in [Calls -> Work \cup {None}]
  BY DEF Becomes, Tracked, TypeOK
<1>2. \A p \in Calls : work'[p] = IF p = o THEN w ELSE work[p]
  BY <1>1
<1>3. \A p \in Calls : WorkSound(work'[p])
  BY <1>2 DEF Tracked
<1> QED  BY <1>1, <1>3 DEF WorkTyped, WorkSound

LEMMA NothingTyped ==
  /\ None \in Work \cup {None} /\ WorkSound(None)
  /\ 0 \in Progress
  /\ Nothing \in [Titles -> Progress]
  /\ NoRecord \in Record
  /\ NobodyBehind \in [Trackers -> Titles \cup {None}]
BY TrackerAssumption DEF WorkSound, Progress, Nothing, NoRecord, Record, NobodyBehind

LEMMA ReadsAreProgress == Reads \subseteq Progress
BY TrackerAssumption DEF Progress

LEMMA NewReportTyped ==
  ASSUME Tracked, NEW m \in Manga, NEW chapter \in Progress
  PROVE  NewReport(m, chapter) \in Work /\ NewReport(m, chapter).kind = "report"
<1>1. \A t \in Trackers : record[m][t].title \in Titles \cup {None}
  BY DEF Tracked, TypeOK, Record, NoRecord
<1>2. [t \in Trackers |-> IF record[m][t].last < chapter THEN record[m][t].title ELSE None]
        \in [Trackers -> Titles \cup {None}]
  BY <1>1
<1> QED  BY <1>2, NothingTyped, TrackerAssumption DEF NewReport, Work, Credential

LEMMA WorkReport ==
  ASSUME Tracked, NEW o \in Calls, NEW m \in Manga, NEW chapter \in Progress,
         Report(o, m, chapter)
  PROVE  WorkTyped'
<1> DEFINE next == NextReport(NewReport(m, chapter))
<1>1. next \in Work \cup {None} /\ WorkSound(next)
  BY NewReportTyped, NextReportTyped
<1>2. Becomes(o, next)
  BY DEF Report
<1> HIDE DEF next
<1> QED  BY <1>1, <1>2, WorkBecomes

LEMMA WorkReporting ==
  ASSUME Tracked, NEW o \in Calls, Waits(o, "sending") \/ Waits(o, "sent")
  PROVE  /\ Becomes(o, NextReport(work[o])) => WorkTyped'
         /\ Becomes(o, [work[o] EXCEPT !.at = "sent"]) => WorkTyped'
<1>1. work[o] \in Work /\ WorkSound(work[o]) /\ work[o].kind = "report"
  BY DEF Waits, Free, Tracked, TypeOK, WorkSound
<1>2. ASSUME Becomes(o, NextReport(work[o])) PROVE WorkTyped'
  <2>1. NextReport(work[o]) \in Work \cup {None} /\ WorkSound(NextReport(work[o]))
    BY <1>1, NextReportTyped
  <2> QED  BY <1>2, <2>1, WorkBecomes
<1>3. ASSUME Becomes(o, [work[o] EXCEPT !.at = "sent"]) PROVE WorkTyped'
  <2> DEFINE w == [work[o] EXCEPT !.at = "sent"]
  <2>1. w \in Work /\ w.account = work[o].account /\ w.title = work[o].title /\ w.kind = work[o].kind
    BY <1>1 DEF Work
  <2>2. WorkSound(w)
    BY <1>1, <2>1 DEF WorkSound, Waits, Free
  <2> HIDE DEF w
  <2>3. Becomes(o, w)
    BY <1>3 DEF w
  <2> QED  BY <2>1, <2>2, <2>3, WorkBecomes
<1> QED  BY <1>2, <1>3

LEMMA WorkAsk ==
  ASSUME Tracked, NEW o \in Calls, NEW t \in Trackers,
         NEW kind, NEW m \in Manga \cup {None}, NEW title,
         \/ kind = "fetch" /\ title \in Titles
         \/ kind = "import" /\ title = None,
         Ask(o, kind, m, title, t)
  PROVE  WorkTyped'
<1> DEFINE w == [kind |-> kind, at |-> "asking", manga |-> m, title |-> title, chapter |-> 0,
                 behind |-> NobodyBehind, tracker |-> t, account |-> credential[t],
                 answer |-> Nothing]
<1>1. credential[t] \in Accounts
  BY DEF Ask, SignedIn, Tracked, TypeOK, Credential
<1>2. w \in Work
  BY <1>1, NothingTyped DEF Work, Credential
<1>3. WorkSound(w)
  BY <1>1 DEF WorkSound
<1>4. Becomes(o, w)
  BY DEF Ask
<1> HIDE DEF w
<1> QED  BY <1>2, <1>3, <1>4, WorkBecomes

LEMMA WorkServed ==
  ASSUME Tracked, NEW o \in Calls, Served(o)
  PROVE  WorkTyped'
<1> DEFINE w == work[o]
           listed == list[w.tracker][w.account]
<1>1. w \in Work /\ WorkSound(w) /\ w # None
  BY DEF Served, Waits, Free, Tracked, TypeOK
<1>2. listed \in [Titles -> Progress]
  BY <1>1 DEF Tracked, TypeOK, Work, WorkSound
<1>3. PICK answer \in {listed} \cup IF w.kind = "fetch" THEN {Nothing} ELSE {} :
        Becomes(o, [w EXCEPT !.at = "answered", !.answer = answer])
  BY DEF Served
<1> DEFINE next == [w EXCEPT !.at = "answered", !.answer = answer]
<1>4. answer \in [Titles -> Progress]
  BY <1>2, <1>3, NothingTyped
<1> HIDE DEF w, listed
<1>5. /\ next \in Work /\ next.at = "answered"
      /\ next.account = w.account /\ next.title = w.title /\ next.kind = w.kind
  BY <1>1, <1>4 DEF Work
<1>6. WorkSound(next)
  BY <1>1, <1>5 DEF WorkSound
<1>7. Becomes(o, next)
  BY <1>3 DEF w
<1> HIDE DEF next
<1> QED  BY <1>5, <1>6, <1>7, WorkBecomes

LEMMA RowsStored ==
  ASSUME Tracked, NEW o \in Calls, Stored(o)
  PROVE  RowsMove
<1> DEFINE w == work[o]
           t == w.tracker
<1>1. w \in Work
  BY DEF Stored, Waits, Free, Tracked, TypeOK
<1>2. t \in Trackers /\ w.answer \in [Titles -> Progress]
  BY <1>1 DEF Work
<1>3. PICK unread \in SUBSET Titles :
        record' = [m \in Manga |->
            IF Target(w, m, unread) = {} THEN record[m]
            ELSE LET title == CHOOSE x \in Target(w, m, unread) : TRUE
                 IN  [record[m] EXCEPT ![t] = Upsert(record[m][t], title, w.answer[title])]]
  BY DEF Stored
<1> HIDE DEF w, t
<1>4. \A m \in Manga : Target(w, m, unread) \in SUBSET Titles
  BY DEF Target
<1>5. \A m \in Manga :
        \/ record'[m] = record[m]
        \/ \E title \in Titles, last \in Progress :
              record'[m] = [record[m] EXCEPT ![t] = Upsert(record[m][t], title, last)]
  <2> TAKE m \in Manga
  <2>1. CASE Target(w, m, unread) = {}
    BY <1>3, <2>1
  <2>2. CASE Target(w, m, unread) # {}
    <3> DEFINE title == CHOOSE x \in Target(w, m, unread) : TRUE
    <3>1. title \in Titles
      BY <1>4, <2>2
    <3>2. record'[m] = [record[m] EXCEPT ![t] = Upsert(record[m][t], title, w.answer[title])]
      BY <1>3, <2>2
    <3> HIDE DEF title
    <3>3. w.answer[title] \in Progress
      BY <1>2, <3>1
    <3> QED  BY <3>1, <3>2, <3>3
  <2> QED  BY <2>1, <2>2
<1>6. record' \in [Manga -> [Trackers -> Record]]
  <2>1. \A m \in Manga : record'[m] \in [Trackers -> Record]
    <3> TAKE m \in Manga
    <3>1. record[m] \in [Trackers -> Record]
      BY DEF Tracked, TypeOK
    <3>2. record[m][t] \in Record
      BY <1>2, <3>1
    <3>3. ASSUME NEW title \in Titles, NEW last \in Progress
          PROVE  [record[m] EXCEPT ![t] = Upsert(record[m][t], title, last)]
                    \in [Trackers -> Record]
      <4>1. Upsert(record[m][t], title, last) \in Record
        BY <3>2, UpsertTyped
      <4> QED  BY <3>1, <4>1
    <3>4. CASE record'[m] = record[m]
      BY <3>1, <3>4
    <3>5. ASSUME NEW title \in Titles, NEW last \in Progress,
                 record'[m] = [record[m] EXCEPT ![t] = Upsert(record[m][t], title, last)]
          PROVE  record'[m] \in [Trackers -> Record]
      BY <3>3, <3>5
    <3> QED  BY <1>5, <3>4, <3>5
  <2>2. DOMAIN record' = Manga /\ record' = [m \in Manga |-> record'[m]]
    BY <1>3
  <2> QED  BY <2>1, <2>2
<1> QED  BY <1>2, <1>5, <1>6, RowsUpserted

LEMMA RowsBound ==
  ASSUME Tracked, NEW source \in Manga, NEW target \in Manga, NEW t \in Trackers,
         BindExisting(source, target, t)
  PROVE  RowsMove
<1>1. record[source][t] \in [title : Titles, last : Progress]
  BY DEF BindExisting, Tracked, TypeOK, Record
<1> DEFINE row == Upsert(record[target][t], record[source][t].title, record[source][t].last)
<1>2. record' = [record EXCEPT ![target] = [record[target] EXCEPT ![t] = row]]
  BY DEF BindExisting
<1>3. row \in Record
  BY <1>1, UpsertTyped DEF Tracked, TypeOK
<1>4. \A m \in Manga :
        record'[m] = IF m = target THEN [record[m] EXCEPT ![t] = row] ELSE record[m]
  BY <1>2 DEF Tracked, TypeOK
<1>5. record' \in [Manga -> [Trackers -> Record]]
  <2> HIDE DEF row
  <2> QED  BY <1>2, <1>3 DEF Tracked, TypeOK
<1>6. \A m \in Manga :
        \/ record'[m] = record[m]
        \/ \E title \in Titles, last \in Progress :
              record'[m] = [record[m] EXCEPT ![t] = Upsert(record[m][t], title, last)]
  <2> TAKE m \in Manga
  <2>1. CASE m # target
    BY <1>4, <2>1
  <2>2. CASE m = target
    <3>1. record[source][t].title \in Titles /\ record[source][t].last \in Progress
      BY <1>1
    <3> QED  BY <1>4, <2>2, <3>1
  <2> QED  BY <2>1, <2>2
<1> QED  BY <1>5, <1>6, RowsUpserted

LEMMA RowsUnbound ==
  ASSUME Tracked, NEW m \in Manga, NEW t \in Trackers, Unbind(m, t)
  PROVE  RowsMove
<1>1. record' = [record EXCEPT ![m] = [record[m] EXCEPT ![t] = NoRecord]]
  BY DEF Unbind
<1>2. record' \in [Manga -> [Trackers -> Record]]
  BY <1>1, NothingTyped DEF Tracked, TypeOK
<1>3. SUFFICES ASSUME NEW n \in Manga, NEW s \in Trackers, record'[n][s] # NoRecord
               PROVE  record'[n][s].last >= record[n][s].last
  BY <1>2 DEF RowsMove
<1>4. record'[n][s] = record[n][s]
  BY <1>1, <1>3 DEF Tracked, TypeOK
<1>5. record[n][s].last \in Nat
  BY TrackerAssumption DEF Tracked, TypeOK, Record, NoRecord, Progress
<1>6. record[n][s].last >= record[n][s].last
  BY <1>5
<1> QED  BY <1>4, <1>6

(* What the services and the sign-ins hold.                                *)
RemoteTyped ==
    /\ credential \in [Trackers -> Credential]
    /\ list \in [Trackers -> [Accounts -> [Titles -> Progress]]]
    /\ peak \in [Trackers -> [Titles -> Progress]]
    /\ dropped \in [Trackers -> [Titles -> SUBSET Progress]]

LEMMA RemoteStays ==
  ASSUME Tracked, UNCHANGED <<credential, list, peak, dropped>>
  PROVE  RemoteTyped'
BY DEF Tracked, TypeOK, RemoteTyped

LEMMA RemoteMoves ==
  ASSUME Tracked, NEW t \in Trackers, NEW a \in Accounts, NEW title \in Titles,
         NEW chapter \in Progress, UNCHANGED <<credential, dropped>>,
         list' = [list EXCEPT ![t][a][title] = chapter],
         peak' = [peak EXCEPT ![t][title] = Larger(peak[t][title], chapter)]
  PROVE  RemoteTyped'
<1>1. list' \in [Trackers -> [Accounts -> [Titles -> Progress]]]
  BY DEF Tracked, TypeOK
<1>2. Larger(peak[t][title], chapter) \in Progress
  BY LargerTyped DEF Tracked, TypeOK
<1>3. peak' \in [Trackers -> [Titles -> Progress]]
  BY <1>2 DEF Tracked, TypeOK
<1> QED  BY <1>1, <1>3 DEF RemoteTyped, Tracked, TypeOK

-----------------------------------------------------------------------------
(* One step of anything.                                                   *)

LEMMA TrackedIsItsParts == Tracked' <=> record' \in [Manga -> [Trackers -> Record]]
                                        /\ RemoteTyped' /\ WorkTyped'
BY DEF Tracked, TypeOK, RemoteTyped, WorkTyped

LEMMA AskingStep ==
  ASSUME Tracked, NEW o \in Calls, Calling(o) \/ Asking(o)
  PROVE  RowsMove /\ RemoteTyped' /\ WorkTyped'
<1>1. ASSUME NEW m \in Manga, NEW chapter \in Reads, Report(o, m, chapter)
      PROVE  RowsMove /\ RemoteTyped' /\ WorkTyped'
  <2>1. UNCHANGED <<record, credential, list, peak, dropped>>
    BY <1>1 DEF Report
  <2>2. chapter \in Progress
    BY ReadsAreProgress
  <2> QED  BY <1>1, <2>1, <2>2, RowsStay, RemoteStays, WorkReport
<1>2. ASSUME NEW t \in Trackers, NEW kind, NEW m \in Manga \cup {None}, NEW title,
             \/ kind = "fetch" /\ title \in Titles
             \/ kind = "import" /\ title = None,
             Ask(o, kind, m, title, t)
      PROVE  RowsMove /\ RemoteTyped' /\ WorkTyped'
  <2>1. UNCHANGED <<record, credential, list, peak, dropped>>
    BY <1>2 DEF Ask
  <2>2. WorkTyped'
    BY <1>2, WorkAsk
  <2> QED  BY <2>1, <2>2, RowsStay, RemoteStays
<1>3. ASSUME NEW pair \in Pairs, NEW title \in Titles, Bind(o, pair[1], pair[2], title)
      PROVE  RowsMove /\ RemoteTyped' /\ WorkTyped'
  <2>1. pair[1] \in Manga /\ pair[2] \in Trackers
    BY TrackerAssumption
  <2>2. Ask(o, "fetch", pair[1], title, pair[2])
    BY <1>3 DEF Bind
  <2> QED  BY <1>2, <2>1, <2>2
<1>4. ASSUME NEW pair \in Pairs, Refresh(o, pair[1], pair[2])
      PROVE  RowsMove /\ RemoteTyped' /\ WorkTyped'
  <2>1. pair[1] \in Manga /\ pair[2] \in Trackers
    BY TrackerAssumption
  <2>2. record[pair[1]][pair[2]].title \in Titles
    BY <1>4, <2>1 DEF Refresh, Tracked, TypeOK, Record
  <2>3. Ask(o, "fetch", pair[1], record[pair[1]][pair[2]].title, pair[2])
    BY <1>4 DEF Refresh
  <2> QED  BY <1>2, <2>1, <2>2, <2>3
<1>5. ASSUME ImportLibrary(o) PROVE RowsMove /\ RemoteTyped' /\ WorkTyped'
  <2>1. Ask(o, "import", None, None, Importer)
    BY <1>5 DEF ImportLibrary
  <2> QED  BY <1>2, <2>1, TrackerAssumption
<1>6. ASSUME Served(o) PROVE RowsMove /\ RemoteTyped' /\ WorkTyped'
  <2>1. UNCHANGED <<record, credential, list, peak, dropped>>
    BY <1>6 DEF Served
  <2> QED  BY <1>6, <2>1, RowsStay, RemoteStays, WorkServed
<1>7. ASSUME Becomes(o, None) PROVE WorkTyped'
  BY <1>7, NothingTyped, WorkBecomes
<1>8. ASSUME Stored(o) PROVE RowsMove /\ RemoteTyped' /\ WorkTyped'
  <2>1. UNCHANGED <<credential, list, peak, dropped>> /\ Becomes(o, None)
    BY <1>8 DEF Stored
  <2> QED  BY <1>7, <1>8, <2>1, RowsStored, RemoteStays
<1>9. ASSUME AskingFails(o) PROVE RowsMove /\ RemoteTyped' /\ WorkTyped'
  <2>1. UNCHANGED <<record, credential, list, peak, dropped>> /\ Becomes(o, None)
    BY <1>9 DEF AskingFails
  <2> QED  BY <1>7, <2>1, RowsStay, RemoteStays
<1> QED  BY <1>1, <1>3, <1>4, <1>5, <1>6, <1>8, <1>9 DEF Calling, Asking

LEMMA ReportingStep ==
  ASSUME Tracked, NEW o \in Calls, Reporting(o)
  PROVE  RowsMove /\ RemoteTyped' /\ WorkTyped'
<1>1. ASSUME Deliver(o) PROVE RowsMove /\ RemoteTyped' /\ WorkTyped'
  <2> DEFINE w == work[o]
  <2>1. Waits(o, "sending") /\ w \in Work /\ WorkSound(w)
        /\ w # None /\ w.at = "sending"
    BY <1>1 DEF Deliver, Waits, Free, Tracked, TypeOK
  <2>2. w.tracker \in Trackers /\ w.chapter \in Progress /\ Whole(w.chapter) \in Progress
    BY <2>1, WholeTyped DEF Work
  <2>3. w.account \in Accounts /\ w.title \in Titles
    BY <2>1 DEF WorkSound
  <2>4. /\ UNCHANGED <<record, credential, dropped>>
        /\ list' = [list EXCEPT ![w.tracker][w.account][w.title] = Whole(w.chapter)]
        /\ peak' = [peak EXCEPT ![w.tracker][w.title] =
                        Larger(peak[w.tracker][w.title], Whole(w.chapter))]
        /\ Becomes(o, [w EXCEPT !.at = "sent"])
    BY <1>1 DEF Deliver
  <2>5. WorkTyped'
    BY <2>1, <2>4, WorkReporting
  <2> HIDE DEF w
  <2>6. RemoteTyped'
    BY <2>2, <2>3, <2>4, RemoteMoves
  <2> QED  BY <2>4, <2>5, <2>6, RowsStay
<1>2. ASSUME Reported(o) PROVE RowsMove /\ RemoteTyped' /\ WorkTyped'
  <2>1. /\ Waits(o, "sent") /\ record' = Moved(work[o])
        /\ Becomes(o, NextReport(work[o])) /\ UNCHANGED <<credential, list, peak, dropped>>
    BY <1>2 DEF Reported
  <2> QED  BY <2>1, RowsMoved, RemoteStays, WorkReporting
<1>3. ASSUME ReportFails(o) PROVE RowsMove /\ RemoteTyped' /\ WorkTyped'
  <2>1. /\ Waits(o, "sending") \/ Waits(o, "sent")
        /\ Becomes(o, NextReport(work[o])) /\ UNCHANGED <<record, credential, list, peak, dropped>>
    BY <1>3 DEF ReportFails
  <2> QED  BY <2>1, RowsStay, RemoteStays, WorkReporting
<1>4. ASSUME Drop(o) PROVE RowsMove /\ RemoteTyped' /\ WorkTyped'
  <2> DEFINE w == work[o]
  <2>1. Waits(o, "sending") /\ w \in Work /\ WorkSound(w) /\ w # None /\ w.at = "sending"
    BY <1>4 DEF Drop, Waits, Free, Tracked, TypeOK
  <2>2. w.tracker \in Trackers /\ w.chapter \in Progress /\ w.title \in Titles
    BY <2>1 DEF Work, WorkSound
  <2>3. /\ UNCHANGED <<record, credential, list, peak>>
        /\ dropped' = [dropped EXCEPT ![w.tracker][w.title] = @ \cup {w.chapter}]
        /\ Becomes(o, [w EXCEPT !.at = "sent"])
    BY <1>4 DEF Drop
  <2>4. WorkTyped'
    BY <2>1, <2>3, WorkReporting
  <2> HIDE DEF w
  <2>5. RemoteTyped'
    BY <2>2, <2>3 DEF RemoteTyped, Tracked, TypeOK
  <2> QED  BY <2>3, <2>4, <2>5, RowsStay
<1> QED  BY <1>1, <1>2, <1>3, <1>4 DEF Reporting

LEMMA TrackedStep ==
  ASSUME Tracked, [Next]_vars
  PROVE  RowsMove /\ RemoteTyped' /\ WorkTyped'
<1>1. ASSUME UNCHANGED work PROVE WorkTyped'
  BY <1>1 DEF Tracked, TypeOK, WorkTyped, WorkSound
<1>2. CASE UNCHANGED vars
  <2>1. UNCHANGED record /\ UNCHANGED work /\ UNCHANGED <<credential, list, peak, dropped>>
    BY <1>2 DEF vars
  <2> QED  BY <1>1, <2>1, RowsStay, RemoteStays
<1>3. ASSUME NEW source \in Manga, NEW pair \in Pairs, BindExisting(source, pair[1], pair[2])
      PROVE  RowsMove /\ RemoteTyped' /\ WorkTyped'
  <2>1. pair[1] \in Manga /\ pair[2] \in Trackers
    BY TrackerAssumption
  <2>2. UNCHANGED work /\ UNCHANGED <<credential, list, peak, dropped>>
    BY <1>3 DEF BindExisting
  <2> QED  BY <1>1, <1>3, <2>1, <2>2, RowsBound, RemoteStays
<1>4. ASSUME NEW pair \in Pairs, Unbind(pair[1], pair[2])
      PROVE  RowsMove /\ RemoteTyped' /\ WorkTyped'
  <2>1. pair[1] \in Manga /\ pair[2] \in Trackers
    BY TrackerAssumption
  <2>2. UNCHANGED work /\ UNCHANGED <<credential, list, peak, dropped>>
    BY <1>4 DEF Unbind
  <2> QED  BY <1>1, <1>4, <2>1, <2>2, RowsUnbound, RemoteStays
<1>5. ASSUME NEW t \in Trackers, NEW a \in Accounts, Login(t, a)
      PROVE  RowsMove /\ RemoteTyped' /\ WorkTyped'
  <2>1. UNCHANGED record /\ UNCHANGED work
    BY <1>5 DEF Login
  <2>2. RemoteTyped'
    BY <1>5 DEF Login, RemoteTyped, Tracked, TypeOK, Credential
  <2> QED  BY <1>1, <2>1, <2>2, RowsStay
<1>6. ASSUME NEW t \in Trackers, Logout(t)
      PROVE  RowsMove /\ RemoteTyped' /\ WorkTyped'
  <2>1. UNCHANGED record /\ UNCHANGED work
    BY <1>6 DEF Logout
  <2>2. RemoteTyped'
    BY <1>6 DEF Logout, RemoteTyped, Tracked, TypeOK, Credential
  <2> QED  BY <1>1, <2>1, <2>2, RowsStay
<1>7. ASSUME NEW t \in Trackers, NEW a \in Accounts, NEW title \in Titles,
             ReadElsewhere(t, a, title)
      PROVE  RowsMove /\ RemoteTyped' /\ WorkTyped'
  <2>1. PICK chapter \in Progress :
            /\ list' = [list EXCEPT ![t][a][title] = chapter]
            /\ peak' = [peak EXCEPT ![t][title] = Larger(peak[t][title], chapter)]
            /\ UNCHANGED <<record, credential, dropped, work>>
    BY <1>7 DEF ReadElsewhere
  <2> QED  BY <1>1, <2>1, RowsStay, RemoteMoves
<1> QED
  BY <1>2, <1>3, <1>4, <1>5, <1>6, <1>7, AskingStep, ReportingStep DEF Next

LEMMA TrackedInit == Init => Tracked
BY NothingTyped, TrackerAssumption DEF Init, Tracked, TypeOK, WorkSound, Credential

LEMMA TrackedNext == Tracked /\ [Next]_vars => Tracked'
BY TrackedStep, TrackedIsItsParts DEF RowsMove

(* In every execution the variables keep their types, and a call that waits*)
(* holds the account and the title it needs when it goes on.               *)
THEOREM TrackingTypeCorrect == Spec => []TypeOK
<1>1. Tracked => TypeOK
  BY DEF Tracked
<1> QED  BY <1>1, TrackedInit, TrackedNext, PTL DEF Spec

(* A record's progress never goes down while the record lives, however many*)
(* calls overlap and in whatever order their answers arrive.               *)
THEOREM LocalProgressGrows == Spec => LocalNeverDown
<1>1. Tracked /\ [Next]_vars =>
        [\A m \in Manga, t \in Trackers :
            record'[m][t] # NoRecord => record'[m][t].last >= record[m][t].last]_vars
  BY TrackedStep DEF RowsMove
<1> QED  BY <1>1, TrackedInit, TrackedNext, PTL DEF Spec, LocalNeverDown

-----------------------------------------------------------------------------
(* Under which account a report goes out.                                  *)

SentUnderLive ==
    \A o \in Calls :
        Waits(o, "sending")' /\ work'[o] # work[o]
            => work'[o].account = credential[work'[o].tracker]

LEMMA LiveBecomes ==
  ASSUME Tracked, NEW o \in Calls, NEW w, Becomes(o, w),
         \/ w = None
         \/ w.at # "sending"
         \/ w.account = credential[w.tracker]
  PROVE  SentUnderLive
<1>1. \A p \in Calls : work'[p] = IF p = o THEN w ELSE work[p]
  BY DEF Becomes, Tracked, TypeOK
<1> QED  BY <1>1 DEF SentUnderLive, Waits, Free

LEMMA LiveReporting ==
  ASSUME Tracked, NEW o \in Calls, Reporting(o)
  PROVE  SentUnderLive
<1>1. work[o] \in Work /\ work[o].kind = "report"
  BY DEF Reporting, Deliver, Drop, Reported, ReportFails, Waits, Free, Tracked, TypeOK, WorkSound
<1>2. CASE Deliver(o) \/ Drop(o)
  <2> DEFINE w == [work[o] EXCEPT !.at = "sent"]
  <2>1. Becomes(o, w)
    BY <1>2 DEF Deliver, Drop
  <2>2. w.at # "sending"
    BY <1>1 DEF Work
  <2> HIDE DEF w
  <2> QED  BY <2>1, <2>2, LiveBecomes
<1>3. CASE Reported(o) \/ ReportFails(o)
  <2>1. Becomes(o, NextReport(work[o]))
    BY <1>3 DEF Reported, ReportFails
  <2>2. NextReport(work[o]) # None
            => NextReport(work[o]).account = credential[NextReport(work[o]).tracker]
    BY <1>1, NextReportTyped
  <2> QED  BY <2>1, <2>2, LiveBecomes
<1> QED  BY <1>2, <1>3 DEF Reporting

LEMMA LiveAsking ==
  ASSUME Tracked, NEW o \in Calls, Asking(o)
  PROVE  SentUnderLive
<1>1. CASE Stored(o) \/ AskingFails(o)
  <2>1. Becomes(o, None)
    BY <1>1 DEF Stored, AskingFails
  <2> QED  BY <2>1, LiveBecomes
<1>2. CASE Served(o)
  <2>1. work[o] \in Work
    BY <1>2 DEF Served, Waits, Free, Tracked, TypeOK
  <2>2. PICK answer : Becomes(o, [work[o] EXCEPT !.at = "answered", !.answer = answer])
    BY <1>2 DEF Served
  <2> DEFINE w == [work[o] EXCEPT !.at = "answered", !.answer = answer]
  <2>3. w.at # "sending"
    BY <2>1 DEF Work
  <2> HIDE DEF w
  <2>4. Becomes(o, w)
    BY <2>2 DEF w
  <2> QED  BY <2>3, <2>4, LiveBecomes
<1> QED  BY <1>1, <1>2 DEF Asking

LEMMA LiveCalling ==
  ASSUME Tracked, NEW o \in Calls, Calling(o)
  PROVE  SentUnderLive
<1>1. ASSUME NEW kind, NEW m, NEW title, NEW t, Ask(o, kind, m, title, t)
      PROVE  SentUnderLive
  <2> DEFINE w == [kind |-> kind, at |-> "asking", manga |-> m, title |-> title, chapter |-> 0,
                   behind |-> NobodyBehind, tracker |-> t, account |-> credential[t],
                   answer |-> Nothing]
  <2>1. Becomes(o, w)
    BY <1>1 DEF Ask
  <2>2. w.at # "sending"
    OBVIOUS
  <2> HIDE DEF w
  <2> QED  BY <2>1, <2>2, LiveBecomes
<1>2. ASSUME NEW m \in Manga, NEW chapter \in Reads, Report(o, m, chapter)
      PROVE  SentUnderLive
  <2> DEFINE next == NextReport(NewReport(m, chapter))
  <2>1. next # None => next.account = credential[next.tracker]
    BY ReadsAreProgress, NewReportTyped, NextReportTyped
  <2>2. Becomes(o, next)
    BY <1>2 DEF Report
  <2> HIDE DEF next
  <2> QED  BY <2>1, <2>2, LiveBecomes
<1> QED  BY <1>1, <1>2 DEF Calling, Bind, Refresh, ImportLibrary

(* A report goes out under the account signed in at the moment it is sent: *)
(* the loop over the services never carries one it read earlier.           *)
THEOREM ReportsFollowSignIns == Spec => ReportsUseLiveCredential
<1>1. UNCHANGED work => SentUnderLive
  BY DEF SentUnderLive
<1>2. Tracked /\ [Next]_vars => [SentUnderLive]_vars
  BY <1>1, LiveReporting, LiveAsking, LiveCalling
     DEF Next, BindExisting, Unbind, Login, Logout, ReadElsewhere
<1>3. ReportsUseLiveCredential <=> [][SentUnderLive]_vars
  BY DEF ReportsUseLiveCredential, SentUnderLive
<1> QED  BY <1>2, <1>3, TrackedInit, TrackedNext, PTL DEF Spec

-----------------------------------------------------------------------------
(* What is shown here was once there.  A number is known when some title   *)
(* of the service has reached its whole chapter, or was dropped with that  *)
(* very number; an invariant says so of the rows, bounds by the peaks what *)
(* the services hold and what calls bring back, and keeps to the lenient   *)
(* services what was dropped.                                              *)

Peaks == [Trackers -> [Titles -> Progress]]

Drops == [Trackers -> [Titles -> SUBSET Progress]]

KnownAs(t, n, title, pk, dr) ==
    \/ Whole(n) <= pk[t][title]
    \/ n \in dr[t][title]

Known(t, n, pk, dr) == n > 0 => \E title \in Titles : KnownAs(t, n, title, pk, dr)

AnswerKnown(w, pk, dr) ==
    w # None =>
        /\ w.at = "sent" => KnownAs(w.tracker, w.chapter, w.title, pk, dr)
        /\ w.at = "answered" => \A title \in Titles : w.answer[title] <= pk[w.tracker][title]

ListKnown(l, pk) ==
    \A t \in Trackers, a \in Accounts, title \in Titles : l[t][a][title] <= pk[t][title]

Grows(pk, qk) == \A t \in Trackers, title \in Titles : pk[t][title] <= qk[t][title]

DropsGrow(dr, er) == \A t \in Trackers, title \in Titles : dr[t][title] \subseteq er[t][title]

DropsAreLenient(dr) == \A t \in Trackers \ Lenient, title \in Titles : dr[t][title] = {}

Seen ==
    /\ Tracked
    /\ \A m \in Manga, t \in Trackers : Known(t, record[m][t].last, peak, dropped)
    /\ ListKnown(list, peak)
    /\ DropsAreLenient(dropped)
    /\ \A o \in Calls : AnswerKnown(work[o], peak, dropped)

LEMMA ProgressIsNat == \A n \in Progress : n \in Nat
BY TrackerAssumption DEF Progress

LEMMA PeakIsNat == \A pk \in Peaks : \A t \in Trackers, title \in Titles : pk[t][title] \in Nat
BY ProgressIsNat DEF Peaks

LEMMA RowLast == \A row \in Record : row.last \in Progress
BY NothingTyped DEF Record, NoRecord

LEMMA KnownAsGrows ==
  ASSUME NEW pk \in Peaks, NEW qk \in Peaks, Grows(pk, qk), NEW dr, NEW er, DropsGrow(dr, er),
         NEW t \in Trackers, NEW title \in Titles, NEW n \in Progress,
         KnownAs(t, n, title, pk, dr)
  PROVE  KnownAs(t, n, title, qk, er)
<1>1. CASE n \in dr[t][title]
  BY <1>1 DEF KnownAs, DropsGrow
<1>2. CASE Whole(n) <= pk[t][title]
  <2>1. Whole(n) \in Nat /\ pk[t][title] \in Nat /\ qk[t][title] \in Nat
    BY WholeTyped, ProgressIsNat, PeakIsNat
  <2>2. pk[t][title] <= qk[t][title]
    BY DEF Grows
  <2>3. Whole(n) <= qk[t][title]
    BY <1>2, <2>1, <2>2
  <2> QED  BY <2>3 DEF KnownAs
<1> QED  BY <1>1, <1>2 DEF KnownAs

LEMMA KnownGrows ==
  ASSUME NEW pk \in Peaks, NEW qk \in Peaks, Grows(pk, qk), NEW dr, NEW er, DropsGrow(dr, er),
         NEW t \in Trackers, NEW n \in Progress, Known(t, n, pk, dr)
  PROVE  Known(t, n, qk, er)
BY KnownAsGrows DEF Known

LEMMA AnswerGrows ==
  ASSUME NEW pk \in Peaks, NEW qk \in Peaks, Grows(pk, qk), NEW dr, NEW er, DropsGrow(dr, er),
         NEW w \in Work \cup {None}, WorkSound(w), AnswerKnown(w, pk, dr)
  PROVE  AnswerKnown(w, qk, er)
<1>1. SUFFICES ASSUME w # None, w \in Work PROVE AnswerKnown(w, qk, er)
  BY DEF AnswerKnown
<1>2. w.tracker \in Trackers /\ w.chapter \in Progress /\ \A x \in Titles : w.answer[x] \in Nat
  BY <1>1, ProgressIsNat DEF Work
<1>3. \A x \in Titles : /\ pk[w.tracker][x] \in Nat /\ qk[w.tracker][x] \in Nat
                         /\ pk[w.tracker][x] <= qk[w.tracker][x]
  BY <1>2, PeakIsNat DEF Grows
<1>4. ASSUME w.at = "sent" PROVE KnownAs(w.tracker, w.chapter, w.title, qk, er)
  <2>1. w.title \in Titles
    BY <1>1, <1>4 DEF WorkSound
  <2>2. KnownAs(w.tracker, w.chapter, w.title, pk, dr)
    BY <1>1, <1>4 DEF AnswerKnown
  <2> QED  BY <1>2, <2>1, <2>2, KnownAsGrows
<1>5. ASSUME w.at = "answered", NEW x \in Titles
      PROVE  w.answer[x] <= qk[w.tracker][x]
  <2>1. w.answer[x] <= pk[w.tracker][x]
    BY <1>1, <1>5 DEF AnswerKnown
  <2> QED  BY <1>2, <1>3, <2>1
<1> QED  BY <1>4, <1>5 DEF AnswerKnown

(* A step that leaves the services alone and writes known numbers only.    *)
LEMMA SeenHere ==
  ASSUME Seen, Tracked', UNCHANGED <<list, peak, dropped>>,
         \A m \in Manga, t \in Trackers :
            \/ record'[m][t].last = record[m][t].last
            \/ Known(t, record'[m][t].last, peak, dropped),
         \A o \in Calls : work'[o] = work[o] \/ AnswerKnown(work'[o], peak, dropped)
  PROVE  Seen'
BY DEF Seen

(* A step at a service: rows and the other calls stay.                     *)
LEMMA SeenThere ==
  ASSUME Seen, Tracked', UNCHANGED record, Grows(peak, peak'), ListKnown(list', peak'),
         DropsGrow(dropped, dropped'), DropsAreLenient(dropped'),
         \A o \in Calls : work'[o] = work[o] \/ AnswerKnown(work'[o], peak', dropped')
  PROVE  Seen'
<1>1. peak \in Peaks /\ peak' \in Peaks
  BY DEF Seen, Tracked, TypeOK, Peaks
<1>2. ASSUME NEW m \in Manga, NEW t \in Trackers
      PROVE  Known(t, record'[m][t].last, peak', dropped')
  <2>1. record[m][t].last \in Progress /\ Known(t, record[m][t].last, peak, dropped)
    BY RowLast DEF Seen, Tracked, TypeOK
  <2>2. Known(t, record[m][t].last, peak', dropped')
    BY <1>1, <2>1, KnownGrows
  <2> QED  BY <2>2
<1>3. ASSUME NEW o \in Calls PROVE AnswerKnown(work'[o], peak', dropped')
  <2>1. work[o] \in Work \cup {None} /\ WorkSound(work[o]) /\ AnswerKnown(work[o], peak, dropped)
    BY DEF Seen, Tracked, TypeOK
  <2>2. AnswerKnown(work[o], peak', dropped')
    BY <1>1, <2>1, AnswerGrows
  <2> QED  BY <2>2
<1> QED  BY <1>2, <1>3 DEF Seen

LEMMA DropsStay ==
  ASSUME Seen, UNCHANGED dropped
  PROVE  DropsGrow(dropped, dropped') /\ DropsAreLenient(dropped')
BY DEF Seen, DropsGrow, DropsAreLenient

LEMMA ServiceReached ==
  ASSUME Seen, NEW t \in Trackers, NEW a \in Accounts, NEW title \in Titles,
         NEW chapter \in Progress,
         list' = [list EXCEPT ![t][a][title] = chapter],
         peak' = [peak EXCEPT ![t][title] = Larger(peak[t][title], chapter)]
  PROVE  Grows(peak, peak') /\ ListKnown(list', peak') /\ chapter <= peak'[t][title]
<1>1. /\ list \in [Trackers -> [Accounts -> [Titles -> Progress]]]
      /\ peak \in [Trackers -> [Titles -> Progress]]
  BY DEF Seen, Tracked, TypeOK
<1> DEFINE top == Larger(peak[t][title], chapter)
<1>2. top \in Progress /\ top >= peak[t][title] /\ top >= chapter
  BY <1>1, LargerTyped
<1>3. \A s \in Trackers, x \in Titles :
        peak'[s][x] = IF s = t /\ x = title THEN top ELSE peak[s][x]
  BY <1>1
<1>4. \A s \in Trackers, b \in Accounts, x \in Titles :
        list'[s][b][x] = IF s = t /\ b = a /\ x = title THEN chapter ELSE list[s][b][x]
  BY <1>1
<1>5. top \in Nat /\ chapter \in Nat
  BY <1>2, ProgressIsNat
<1> HIDE DEF top
<1>6. ASSUME NEW s \in Trackers, NEW x \in Titles PROVE peak[s][x] <= peak'[s][x]
  <2>1. peak[s][x] \in Nat
    BY <1>1, ProgressIsNat
  <2> QED  BY <1>2, <1>3, <1>5, <2>1
<1>7. ASSUME NEW s \in Trackers, NEW b \in Accounts, NEW x \in Titles
      PROVE  list'[s][b][x] <= peak'[s][x]
  <2>1. peak[s][x] \in Nat /\ list[s][b][x] \in Nat
    BY <1>1, ProgressIsNat
  <2>2. list[s][b][x] <= peak[s][x]
    BY DEF Seen, ListKnown
  <2> QED  BY <1>2, <1>3, <1>4, <1>5, <2>1, <2>2
<1>8. chapter <= peak'[t][title]
  BY <1>2, <1>3, <1>5
<1> QED  BY <1>6, <1>7, <1>8 DEF Grows, ListKnown

(* The loop goes on: what it holds next has not been sent yet.             *)
LEMMA NextReportKnown ==
  ASSUME Tracked, NEW w \in Work, w.kind = "report"
  PROVE  AnswerKnown(NextReport(w), peak, dropped)
<1> DEFINE due == {t \in Trackers : w.behind[t] # None}
           first == CHOOSE t \in due : \A s \in due : t <= s
           sent == [w EXCEPT !.at = "sending", !.tracker = first, !.title = w.behind[first],
                             !.account = credential[first], !.behind[first] = None]
<1>1. NextReport(w) = None \/ NextReport(w) = sent
  BY DEF NextReport
<1>2. sent.at = "sending"
  BY DEF Work
<1> HIDE DEF sent
<1> QED  BY <1>1, <1>2 DEF AnswerKnown

(* Upserting a known number into a known row gives one of the two.         *)
LEMMA UpsertKnown ==
  ASSUME NEW row \in Record, NEW title \in Titles, NEW last \in Progress,
         NEW t \in Trackers, NEW pk \in Peaks, last <= pk[t][title], NEW dr
  PROVE  \/ Upsert(row, title, last).last = row.last
         \/ Known(t, Upsert(row, title, last).last, pk, dr)
<1>1. Upsert(row, title, last).last = Larger(last, row.last)
  BY DEF Upsert
<1>2. Larger(last, row.last) = last \/ Larger(last, row.last) = row.last
  BY DEF Larger
<1>3. Whole(last) \in Nat /\ Whole(last) <= last /\ last \in Nat /\ pk[t][title] \in Nat
  BY WholeTyped, ProgressIsNat, PeakIsNat
<1>4. Whole(last) <= pk[t][title]
  BY <1>3
<1> QED  BY <1>1, <1>2, <1>4 DEF Known, KnownAs

LEMMA SeenStored ==
  ASSUME Seen, Tracked', NEW o \in Calls, Stored(o)
  PROVE  Seen'
<1> DEFINE w == work[o]
           t == w.tracker
<1>0. Tracked /\ peak \in Peaks
  BY DEF Seen, Tracked, TypeOK, Peaks
<1>1. w \in Work /\ w # None /\ w.at = "answered" /\ AnswerKnown(w, peak, dropped)
  BY DEF Stored, Waits, Free, Seen, Tracked, TypeOK
<1>2. t \in Trackers /\ w.answer \in [Titles -> Progress]
  BY <1>1 DEF Work
<1>3. PICK unread \in SUBSET Titles :
        record' = [m \in Manga |->
            IF Target(w, m, unread) = {} THEN record[m]
            ELSE LET title == CHOOSE x \in Target(w, m, unread) : TRUE
                 IN  [record[m] EXCEPT ![t] = Upsert(record[m][t], title, w.answer[title])]]
  BY DEF Stored
<1>4. \A x \in Titles : w.answer[x] <= peak[t][x]
  BY <1>1 DEF AnswerKnown
<1>5. UNCHANGED <<list, peak, dropped>> /\ Becomes(o, None)
  BY DEF Stored
<1>6. \A p \in Calls : work'[p] = work[p] \/ AnswerKnown(work'[p], peak, dropped)
  BY <1>0, <1>5 DEF Becomes, AnswerKnown, Tracked, TypeOK
<1> HIDE DEF w, t
<1>7. ASSUME NEW m \in Manga, NEW s \in Trackers
      PROVE  record'[m][s].last = record[m][s].last \/ Known(s, record'[m][s].last, peak, dropped)
  <2>1. record[m] \in [Trackers -> Record] /\ record[m][t] \in Record
    BY <1>0, <1>2 DEF Tracked, TypeOK
  <2>2. CASE Target(w, m, unread) = {}
    BY <1>3, <2>2
  <2>3. CASE Target(w, m, unread) # {}
    <3> DEFINE title == CHOOSE x \in Target(w, m, unread) : TRUE
               row == Upsert(record[m][t], title, w.answer[title])
    <3>1. title \in Titles
      BY <2>3 DEF Target
    <3>2. record'[m] = [record[m] EXCEPT ![t] = row]
      BY <1>3, <2>3
    <3> HIDE DEF title
    <3>3. w.answer[title] \in Progress /\ w.answer[title] <= peak[t][title]
      BY <1>2, <1>4, <3>1
    <3>4. row.last = record[m][t].last \/ Known(t, row.last, peak, dropped)
      BY <1>0, <1>2, <2>1, <3>1, <3>3, UpsertKnown
    <3> HIDE DEF row
    <3> QED  BY <2>1, <3>2, <3>4
  <2> QED  BY <2>2, <2>3
<1> QED  BY <1>5, <1>6, <1>7, SeenHere

LEMMA WorkIs ==
  ASSUME Tracked, NEW o \in Calls, NEW w, Becomes(o, w)
  PROVE  /\ work'[o] = w
         /\ \A p \in Calls : p # o => work'[p] = work[p]
BY DEF Becomes, Tracked, TypeOK

LEMMA SeenReporting ==
  ASSUME Seen, Tracked', NEW o \in Calls, Reporting(o)
  PROVE  Seen'
<1> DEFINE w == work[o]
<1>0. Tracked /\ peak \in Peaks
  BY DEF Seen, Tracked, TypeOK, Peaks
<1>1. w \in Work /\ w # None /\ WorkSound(w) /\ w.at \in {"sending", "sent"}
      /\ AnswerKnown(w, peak, dropped)
  BY DEF Reporting, Deliver, Drop, Reported, ReportFails, Waits, Free, Seen, Tracked, TypeOK
<1>2. /\ w.kind = "report" /\ w.account \in Accounts /\ w.title \in Titles
      /\ w.tracker \in Trackers /\ w.chapter \in Progress
  BY <1>1 DEF WorkSound, Work
<1>3. CASE Deliver(o)
  <2> DEFINE next == [w EXCEPT !.at = "sent"]
  <2>1. /\ UNCHANGED record
        /\ UNCHANGED dropped
        /\ list' = [list EXCEPT ![w.tracker][w.account][w.title] = Whole(w.chapter)]
        /\ peak' = [peak EXCEPT ![w.tracker][w.title] =
                        Larger(peak[w.tracker][w.title], Whole(w.chapter))]
        /\ Becomes(o, next)
    BY <1>3 DEF Deliver
  <2> HIDE DEF w
  <2>2. /\ Grows(peak, peak') /\ ListKnown(list', peak')
        /\ Whole(w.chapter) <= peak'[w.tracker][w.title]
    BY <1>2, <2>1, WholeTyped, ServiceReached
  <2>3. /\ next.at = "sent" /\ next.chapter = w.chapter
        /\ next.tracker = w.tracker /\ next.title = w.title
    BY <1>1 DEF Work
  <2> HIDE DEF next
  <2>4. AnswerKnown(next, peak', dropped')
    BY <2>2, <2>3 DEF AnswerKnown, KnownAs
  <2>5. \A p \in Calls : work'[p] = work[p] \/ AnswerKnown(work'[p], peak', dropped')
    BY <1>0, <2>1, <2>4, WorkIs
  <2> QED  BY <2>1, <2>2, <2>5, SeenThere, DropsStay
<1>5. CASE Drop(o)
  <2> DEFINE next == [w EXCEPT !.at = "sent"]
  <2>1. /\ UNCHANGED <<record, list, peak>>
        /\ w.tracker \in Lenient
        /\ dropped' = [dropped EXCEPT ![w.tracker][w.title] =
                            dropped[w.tracker][w.title] \cup {w.chapter}]
        /\ Becomes(o, next)
    BY <1>5 DEF Drop
  <2>2. /\ next.at = "sent" /\ next.chapter = w.chapter
        /\ next.tracker = w.tracker /\ next.title = w.title
    BY <1>1 DEF Work
  <2> HIDE DEF w, next
  <2>3. dropped \in [Trackers -> [Titles -> SUBSET Progress]]
    BY <1>0 DEF Tracked, TypeOK
  <2>4. \A t \in Trackers, title \in Titles :
            dropped'[t][title] = IF t = w.tracker /\ title = w.title
                                 THEN dropped[t][title] \cup {w.chapter}
                                 ELSE dropped[t][title]
    BY <1>2, <2>1, <2>3
  <2>5. DropsGrow(dropped, dropped') /\ DropsAreLenient(dropped')
    BY <2>1, <2>4 DEF Seen, DropsGrow, DropsAreLenient
  <2>6. Grows(peak, peak') /\ ListKnown(list', peak')
    BY <1>0, <2>1, PeakIsNat DEF Seen, Grows
  <2>7. AnswerKnown(next, peak', dropped')
    BY <1>2, <2>2, <2>4 DEF AnswerKnown, KnownAs
  <2>8. \A p \in Calls : work'[p] = work[p] \/ AnswerKnown(work'[p], peak', dropped')
    BY <1>0, <2>1, <2>7, WorkIs
  <2> QED  BY <2>1, <2>5, <2>6, <2>8, SeenThere
<1>4. CASE Reported(o) \/ ReportFails(o)
  <2>1. Becomes(o, NextReport(w)) /\ UNCHANGED <<list, peak, dropped>>
    BY <1>4 DEF Reported, ReportFails
  <2>2. AnswerKnown(NextReport(w), peak, dropped)
    BY <1>0, <1>1, <1>2, NextReportKnown
  <2>3. \A p \in Calls : work'[p] = work[p] \/ AnswerKnown(work'[p], peak, dropped)
    BY <1>0, <2>1, <2>2, WorkIs
  <2>4. ASSUME NEW m \in Manga, NEW t \in Trackers
        PROVE  record'[m][t].last = record[m][t].last \/ Known(t, record'[m][t].last, peak, dropped)
    <3>1. CASE UNCHANGED record
      BY <3>1
    <3>2. CASE Reported(o)
      <4>1. w.at = "sent" /\ record' = Moved(w)
        BY <3>2 DEF Reported, Waits
      <4>2. KnownAs(w.tracker, w.chapter, w.title, peak, dropped)
        BY <1>1, <4>1 DEF AnswerKnown
      <4>3. record[m] \in [Trackers -> Record] /\ record[m][w.tracker] \in Record
        BY <1>0, <1>2 DEF Tracked, TypeOK
      <4>4. CASE record'[m] = record[m]
        BY <4>4
      <4>5. CASE record'[m] = [record[m] EXCEPT ![w.tracker].last = w.chapter]
        <5>1. CASE t # w.tracker
          BY <4>3, <4>5, <5>1
        <5>2. CASE t = w.tracker
          <6>1. record'[m][t].last = w.chapter
            BY <1>2, <4>3, <4>5, <5>2 DEF Record, NoRecord
          <6>2. Known(t, w.chapter, peak, dropped)
            BY <1>2, <4>2, <5>2 DEF Known
          <6> QED  BY <6>1, <6>2
        <5> QED  BY <5>1, <5>2
      <4> QED  BY <4>1, <4>4, <4>5 DEF Moved
    <3> QED  BY <1>4, <3>1, <3>2 DEF ReportFails
  <2> QED  BY <2>1, <2>3, <2>4, SeenHere
<1> QED  BY <1>3, <1>4, <1>5 DEF Reporting

LEMMA SeenAsking ==
  ASSUME Seen, Tracked', NEW o \in Calls, Calling(o) \/ Asking(o)
  PROVE  Seen'
<1>0. Tracked /\ peak \in Peaks
  BY DEF Seen, Tracked, TypeOK, Peaks
<1>1. ASSUME NEW w, Becomes(o, w), AnswerKnown(w, peak, dropped), UNCHANGED <<record, credential, list, peak, dropped>>
      PROVE  Seen'
  <2>1. \A p \in Calls : work'[p] = work[p] \/ AnswerKnown(work'[p], peak, dropped)
    BY <1>0, <1>1, WorkIs
  <2>2. \A m \in Manga, t \in Trackers : record'[m][t].last = record[m][t].last
    BY <1>1
  <2>3. UNCHANGED <<list, peak, dropped>>
    BY <1>1
  <2> QED  BY <2>1, <2>2, <2>3, SeenHere
<1>2. ASSUME NEW m \in Manga, NEW chapter \in Reads, Report(o, m, chapter)
      PROVE  Seen'
  <2>1. AnswerKnown(NextReport(NewReport(m, chapter)), peak, dropped)
    BY <1>0, ReadsAreProgress, NewReportTyped, NextReportKnown
  <2> QED  BY <1>1, <1>2, <2>1 DEF Report
<1>3. ASSUME NEW kind, NEW m, NEW title, NEW t, Ask(o, kind, m, title, t)
      PROVE  Seen'
  <2> DEFINE w == [kind |-> kind, at |-> "asking", manga |-> m, title |-> title, chapter |-> 0,
                   behind |-> NobodyBehind, tracker |-> t, account |-> credential[t],
                   answer |-> Nothing]
  <2>1. Becomes(o, w) /\ UNCHANGED <<record, credential, list, peak, dropped>>
    BY <1>3 DEF Ask
  <2>2. w.at = "asking"
    OBVIOUS
  <2> HIDE DEF w
  <2>3. AnswerKnown(w, peak, dropped)
    BY <2>2 DEF AnswerKnown
  <2> QED  BY <1>1, <2>1, <2>3
<1>4. CASE AskingFails(o)
  <2>1. AnswerKnown(None, peak, dropped)
    BY DEF AnswerKnown
  <2> QED  BY <1>1, <1>4, <2>1 DEF AskingFails
<1>5. CASE Served(o)
  <2> DEFINE w == work[o]
             listed == list[w.tracker][w.account]
  <2>1. w \in Work /\ w # None /\ WorkSound(w)
    BY <1>0, <1>5 DEF Served, Waits, Free, Tracked, TypeOK
  <2>2. PICK answer \in {listed} \cup IF w.kind = "fetch" THEN {Nothing} ELSE {} :
          Becomes(o, [w EXCEPT !.at = "answered", !.answer = answer])
    BY <1>5 DEF Served
  <2> DEFINE next == [w EXCEPT !.at = "answered", !.answer = answer]
  <2>3. w.tracker \in Trackers /\ w.account \in Accounts
    BY <2>1 DEF Work, WorkSound
  <2>4. ASSUME NEW x \in Titles PROVE answer[x] <= peak[w.tracker][x]
    <3>1. listed[x] <= peak[w.tracker][x]
      BY <2>3 DEF Seen, ListKnown
    <3>2. Nothing[x] = 0 /\ peak[w.tracker][x] \in Nat
      BY <1>0, <2>3, PeakIsNat DEF Nothing
    <3>3. answer = listed \/ answer = Nothing
      BY <2>2
    <3> HIDE DEF w, listed
    <3>4. 0 <= peak[w.tracker][x]
      BY <3>2
    <3> QED  BY <3>1, <3>2, <3>3, <3>4
  <2>5. next.at = "answered" /\ next.answer = answer /\ next.tracker = w.tracker
    BY <2>1 DEF Work
  <2>6. Becomes(o, next) /\ UNCHANGED <<record, credential, list, peak, dropped>>
    BY <1>5, <2>2 DEF Served
  <2> HIDE DEF w, next
  <2>7. AnswerKnown(next, peak, dropped)
    BY <2>4, <2>5 DEF AnswerKnown
  <2> QED  BY <1>1, <2>6, <2>7
<1>6. CASE Stored(o)
  BY <1>6, SeenStored
<1> QED
  BY <1>2, <1>3, <1>4, <1>5, <1>6 DEF Calling, Asking, Bind, Refresh, ImportLibrary

LEMMA SeenStep ==
  ASSUME Seen, [Next]_vars
  PROVE  Seen'
<1>0. Tracked /\ Tracked' /\ peak \in Peaks
  BY TrackedNext DEF Seen, Tracked, TypeOK, Peaks
<1>1. CASE UNCHANGED <<record, list, peak, dropped, work>>
  BY <1>0, <1>1, SeenHere
<1>2. ASSUME NEW source \in Manga, NEW pair \in Pairs, BindExisting(source, pair[1], pair[2])
      PROVE  Seen'
  <2> DEFINE target == pair[1]
             t == pair[2]
             row == Upsert(record[target][t], record[source][t].title, record[source][t].last)
  <2>1. target \in Manga /\ t \in Trackers
    BY TrackerAssumption
  <2>2. record' = [record EXCEPT ![target] = [record[target] EXCEPT ![t] = row]]
        /\ UNCHANGED <<list, peak, dropped, work>>
    BY <1>2 DEF BindExisting
  <2>3. row.last = record[target][t].last \/ row.last = record[source][t].last
    BY DEF Upsert, Larger
  <2> HIDE DEF row, target, t
  <2>4. ASSUME NEW m \in Manga, NEW s \in Trackers
        PROVE  record'[m][s].last = record[m][s].last \/ Known(s, record'[m][s].last, peak, dropped)
    <3>1. CASE m = target /\ s = t
      <4>1. record'[m][s] = row
        BY <1>0, <2>1, <2>2, <3>1 DEF Tracked, TypeOK
      <4>2. Known(s, record[source][s].last, peak, dropped)
        BY DEF Seen
      <4> QED  BY <2>3, <3>1, <4>1, <4>2
    <3>2. CASE ~(m = target /\ s = t)
      <4>1. record'[m][s] = record[m][s]
        BY <1>0, <2>1, <2>2, <3>2 DEF Tracked, TypeOK
      <4> QED  BY <4>1
    <3> QED  BY <3>1, <3>2
  <2> QED  BY <1>0, <2>2, <2>4, SeenHere
<1>3. ASSUME NEW pair \in Pairs, Unbind(pair[1], pair[2])
      PROVE  Seen'
  <2>1. record' = [record EXCEPT ![pair[1]] = [record[pair[1]] EXCEPT ![pair[2]] = NoRecord]]
        /\ UNCHANGED <<list, peak, dropped, work>>
    BY <1>3 DEF Unbind
  <2>2. ASSUME NEW m \in Manga, NEW s \in Trackers
        PROVE  record'[m][s].last = record[m][s].last \/ Known(s, record'[m][s].last, peak, dropped)
    <3>1. record'[m][s] = record[m][s] \/ record'[m][s] = NoRecord
      BY <1>0, <2>1 DEF Tracked, TypeOK
    <3> QED  BY <3>1 DEF Known, NoRecord
  <2> QED  BY <1>0, <2>1, <2>2, SeenHere
<1>4. ASSUME NEW t \in Trackers, NEW a \in Accounts, NEW title \in Titles,
             ReadElsewhere(t, a, title)
      PROVE  Seen'
  <2>1. PICK chapter \in Progress :
            /\ list' = [list EXCEPT ![t][a][title] = chapter]
            /\ peak' = [peak EXCEPT ![t][title] = Larger(peak[t][title], chapter)]
            /\ UNCHANGED <<record, credential, dropped, work>>
    BY <1>4 DEF ReadElsewhere
  <2>2. Grows(peak, peak') /\ ListKnown(list', peak')
    BY <2>1, ServiceReached
  <2> QED  BY <1>0, <2>1, <2>2, SeenThere, DropsStay
<1> QED
  BY <1>0, <1>1, <1>2, <1>3, <1>4, SeenReporting, SeenAsking DEF Next, Login, Logout, vars

LEMMA SeenInit == Init => Seen
<1> SUFFICES ASSUME Init PROVE Seen
  OBVIOUS
<1>1. Tracked
  BY TrackedInit
<1>2. \A m \in Manga, t \in Trackers : Known(t, record[m][t].last, peak, dropped)
  BY DEF Init, NoRecord, Known
<1>3. ListKnown(list, peak)
  BY DEF Init, ListKnown, Nothing
<1>4. \A o \in Calls : AnswerKnown(work[o], peak, dropped)
  BY DEF Init, AnswerKnown
<1>5. DropsAreLenient(dropped)
  BY DEF Init, DropsAreLenient
<1> QED  BY <1>1, <1>2, <1>3, <1>4, <1>5 DEF Seen

(* Progress shown here is, down to the whole chapter, progress the service *)
(* had at some time: no report that failed, and no answer that came late,  *)
(* is mistaken for it.  Only a report that a lenient service answered with *)
(* "not found" leaves its own number here, and no other service does.      *)
THEOREM ProgressWasThere == Spec => []LocalWasRemote
<1>1. Seen => LocalWasRemote
  BY DEF Seen, Known, KnownAs, DropsAreLenient, LocalWasRemote
<1> QED  BY <1>1, SeenInit, SeenStep, PTL DEF Spec
=============================================================================
