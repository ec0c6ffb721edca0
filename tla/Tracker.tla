------------------------------ MODULE Tracker -------------------------------
(***************************************************************************)
(* The tracking of one account's reading on remote services                *)
(* (tracker/records.ts, tracker/credentials.ts and the mutations of        *)
(* graphql/resolvers/track.ts): binding, refreshing, reporting and         *)
(* importing, each of which reads the database, waits for a service and    *)
(* writes, while the other calls, sign-ins and sign-outs go on.            *)
(*                                                                         *)
(* Of a record's fields the model keeps the remote title and the progress, *)
(* in half chapters, since a source may number a chapter between two;      *)
(* scores, dates and shelves travel with them and decide nothing.          *)
(***************************************************************************)
EXTENDS Naturals, FiniteSets

CONSTANTS
    Trackers,    \* the services, by number: reports go in this order
    Importer,    \* the one importLibrary speaks to
    Lenient,     \* those whose "not found" for a report is taken for done
    Manga,
    Titles,      \* remote ids
    ShellOf,     \* the manga row an imported title lands on
    Accounts,    \* accounts a reader may hold at a service
    MaxChapter,  \* in half chapters
    Reads,       \* bound: the chapters read here
    Pairs,       \* bound: which manga may be bound at which service
    Calls,       \* bound: calls that wait for a service at one time
    None

ASSUME TrackerAssumption ==
    /\ Trackers \subseteq Nat /\ IsFiniteSet(Trackers)
    /\ Importer \in Trackers
    /\ Lenient \subseteq Trackers
    /\ ShellOf \in [Titles -> Manga]
    /\ \A x, y \in Titles : ShellOf[x] = ShellOf[y] => x = y
    /\ Pairs \subseteq Manga \X Trackers
    /\ \A title \in Titles : <<ShellOf[title], Importer>> \in Pairs
    /\ MaxChapter \in Nat
    /\ Reads \subseteq (0..MaxChapter) \ {0}
    /\ None \notin Titles /\ None \notin Accounts

VARIABLES
    record,      \* table track_record: a row for each manga and tracker
    credential,  \* table tracker_credential
    list,        \* what each service has for each of its accounts
    peak,        \* the most a service ever had of a title, for any account
    dropped,     \* the reports of a title it dropped, and was believed to have taken
    work         \* the calls in progress

vars == <<record, credential, list, peak, dropped, work>>

Progress == 0..MaxChapter
NoRecord == [title |-> None, last |-> 0]
Record == [title : Titles, last : Progress] \cup {NoRecord}
Credential == Accounts \cup {None}

\* A call: what it is for, where it waits, what it read before it waited.
\* A report keeps in "behind" the trackers it has yet to tell, each with the
\* remote title its record had.
Work == [kind : {"report", "fetch", "import"},
         at : {"sending", "sent", "asking", "answered"},
         manga : Manga \cup {None}, title : Titles \cup {None},
         chapter : Progress, behind : [Trackers -> Titles \cup {None}],
         tracker : Trackers, account : Credential,
         answer : [Titles -> Progress]]

NobodyBehind == [t \in Trackers |-> None]
Nothing == [t \in Titles |-> 0]

Larger(a, b) == IF a >= b THEN a ELSE b

\* Math.floor
Whole(chapter) == 2 * (chapter \div 2)

Init ==
    /\ record = [m \in Manga |-> [t \in Trackers |-> NoRecord]]
    /\ credential = [t \in Trackers |-> None]
    /\ list = [t \in Trackers |-> [a \in Accounts |-> Nothing]]
    /\ peak = [t \in Trackers |-> Nothing]
    /\ dropped = [t \in Trackers |-> [title \in Titles |-> {}]]
    /\ work = [o \in Calls |-> None]

Free(o) == work[o] = None
Waits(o, where) == ~Free(o) /\ work[o].at = where

\* requireCredential
SignedIn(t) == credential[t] # None

\* Mutant: what the tracker says replaces what is here.
UpsertBlindly(row, title, last) == [title |-> title, last |-> last]

\* upsertRecord
Upsert(row, title, last) == [title |-> title, last |-> Larger(last, row.last)]

Becomes(o, w) == work' = [work EXCEPT ![o] = w]

-----------------------------------------------------------------------------
(* reportProgress: the manga's records are read once; then each tracker    *)
(* that is behind is told in turn, with the credential of that moment.     *)

\* Mutant: the credential the loop began with serves all of it.
NextReportFirstToken(w) ==
    LET due == {t \in Trackers : w.behind[t] # None}
        first == CHOOSE t \in due : \A s \in due : t <= s
        account == IF w.account = None THEN credential[first] ELSE w.account
    IN  IF due = {} \/ account = None THEN None
        ELSE [w EXCEPT !.at = "sending", !.tracker = first, !.title = w.behind[first],
                       !.account = account, !.behind[first] = None]

\* The loop, up to its next wait: nobody left to tell, or signed out of the
\* next tracker, ends it.
NextReport(w) ==
    LET due == {t \in Trackers : w.behind[t] # None}
        first == CHOOSE t \in due : \A s \in due : t <= s
    IN  IF due = {} THEN None
        ELSE IF ~SignedIn(first) THEN None
        ELSE [w EXCEPT !.at = "sending", !.tracker = first, !.title = w.behind[first],
                       !.account = credential[first], !.behind[first] = None]

\* The manga's records as they are now, those behind the chapter kept.
NewReport(m, chapter) ==
    [kind |-> "report", at |-> "sending", manga |-> None, title |-> None,
     chapter |-> chapter,
     behind |-> [t \in Trackers |->
        IF record[m][t].last < chapter THEN record[m][t].title ELSE None],
     tracker |-> Importer, account |-> None, answer |-> Nothing]

Report(o, m, chapter) ==
    /\ Free(o)
    /\ Becomes(o, NextReport(NewReport(m, chapter)))
    /\ UNCHANGED <<record, credential, list, peak, dropped>>

\* The service takes the report: updateProgress sets, whatever was there, the
\* last whole chapter.
Deliver(o) ==
    LET w == work[o]
    IN  /\ Waits(o, "sending")
        /\ list' = [list EXCEPT ![w.tracker][w.account][w.title] = Whole(w.chapter)]
        /\ peak' = [peak EXCEPT ![w.tracker][w.title] = Larger(@, Whole(w.chapter))]
        /\ Becomes(o, [w EXCEPT !.at = "sent"])
        /\ UNCHANGED <<record, credential, dropped>>

\* It answers that it knows no such title, and write lets that pass.
Drop(o) ==
    LET w == work[o]
    IN  /\ Waits(o, "sending")
        /\ w.tracker \in Lenient
        /\ dropped' = [dropped EXCEPT ![w.tracker][w.title] = @ \cup {w.chapter}]
        /\ Becomes(o, [w EXCEPT !.at = "sent"])
        /\ UNCHANGED <<record, credential, list, peak>>

\* Mutant: the reader is put at the chapter after the one reported.
MovedPast(w) ==
    [m \in Manga |->
        IF record[m][w.tracker].title = w.title /\ record[m][w.tracker].last < w.chapter
        THEN [record[m] EXCEPT ![w.tracker].last = w.chapter + 1]
        ELSE record[m]]

\* Every row of the title that is behind is moved, to the number as it is here.
Moved(w) ==
    [m \in Manga |->
        IF record[m][w.tracker].title = w.title /\ record[m][w.tracker].last < w.chapter
        THEN [record[m] EXCEPT ![w.tracker].last = w.chapter]
        ELSE record[m]]

\* The answer arrives.
Reported(o) ==
    /\ Waits(o, "sent")
    /\ record' = Moved(work[o])
    /\ Becomes(o, NextReport(work[o]))
    /\ UNCHANGED <<credential, list, peak, dropped>>

\* Mutant: a report that failed is taken for sent.
ReportFailsUnseen(o) ==
    /\ Waits(o, "sending") \/ Waits(o, "sent")
    /\ record' = Moved(work[o])
    /\ Becomes(o, NextReport(work[o]))
    /\ UNCHANGED <<credential, list, peak, dropped>>

\* It fails on the way there or on the way back: on to the next tracker.
ReportFails(o) ==
    /\ Waits(o, "sending") \/ Waits(o, "sent")
    /\ Becomes(o, NextReport(work[o]))
    /\ UNCHANGED <<record, credential, list, peak, dropped>>

-----------------------------------------------------------------------------
(* Calls that ask: bindByRemoteId, refreshRecord and importLibrary.  A     *)
(* sign-in stores the account's id with its token, so remoteAccount has it *)
(* without waiting.                                                        *)

Ask(o, kind, m, title, t) ==
    /\ Free(o)
    /\ SignedIn(t)
    /\ Becomes(o,
        [kind |-> kind, at |-> "asking", manga |-> m, title |-> title, chapter |-> 0,
         behind |-> NobodyBehind, tracker |-> t, account |-> credential[t],
         answer |-> Nothing])
    /\ UNCHANGED <<record, credential, list, peak, dropped>>

Bind(o, m, t, title) == Ask(o, "fetch", m, title, t)

Refresh(o, m, t) ==
    /\ record[m][t] # NoRecord
    /\ Ask(o, "fetch", m, record[m][t].title, t)

ImportLibrary(o) == Ask(o, "import", None, None, Importer)

\* The service reads the list of the account it is asked about.  AniList's
\* client takes any refusal of that question for "not on the list", and goes
\* on with an unread title.
Served(o) ==
    LET w == work[o]
        listed == list[w.tracker][w.account]
    IN  /\ Waits(o, "asking")
        /\ \E answer \in {listed} \cup IF w.kind = "fetch" THEN {Nothing} ELSE {} :
                Becomes(o, [w EXCEPT !.at = "answered", !.answer = answer])
        /\ UNCHANGED <<record, credential, list, peak, dropped>>

\* The titles a call writes to a manga's record: for an import what is on the
\* list, which is what was read and any of the unread.
Target(w, m, unread) ==
    IF w.kind = "import"
    THEN {title \in Titles : ShellOf[title] = m /\ (w.answer[title] > 0 \/ title \in unread)}
    ELSE {title \in Titles : m = w.manga /\ title = w.title}

Stored(o) ==
    LET w == work[o]
    IN  /\ Waits(o, "answered")
        /\ \E unread \in SUBSET Titles :
              record' = [m \in Manga |->
                IF Target(w, m, unread) = {} THEN record[m]
                ELSE LET title == CHOOSE x \in Target(w, m, unread) : TRUE
                     IN  [record[m] EXCEPT ![w.tracker] =
                            Upsert(record[m][w.tracker], title, w.answer[title])]]
        /\ Becomes(o, None)
        /\ UNCHANGED <<credential, list, peak, dropped>>

AskingFails(o) ==
    /\ Waits(o, "asking") \/ Waits(o, "answered")
    /\ Becomes(o, None)
    /\ UNCHANGED <<record, credential, list, peak, dropped>>

-----------------------------------------------------------------------------
(* What does not wait.                                                     *)

\* bindExistingRecord
BindExisting(source, target, t) ==
    /\ record[source][t] # NoRecord
    /\ record' = [record EXCEPT ![target][t] =
            Upsert(record[target][t], record[source][t].title, record[source][t].last)]
    /\ UNCHANGED <<credential, list, peak, dropped, work>>

\* unbindRecord, deleteRemoteTrack being false, which is all the client sends
Unbind(m, t) ==
    /\ record[m][t] # NoRecord
    /\ record' = [record EXCEPT ![m][t] = NoRecord]
    /\ UNCHANGED <<credential, list, peak, dropped, work>>

\* loginTrackerOAuth, after its last wait
Login(t, account) ==
    /\ credential' = [credential EXCEPT ![t] = account]
    /\ UNCHANGED <<record, list, peak, dropped, work>>

\* logoutTracker; a token that expires is refused in the same way.
Logout(t) ==
    /\ credential' = [credential EXCEPT ![t] = None]
    /\ UNCHANGED <<record, list, peak, dropped, work>>

\* The reader reads on elsewhere; the services count whole chapters.
ReadElsewhere(t, account, title) ==
    \E chapter \in Progress :
        /\ chapter = Whole(chapter) /\ chapter > list[t][account][title]
        /\ list' = [list EXCEPT ![t][account][title] = chapter]
        /\ peak' = [peak EXCEPT ![t][title] = Larger(@, chapter)]
        /\ UNCHANGED <<record, credential, dropped, work>>

Asking(o) == Served(o) \/ Stored(o) \/ AskingFails(o)
Reporting(o) == Deliver(o) \/ Drop(o) \/ Reported(o) \/ ReportFails(o)

Calling(o) ==
    \/ \E m \in Manga, chapter \in Reads : Report(o, m, chapter)
    \/ \E pair \in Pairs, title \in Titles : Bind(o, pair[1], pair[2], title)
    \/ \E pair \in Pairs : Refresh(o, pair[1], pair[2])
    \/ ImportLibrary(o)

Next ==
    \/ \E o \in Calls : Calling(o) \/ Asking(o) \/ Reporting(o)
    \/ \E source \in Manga, pair \in Pairs : BindExisting(source, pair[1], pair[2])
    \/ \E pair \in Pairs : Unbind(pair[1], pair[2])
    \/ \E t \in Trackers, a \in Accounts : Login(t, a)
    \/ \E t \in Trackers : Logout(t)
    \/ \E t \in Trackers, a \in Accounts, title \in Titles : ReadElsewhere(t, a, title)

Spec == Init /\ [][Next]_vars
-----------------------------------------------------------------------------
(* Properties.                                                             *)

TypeOK ==
    /\ record \in [Manga -> [Trackers -> Record]]
    /\ credential \in [Trackers -> Credential]
    /\ list \in [Trackers -> [Accounts -> [Titles -> Progress]]]
    /\ peak \in [Trackers -> [Titles -> Progress]]
    /\ dropped \in [Trackers -> [Titles -> SUBSET Progress]]
    /\ work \in [Calls -> Work \cup {None}]

(* A record's progress never goes down while the record lives, whatever    *)
(* reports, refreshes, imports and re-binds overlap and in whatever order  *)
(* their answers arrive (upsertRecord's and reportProgress's comments).    *)
LocalNeverDown ==
    [][\A m \in Manga, t \in Trackers :
            record'[m][t] # NoRecord => record'[m][t].last >= record[m][t].last]_vars

(* Progress is only shown here that the service really had at some time,   *)
(* down to the whole chapter, which is all the services count: a report    *)
(* that failed, at whatever point, is never taken for recorded.  The one   *)
(* exception is a report a lenient service answered with "not found",      *)
(* whose number then stands here alone; a service that refuses what it     *)
(* does not know never leaves one.                                         *)
LocalWasRemote ==
    \A m \in Manga, t \in Trackers :
        record[m][t].last > 0 =>
            \E title \in Titles :
                \/ Whole(record[m][t].last) <= peak[t][title]
                \/ t \in Lenient /\ record[m][t].last \in dropped[t][title]

(* A report goes out under the account signed in when it is sent, though   *)
(* the loop over the trackers began under another or none: signing out of  *)
(* a tracker, or in as someone else, is respected at once.                 *)
ReportsUseLiveCredential ==
    [][\A o \in Calls :
            Waits(o, "sending")' /\ work'[o] # work[o]
                => work'[o].account = credential[work'[o].tracker]]_vars

(* progress.ts:70: a report "never moves a remote count downwards".        *)
RemoteNeverLowered ==
    [][\A t \in Trackers, a \in Accounts, title \in Titles :
            list'[t][a][title] >= list[t][a][title]]_vars
=============================================================================
