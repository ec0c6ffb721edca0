------------------------------ MODULE WebDetail ----------------------------
(***************************************************************************)
(* A title's own page (src/web/src/pages/MangaDetailPage.tsx): which       *)
(* source it is read from and how that changes - the picker, a title       *)
(* opened from Discover, the browser's own memory of a binding - and what  *)
(* follows a change: read progress carried across and taken back, the      *)
(* tracker's record carried across, the note, the mark on a title without  *)
(* chapters.  The page stays mounted while its address walks from title to *)
(* title.  Chapter 0 stands for those a source could not number.           *)
(***************************************************************************)
EXTENDS Naturals, FiniteSets

CONSTANTS Titles, Copies, \* rows of titles, and of the sources' copies
          Unbound,            \* no source is bound, no title has come
          ChapterLists,       \* what a source may list
          Reported,           \* what the tracker may report
          MaxMoves            \* bound: changes of source, walks, notes written

ASSUME DetailAssumption ==
    /\ Titles \cap Copies = {} /\ Unbound \notin Titles \cup Copies /\ Copies # {}
    /\ ChapterLists \subseteq SUBSET Nat /\ Reported \subseteq Nat /\ MaxMoves \in Nat

VARIABLES bindings, chaptersOf, readOf, progressOf, notes, emptied, \* server
          remembered,    \* the browser's own bindings
          id, marker,    \* the address: a title, and whether Discover sent it here
          detail, awaiting, \* the last answer about a title; its own is still to come
          boundId,
          boundRecord,   \* what the last answer about a source said of its record
          refreshed,     \* refreshedBoundRef
          picking, ownEmpty, newest, readThrough,
          pendingCarry, carried, searched, switchedFor,
          note, noteAdoptedFor,
          calls,         \* requests that are out
          moves

detailVars == <<bindings, chaptersOf, readOf, progressOf, notes, emptied, remembered, id,
                marker, detail,
                awaiting, boundId, boundRecord, refreshed, picking, ownEmpty, newest, readThrough,
                pendingCarry, carried, searched, switchedFor, note, noteAdoptedFor, calls, moves>>
rowVars    == <<bindings, chaptersOf, readOf, progressOf, notes, emptied, remembered>>
sourceVars == <<boundId, picking, ownEmpty, newest, readThrough, pendingCarry, carried,
                searched>>
noteVars   == <<note, noteAdoptedFor>>
shownVars   == <<id, marker, detail, awaiting, boundRecord, refreshed, switchedFor>>

AllRows     == Titles \cup Copies
TopOf(S) == IF S = {} THEN 0 ELSE CHOOSE n \in S : \A k \in S : k <= n
NoCarry  == [row |-> Unbound, upTo |-> 0]
NoteOf(t, n) == [title |-> t, text |-> n]
Blank    == NoteOf(Unbound, 0)
NoAnswer == [title |-> Unbound, bound |-> Unbound]

DetailInit ==
    /\ bindings \in [Titles -> Copies \cup {Unbound}]
    /\ chaptersOf \in [AllRows -> ChapterLists]
    /\ readOf = [r \in AllRows |-> chaptersOf[r] \cap {1}]
    /\ progressOf \in {[t \in Titles |-> n] : n \in Reported}
    /\ notes = [t \in Titles |-> NoteOf(t, 0)] /\ emptied = {}
    /\ remembered \in {[t \in Titles |-> Unbound], [t \in Titles |-> CHOOSE s \in Copies : TRUE]}
    /\ id \in Titles /\ marker \in BOOLEAN
    /\ detail = NoAnswer /\ awaiting = TRUE
    /\ boundId = remembered[id] /\ boundRecord = 0 /\ refreshed = Unbound
    /\ picking = FALSE /\ ownEmpty = FALSE /\ newest = 0 /\ readThrough = 0
    /\ pendingCarry = NoCarry /\ carried = {} /\ searched = "none" /\ switchedFor = Unbound
    /\ note = Blank /\ noteAdoptedFor = Unbound
    /\ calls = {} /\ moves = 0

Moved   == moves < MaxMoves /\ moves' = moves + 1
Active  == IF boundId = Unbound THEN id ELSE boundId
Picker  == ~awaiting /\ (picking \/ (boundId = Unbound /\ ownEmpty))
Listing == ~awaiting /\ ~Picker

\* The binding the page adopts from an answer: the server's, else the
\* browser's, which is then written to the server.
Adopted(t, answered) == IF answered # Unbound THEN answered ELSE remembered[t]

Call(kind, t, s, upTo, ids) == [kind |-> kind, title |-> t, row |-> s, upTo |-> upTo, ids |-> ids]
Written(t, s, upTo) == Call("save", t, s, upTo, {})
Handed(t, answered) ==
    IF answered = Unbound /\ remembered[t] # Unbound THEN {Written(t, remembered[t], 0)} ELSE {}

(***************************** the page's own data ************************)

\* Mutant: the two effects the other way round, the drop before the adoption.
NoteDroppedFirst(t) ==
    IF detail = NoAnswer THEN note' = Blank /\ noteAdoptedFor' = Unbound
    ELSE note' = NoteOf(detail.title, 0) /\ noteAdoptedFor' = t

\* The last title's answer is adopted for the new one, and dropped after it.
NoteDropped(t) == note' = Blank /\ noteAdoptedFor' = Unbound

\* The address walks to another title.  The answer about the last one is
\* kept until the new one's comes, and the effects run on it.
Walk(t) ==
    /\ t # id /\ Moved
    /\ id' = t /\ marker' = FALSE
    /\ awaiting' = TRUE
    /\ boundId' = IF detail = NoAnswer THEN remembered[t] ELSE Adopted(t, detail.bound)
    /\ calls' = IF detail = NoAnswer THEN calls ELSE calls \cup Handed(t, detail.bound)
    /\ picking' = FALSE /\ ownEmpty' = FALSE /\ readThrough' = 0
    /\ pendingCarry' = NoCarry /\ carried' = {} /\ searched' = "none" /\ switchedFor' = Unbound
    /\ NoteDropped(t)
    /\ UNCHANGED <<rowVars, detail, boundRecord, refreshed, newest>>

\* The title's row comes: its note is adopted once, its binding every time.
DetailAnswered ==
    /\ detail' = [title |-> id, bound |-> bindings[id]] /\ awaiting' = FALSE
    /\ boundId' = Adopted(id, bindings[id])
    /\ calls' = calls \cup Handed(id, bindings[id])
    /\ IF noteAdoptedFor = id THEN UNCHANGED noteVars
       ELSE note' = notes[id] /\ noteAdoptedFor' = id
    /\ UNCHANGED <<rowVars, id, marker, boundRecord, refreshed, switchedFor, picking, ownEmpty,
                   newest,
                   readThrough, pendingCarry, carried, searched, moves>>

\* The chapter list comes up with what the row lists; a row with nothing
\* listed is asked of its source, which may fail or have nothing.  A title
\* read from its own catalogue, which has nothing, is written off.
ListAnswered(list) ==
    /\ Listing
    /\ LET have == IF chaptersOf[Active] = {} THEN list ELSE chaptersOf[Active] IN
       /\ chaptersOf' = [chaptersOf EXCEPT ![Active] = have]
       /\ newest' = TopOf(have) /\ readThrough' = TopOf(readOf[Active])
       /\ ownEmpty' = IF boundId = Unbound THEN have = {} ELSE ownEmpty
       /\ emptied' = IF boundId = Unbound /\ have = {} THEN emptied \cup {id} ELSE emptied
    /\ UNCHANGED <<bindings, readOf, progressOf, notes, remembered, shownVars, boundId, picking,
                   pendingCarry, carried, searched, noteVars, calls, moves>>

\* Shown at once, and sent; an empty one, 0, is deleted.
SaveNote(n) ==
    /\ ~awaiting /\ note # NoteOf(id, n) /\ Moved
    /\ note' = NoteOf(id, n)
    /\ calls' = calls \cup {Call("note", id, Unbound, n, {})}
    /\ UNCHANGED <<rowVars, shownVars, sourceVars, noteAdoptedFor>>

\* What it came back with is not looked at.
NoteSaved(c, ok) ==
    /\ c.kind = "note"
    /\ notes' = IF ok THEN [notes EXCEPT ![c.title] = NoteOf(c.title, c.upTo)] ELSE notes
    /\ calls' = calls \ {c}
    /\ UNCHANGED <<bindings, chaptersOf, readOf, progressOf, emptied, remembered, shownVars,
                   sourceVars, noteVars, moves>>

(***************************** the tracker's record ***********************)

\* The bound source's row comes.  The entry's record is carried to it, or
\* its own is refreshed once, and the page hears the tracker's number.
RecordCarried(n) ==
    /\ boundId # Unbound /\ refreshed # boundId
    /\ refreshed' = boundId
    /\ boundRecord' = n
    /\ UNCHANGED <<rowVars, id, marker, detail, awaiting, switchedFor, sourceVars, noteVars,
                   calls, moves>>

\* The furthest any record on screen says, which is also the last source's
\* until another answers.
TrackedProgress == TopOf({progressOf[id], boundRecord})

(***************************** changing the source ************************)

OpenPicker ==
    /\ Listing /\ ~picking
    /\ picking' = TRUE
    /\ UNCHANGED <<rowVars, shownVars, boundId, ownEmpty, newest, readThrough, pendingCarry,
                   carried,
                   searched, noteVars, calls, moves>>

\* A match is picked: the page moves at once and the server is told, and
\* how far the outgoing source had been read is kept for when it has heard.
BindTo(s) ==
    /\ Picker /\ Moved
    /\ remembered' = [remembered EXCEPT ![id] = s]
    /\ boundId' = s /\ picking' = FALSE /\ newest' = 0 /\ readThrough' = 0 /\ carried' = {}
    /\ calls' = calls \cup {Written(id, s, TopOf({TrackedProgress, readThrough}))}
    /\ UNCHANGED <<bindings, chaptersOf, readOf, progressOf, notes, emptied, shownVars,
                   ownEmpty, pendingCarry,
                   searched, noteVars>>

\* The save has come back, and what it came back with is not looked at.
Saved(c, ok) ==
    /\ c.kind = "save"
    /\ bindings' = IF ok THEN [bindings EXCEPT ![c.title] = c.row] ELSE bindings
    /\ pendingCarry' = IF c.upTo > 0 THEN [row |-> c.row, upTo |-> c.upTo] ELSE pendingCarry
    /\ calls' = calls \ {c}
    /\ UNCHANGED <<chaptersOf, readOf, progressOf, notes, emptied, remembered, shownVars,
                   boundId, picking, ownEmpty,
                   newest, readThrough, carried, searched, noteVars, moves>>

\* Back to the title's own catalogue: its own entry picked, or the button.
Unbind ==
    /\ Picker /\ boundId # Unbound /\ Moved
    /\ calls' = calls \cup {Call("unbind", id, boundId, 0, {})}
    /\ UNCHANGED <<rowVars, shownVars, sourceVars, noteVars>>

\* The page that moves is the one on screen when the server has answered.
BindingDropped(c, ok) ==
    /\ c.kind = "unbind"
    /\ calls' = calls \ {c}
    /\ IF ok THEN /\ bindings' = [bindings EXCEPT ![c.title] = Unbound]
                  /\ remembered' = [remembered EXCEPT ![c.title] = Unbound]
                  /\ boundId' = Unbound /\ ownEmpty' = FALSE /\ picking' = FALSE
       ELSE UNCHANGED <<bindings, remembered, boundId, ownEmpty, picking>>
    /\ UNCHANGED <<chaptersOf, readOf, progressOf, notes, emptied, shownVars, newest,
                   readThrough, pendingCarry, carried, searched, noteVars, moves>>

\* A title opened from Discover that is bound elsewhere: once per arrival,
\* its own catalogue is asked whether it has chapters.
HonourMarker ==
    /\ marker /\ detail.title = id /\ switchedFor # id
    /\ switchedFor' = id
    /\ LET was == Adopted(id, detail.bound) IN
       IF was = Unbound THEN UNCHANGED <<marker, calls>>
       ELSE /\ marker' = FALSE
            /\ calls' = calls \cup {Call("switch", id, was, 0, {})}
    /\ UNCHANGED <<rowVars, id, detail, awaiting, boundRecord, refreshed, sourceVars, noteVars,
                   moves>>

\* Mutant: a catalogue that lists the title is taken to carry it.
CarriesAnyway(list) == TRUE

CarriesChapters(list) == list # {}

\* The catalogue has answered.  With chapters there the binding is to go;
\* what is said of it is said on the page that is on screen now.
Switched(c, list) ==
    /\ c.kind = "switch"
    /\ LET have == IF chaptersOf[c.title] = {} THEN list ELSE chaptersOf[c.title] IN
       /\ chaptersOf' = [chaptersOf EXCEPT ![c.title] = have]
       /\ IF CarriesChapters(have)
          THEN /\ calls' = (calls \ {c}) \cup {[c EXCEPT !.kind = "move"]}
               /\ UNCHANGED searched
          ELSE /\ searched' = "empty" /\ calls' = calls \ {c}
    /\ UNCHANGED <<bindings, readOf, progressOf, notes, emptied, remembered, shownVars, boundId,
                   picking, ownEmpty, newest, readThrough, pendingCarry, carried, noteVars, moves>>

\* Unless the server refuses, when all stays as it was.
MovedOff(c, ok) ==
    /\ c.kind = "move"
    /\ calls' = calls \ {c}
    /\ IF ok THEN /\ bindings' = [bindings EXCEPT ![c.title] = Unbound]
                  /\ remembered' = [remembered EXCEPT ![c.title] = Unbound]
                  /\ boundId' = Unbound /\ searched' = c.row
       ELSE UNCHANGED <<bindings, remembered, boundId, searched>>
    /\ UNCHANGED <<chaptersOf, readOf, progressOf, notes, emptied, shownVars, picking, ownEmpty,
                   newest, readThrough, pendingCarry, carried, noteVars, moves>>

\* Undo in the notice.
RestorePreviousSource ==
    /\ ~awaiting /\ searched \in Copies /\ Moved
    /\ calls' = calls \cup {Call("restore", id, searched, 0, {})}
    /\ UNCHANGED <<rowVars, shownVars, sourceVars, noteVars>>

PreviousRestored(c, ok) ==
    /\ c.kind = "restore"
    /\ calls' = calls \ {c}
    /\ IF ok THEN /\ bindings' = [bindings EXCEPT ![c.title] = c.row]
                  /\ remembered' = [remembered EXCEPT ![c.title] = c.row]
                  /\ boundId' = c.row /\ searched' = "none"
       ELSE UNCHANGED <<bindings, remembered, boundId, searched>>
    /\ UNCHANGED <<chaptersOf, readOf, progressOf, notes, emptied, shownVars, picking, ownEmpty,
                   newest, readThrough, pendingCarry, carried, noteVars, moves>>

(***************************** carrying the progress **********************)

\* Mutant: what no source could number counts as read.
MarksAll(r, upTo) == {n \in chaptersOf[r] \ readOf[r] : n <= upTo}

Marks(r, upTo) == {n \in chaptersOf[r] \ readOf[r] : n > 0 /\ n <= upTo}

\* The new source's list is on screen: its chapters are asked for once more.
CarryAsked ==
    /\ pendingCarry # NoCarry /\ boundId = pendingCarry.row /\ newest > 0
    /\ pendingCarry' = NoCarry
    /\ LET ids == Marks(boundId, pendingCarry.upTo)
       IN  calls' = IF ids = {} THEN calls
                    ELSE calls \cup {Call("carry", id, boundId, pendingCarry.upTo, ids)}
    /\ UNCHANGED <<rowVars, shownVars, boundId, picking, ownEmpty, newest, readThrough, carried,
                   searched,
                   noteVars, moves>>

ProgressCarried(c, ok) ==
    /\ c.kind = "carry"
    /\ readOf' = IF ok THEN [readOf EXCEPT ![c.row] = @ \cup c.ids] ELSE readOf
    /\ carried' = IF ok THEN {c} ELSE carried
    /\ calls' = calls \ {c}
    /\ UNCHANGED <<bindings, chaptersOf, progressOf, notes, emptied, remembered, shownVars,
                   boundId, picking,
                   ownEmpty, newest, readThrough, pendingCarry, searched, noteVars, moves>>

\* Undo takes the carry's own marks back; the button waits for its answer.
UndoCarry(c) ==
    /\ ~awaiting /\ c \in carried
    /\ calls' = calls \cup {[c EXCEPT !.kind = "undo"]}
    /\ UNCHANGED <<rowVars, shownVars, sourceVars, noteVars, moves>>

CarryUndone(c, ok) ==
    /\ c.kind = "undo"
    /\ readOf' = IF ok THEN [readOf EXCEPT ![c.row] = @ \ c.ids] ELSE readOf
    /\ carried' = IF ok THEN {} ELSE carried
    /\ calls' = calls \ {c}
    /\ UNCHANGED <<bindings, chaptersOf, progressOf, notes, emptied, remembered, shownVars,
                   boundId, picking,
                   ownEmpty, newest, readThrough, pendingCarry, searched, noteVars, moves>>

DetailNext ==
    \/ \E t \in Titles : Walk(t)
    \/ DetailAnswered \/ OpenPicker \/ Unbind
    \/ \E n \in 0..1 : SaveNote(n)
    \/ HonourMarker \/ RestorePreviousSource \/ CarryAsked
    \/ \E list \in ChapterLists : ListAnswered(list)
    \/ \E n \in Reported : RecordCarried(n)
    \/ \E s \in Copies : BindTo(s)
    \/ \E c \in calls, ok \in BOOLEAN :
          \/ Saved(c, ok) \/ NoteSaved(c, ok) \/ BindingDropped(c, ok) \/ MovedOff(c, ok)
          \/ PreviousRestored(c, ok) \/ ProgressCarried(c, ok) \/ CarryUndone(c, ok)
    \/ \E c \in calls, list \in ChapterLists : Switched(c, list)
    \/ \E c \in carried : UndoCarry(c)

DetailSpec == DetailInit /\ [][DetailNext]_detailVars

-----------------------------------------------------------------------------

\* The page's state holds what its declarations say.
DetailPageTypeOK ==
    /\ bindings \in [Titles -> Copies \cup {Unbound}]
    /\ remembered \in [Titles -> Copies \cup {Unbound}]
    /\ \A r \in AllRows : readOf[r] \subseteq chaptersOf[r]
    /\ id \in Titles /\ boundId \in Copies \cup {Unbound}
    /\ pendingCarry.row \in Copies \cup {Unbound} /\ Cardinality(carried) <= 1
    /\ searched \in Copies \cup {"none", "empty"}
    /\ emptied \subseteq Titles

\* The note on a title's page is that title's, however the page was walked
\* to and whatever answered late (MangaDetailPage.tsx:1233-1242).
NoteIsTheirs == ~awaiting /\ noteAdoptedFor = id => note.title = id

\* A change of source marks as read only numbered chapters of the source it
\* went to, within how far the outgoing one had been read, and its undo takes
\* back those alone (:1367-1372, :1565-1573); Discover's marker takes a binding
\* away only from a title whose own catalogue has chapters (:1279-1281); and
\* none is written off that has (:1303-1312).
DetailKeepsPlace ==
    /\ \A r \in AllRows : \A n \in readOf'[r] \ readOf[r] :
          \E c \in calls \ calls' : c.row = r /\ 0 < n /\ n <= c.upTo
    /\ \A r \in AllRows : \A n \in readOf[r] \ readOf'[r] :
          \E c \in calls \ calls' : c.kind = "undo" /\ c.row = r /\ n \in c.ids
    /\ \A t \in Titles : (\E c \in calls \ calls' : c.kind = "move" /\ c.title = t)
          /\ bindings'[t] = Unbound /\ bindings[t] # Unbound => chaptersOf'[t] # {}
    /\ \A t \in emptied' \ emptied : chaptersOf'[t] = {}
=============================================================================
